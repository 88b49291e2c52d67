SPECIFICATION Spec
CHECK_DEADLOCK FALSE
CONSTANTS
  NoCache = NoCache
  Null = Null
  Items = {1, 2}
  Zero = Zero
  Unset = Unset
  RingCaps = {0, 1, 3}
  MaxLen = 5
  Elems = {1, 2}
  NoList = NoList
  MaxItems = 3
  RopeItems = {1, 2}
  LeafSize = 1
  NoNode = NoNode
  MaxRope = 7
  Keys = {1, 2}
  Vals = {11, 12}
  Columns = {21, 22}
  NoMap = NoMap
  MaxValues = 2
  Members = {1, 2, 3}
  NoSet = NoSet
  MaxCount = 3
  MaxPoint = 5
  RangeVals = {7, 8}
  Runes = {1, 2}
  TrieVals = {7, 8}
  MaxKeyLen = 2
  NodeIds = {1, 2, 3}
  NodeVals = {7, 8}
  ShardKeys = {1, 2}
  ShardVals = {7, 8}
  ShardCount = 2
  Goroutines = {g1, g2, g3}
  Callbacks = {"pure", "contains", "add"}
INVARIANTS
    SetsExact  
