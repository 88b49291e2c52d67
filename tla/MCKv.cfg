SPECIFICATION Spec
CHECK_DEADLOCK FALSE
CONSTANTS
  Clients = {c1, c2, c3, c4}
  Limit = 2
  SemExpires = TRUE
  NoKey = NoKey
  Objects = {o1, o2, o3}
  RWExpires = TRUE
  NoWriter = NoWriter
  BatchSize = 2
  AutoAck = TRUE
  MaxEntries = 2
  MaxFailures = 2
  Callers = {c1, c2}
  MaxLocks = 4
  NoLock = NoLock
  Users = {u1, u2}
  MaxSubscriptions = 3
  BufferSize = 1
  NoSub = NoSub
  Writers = {w1, w2}
  EntityIds = {e1}
  Values = {va, vb, Blank}
  Blank = Blank
  Absent = Absent
  BatchMax = 1
  JsonClients = {j1, j2}
  Elements = {1, 2}
  JsonFields = {f1, f2}
  NoDoc = NoDoc
  FieldSet = {"A", "B", "C"}
  TagNames = {"", "id", "x"}
  FieldValues = {0, 1}
  NoField = NoField
INVARIANTS
  
  DeliveryExact
  
  IndexExact
  
PROPERTIES
  EveryEntryAcked
  
