SPECIFICATION Spec
CONSTANTS
  Calls = {c1, c2}
  Closers = {}
  Types = {t1}
  MaxSubs = 2
  MaxCalls = 1
  PoolSize = 1
  MaxBlocking = 0
  Parallel = FALSE
  NoCache = NoCache
INVARIANTS DispatchExact CacheFreshUnlessRaced

CHECK_DEADLOCK FALSE
