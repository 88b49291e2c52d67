SPECIFICATION FairSpec
CONSTANTS
  Calls = {c1, c2}
  Closers = {k1, k2}
  Types = {t1}
  MaxSubs = 1
  MaxCalls = 1
  PoolSize = 1
  MaxBlocking = 0
  Parallel = TRUE
  NoCache = NoCache
INVARIANTS ParallelBound CloseDrains
PROPERTIES NoAdmissionAfterClose ImplementsLifecycle EveryCallEnds CloseReturns
CHECK_DEADLOCK FALSE
