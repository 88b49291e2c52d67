SPECIFICATION FairSpec
CONSTANTS
  Calls = {c1, c2}
  Chain <- TimeoutLimitUserRetry
  MaxInFlight = 1
  MaxAttempts = 2
INVARIANTS InvocationsExact
PROPERTY EveryCallReturns
CHECK_DEADLOCK FALSE
