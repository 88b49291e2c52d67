SPECIFICATION Spec
CONSTANTS
  Calls = {c1, c2}
  Chain <- TimeoutLimitUserRetry
  MaxInFlight = 1
  MaxAttempts = 2
PROPERTY AfterInReverse
CHECK_DEADLOCK FALSE
