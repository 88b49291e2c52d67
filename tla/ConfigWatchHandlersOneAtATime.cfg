SPECIFICATION WatchSpec
CONSTANTS
  MaxWrites = 2
  MaxReloads = 3
  MaxHandlers = 2
INVARIANT HandlersOneAtATime
CHECK_DEADLOCK FALSE
