SPECIFICATION LifecycleSpec
CONSTANTS
  NumModules = 3
  Starters = {p1}
  Stoppers = {q1}
INVARIANT RollbackStopsWhatStarted
CHECK_DEADLOCK FALSE
