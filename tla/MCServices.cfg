SPECIFICATION Spec
CHECK_DEADLOCK FALSE
CONSTANTS
  MaxWrites = 2
  MaxReloads = 3
  MaxHandlers = 2
  Emitters = {e1, e2}
  MaxEvents = 2
  MaxChecks = 3
  RecvSize = 2
  MaxMessages = 4
  MaxPings = 2
INVARIANTS
  TellsExact
  ServingExact
PROPERTIES
  ReloadsExact
  EveryChangeRead
  ServicesProgress
