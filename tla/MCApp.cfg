SPECIFICATION Spec
CHECK_DEADLOCK FALSE
CONSTANTS
  NumModules = 3
  Starters = {p1, p2}
  Stoppers = {q1, q2}
  Mods = {1, 2, 3}
  ModNames = {"unnamed", "x"}
  Apps <- AppSet
  Builders = {b1, b2, b3}
  Requests = {r1}
  Registrars = {g1, g2}
  MaxSettings = 2
  Segments = {"a", "b", "{x}", "{y}"}
  Paths <- PathSet
  Queries <- QuerySet
  Params = {"{x}", "{y}"}
  Definers = {d1, d2}
  MaxRoutes = 3
  Visits = {v1, v2}
  MaxPolicies = 2
  MaxLoads = 2
  MaxArgs = 3
INVARIANTS
  StopsExact
  BuildExact
  AuthExact
  HttpExact
  

  
