SPECIFICATION Spec
CHECK_DEADLOCK FALSE
CONSTANTS
  FileNames <- MCFileNames
  GoMigrations <- MCGoMigrations
  Contents = {1, 2}
  NoFile = NoFile
  Runners = {r1, r2}
  AllowOutOfOrder = FALSE
  MaxFileEdits = 1
  MaxMigrateRuns = 2
  SchemaItems <- MCSchemaItems
  Migrators = {m1, m2}
  TableItem <- MCTableItem
  TemplateTexts <- MCTemplateTexts
  SharedTexts <- MCSharedTexts
  ParamValues <- MCParamValues
  Missing = Missing
  TemplateUsers = {u1, u2}
  CacheSize = 1
  ParamWords = {"a", "b"}
  MaxOverlays = 2
  PredicateShapes = {"inEmpty", "case", "sub"}
  MaxBuilderCalls = 3
  NilList = NilList
  MutColumns = {"a", "b"}
  MaxInsertRows = 2
  TableSpecs <- MCTableSpecs
  Inspectors = {i1, i2}
  MaxConnections = 2
  DbCallers = {c1, c2}
  HookCount = 2
  ResultRows = 2
  PoolSize = 2
  MaxOperations = 2
  Hosts = {h1, h2}
  SequenceSize = 2
  MaxNodeID = 2
  MaxClock = 3
  MaxIssued = 4
  RelKeys = {1}
  NoKey = 0
  SourceLists <- MCSourceLists
  RelTables <- MCRelTables
  Loaders = {l1}
  ChunkSize = 2
  MaxRelWrites = 1
  RowIds = {1, 2, 3}
  RowValues = {1, 2}
  RepoClients = {p1, p2}
  MaxRepoCalls = 2
  MaxRow = 4
  DefaultPageSize = 2
  Scanners = {s1, s2}
  Instants = {0, 5}
  UnitOf <- MCUnitOf
  Null = Null
INVARIANTS
  MigrationsExact DbRuntimeExact 
