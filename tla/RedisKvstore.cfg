SPECIFICATION Spec
CONSTANTS
  Key <- MCKey
  HashOf <- MCHashOf
  CursorBits = 3
  InitialExp = 0
  MinFill = 4
  ForceRatio = 2
  EmptyVisits = 2
  CronDicts = 2
  CronBatch = 2
  SparseRatio = 4
  Scenarios <- MCScenarios
INVARIANTS
  Findable
  Accounted
PROPERTIES
  ScanPromise
  RehashEnds
CHECK_DEADLOCK FALSE
