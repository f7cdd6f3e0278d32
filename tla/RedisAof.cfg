SPECIFICATION Spec
CONSTANTS
    None = None
    Dbs <- MCDbs
    Scenarios <- MCScenarios
INVARIANTS
    ReplayExact
    FsyncedDurable
    AlwaysDurable
PROPERTY RecoversPrefix
CHECK_DEADLOCK FALSE
