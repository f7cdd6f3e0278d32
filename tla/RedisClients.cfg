SPECIFICATION Spec
CONSTANTS
    None = None
    a = a
    b = b
    c = c
    Clients = {a, b, c}
    Keys = {"k", "l"}
    Dbs <- MCDbs
    Scenarios <- MCScenarios
INVARIANTS
    NoLostWakeup
    CacheCoherent
PROPERTIES
    WatchExact
CHECK_DEADLOCK FALSE
