SPECIFICATION Spec
CONSTANTS
    n1 = n1  n2 = n2  n3 = n3
    None = None
    Servers = {n1, n2, n3}
    Dbs = {0, 1}
    BacklogSize = 1
    Scenarios <- MCScenarios
INVARIANTS StreamExact SameIdSameData
PROPERTIES FailoverKeepsWrites CatchesUp
CHECK_DEADLOCK FALSE
