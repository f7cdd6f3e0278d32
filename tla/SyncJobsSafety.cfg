SPECIFICATION Spec
CONSTANTS
    theUser = theUser
    Users <- MCUsers
    Owner <- MCOwner
    Syncs = {s1, d1}
    Direct = {d1}
    Workers = {w1, w2}
    None = None
    MaxAttempts = 3
    MaxStalled = 1
    MaxLate = 1
    MaxLost = 1
    MaxCrashes = 2
SYMMETRY WorkerSymmetry
INVARIANT RunningExplained
INVARIANT SuccessMeansSynced
INVARIANT RunsBounded
 
\* Requests may simply stop arriving.
CHECK_DEADLOCK FALSE
