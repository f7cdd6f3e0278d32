SPECIFICATION FairSpec
CONSTANTS
    theUser = theUser
    Users <- MCUsers
    Owner <- MCOwner
    Syncs = {s1, s2}
    Direct = {}
    Workers = {w1}
    None = None
    MaxAttempts = 2
    MaxStalled = 1
    MaxLate = 0
    MaxLost = 0
    MaxCrashes = 1
PROPERTY RunningEnds
\* Requests may simply stop arriving.
CHECK_DEADLOCK FALSE
