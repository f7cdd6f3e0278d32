SPECIFICATION Spec
CONSTANTS
  Callers = {c1, c2}
  TokenTtl = 4
  RefreshBuffer = 1
  WindowSize = 2
  MaxRequests = 2
  Lifetimes <- MCLifetimes
  MaxLatency = 1
  MaxTime = 5
  MaxCalls = 6
  MaxRedisFaults = 1
  MaxCrashes = 1
SYMMETRY CallerSymmetry
CHECK_DEADLOCK FALSE
INVARIANTS TokenUsable WindowBound
PROPERTY RefusedOnlyIfBusy
