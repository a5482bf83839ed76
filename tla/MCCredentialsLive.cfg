SPECIFICATION Spec
CONSTANTS
    NumGroups = 2
    GroupSize = 1
    AuthMode = "anonymous"
    AnonPath = "vkcalls"
    ThrottleMin = 1
    RefreshGate = 1
    ErrorWindow = 1
    LockoutTime = 2
    MaxIssued = 1
CHECK_DEADLOCK FALSE
INVARIANTS LockoutKept
PROPERTIES ThrottleKept RefreshReturns StopEnds
