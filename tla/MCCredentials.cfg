INIT Init
NEXT Next
CONSTANTS
    NumGroups = 1
    GroupSize = 2
    AuthMode = "account"
    AnonPath = "legacy"
    ThrottleMin = 1
    RefreshGate = 2
    ErrorWindow = 1
    LockoutTime = 1
    MaxIssued = 3
CHECK_DEADLOCK FALSE
INVARIANTS RefreshRenews ErrorsNeverPile
PROPERTIES RefreshesApart
