INIT Init
NEXT Next
CONSTANTS
    NumGroups = 1
    GroupSize = 3
    TunFdSock = TRUE
    MaxSignals = 2
CHECK_DEADLOCK FALSE
INVARIANTS ConfigRight DeliveryWelcome MainIsLast
