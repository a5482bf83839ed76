SPECIFICATION Spec
CONSTANTS
    NumGroups = 2
    GroupSize = 1
    TunFdSock = FALSE
    MaxSignals = 1
CHECK_DEADLOCK FALSE
PROPERTIES StopTerminates ConfigTakesEffect
