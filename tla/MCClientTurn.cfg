SPECIFICATION Spec
CONSTANTS
    NumGroups = 2
    GroupSize = 1
    TunFdSock = FALSE
    MaxSignals = 0
CHECK_DEADLOCK FALSE
PROPERTIES TurnComes
