INIT Init
NEXT Next
CONSTANTS
    Writer = {writer, disconnect}
    M = 4
    Step = 6
    Limit = 32
    Plains = {0, 1, 1580, 1581}
    PadMax = 60
    ReadBuf = 1600
CHECK_DEADLOCK FALSE
INVARIANTS NonceFresh UnwrapExact
