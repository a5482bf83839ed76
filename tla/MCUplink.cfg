INIT Init
NEXT Next
CONSTANTS
    Worker = {w1, w2}
    Buffer = {b1, b2, b3}
    NoBuf = NoBuf
    PktSizes = {100, 200}
    Gaps = {0, 11}
    SendCap = 1
    PrioCap = 1
SYMMETRY Symmetry
INVARIANTS BufferInOnePlace AckOvertakenOnce UnregisteredIsQuiet RRIndexInBounds ChunkAffinity
PROPERTIES EveryWorkerTried
CHECK_DEADLOCK FALSE
