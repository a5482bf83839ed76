INIT Init
NEXT Next
CONSTANTS
    Worker = {w1, w2}
    Buffer = {b1, b2, b3, b4}
    NoBuf = NoBuf
    PktSizes = {100}
    Gaps = {0}
    SendCap = 1
    PrioCap = 1
SYMMETRY Symmetry
PROPERTIES ChunkSizeKept
CHECK_DEADLOCK FALSE
