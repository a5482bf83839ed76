SPECIFICATION Spec
CONSTANTS
    Worker = {w1}
    Buffer = {b1, b2, b3}
    NoBuf = NoBuf
    PktSizes = {100, 200}
    Gaps = {0, 8, 11}
    SendCap = 1
    PrioCap = 1
PROPERTIES BufferLife ReadLoopNeverBlocks ShutdownCompletes SessionEndsUnlessFed
CHECK_DEADLOCK FALSE
