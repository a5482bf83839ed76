SPECIFICATION Spec
CONSTANTS
    Session = {s1, s2}
    Buffer = {b1, b2, b3}
    NoBuf = NoBuf
    ReturnCap = 1
CHECK_DEADLOCK FALSE
INVARIANTS TypeOK LeftoversNeverBlock LanRouted CleanupComplete
PROPERTIES DownlinkBufferLife DownlinkFlows StopEndsProcess
