SPECIFICATION Spec
CONSTANTS
    Session = {s1, s2}
    HandshakeMax = 1
CONSTRAINT RunsAlone
CHECK_DEADLOCK FALSE
INVARIANTS TypeOK GivesBack ClosedWhenQuiet
PROPERTIES SessionStops SessionReturnsUnlessFed
