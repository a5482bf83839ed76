SPECIFICATION Spec
CONSTANTS
    Link = {l1, l2}
    AttemptLimit = 4
    CaptchaLimit = 3
CHECK_DEADLOCK FALSE
INVARIANTS TypeOK AnswersMatchPrompts
PROPERTIES StdinNeverBlocks FetchEnds
