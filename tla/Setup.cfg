\* Three calls, each of which may set up, unregister and fail.
SPECIFICATION SetupSpec
CONSTANTS
    p1 = p1
    p2 = p2
    Calls = {c1, c2, c3}
    Paths = {p1, p2}
    Occurs <- PartOfAnother
    Keys = {k1, k2}
    Unset = unset
    Empty = empty
CHECK_DEADLOCK FALSE
INVARIANTS
    AnswerIsTrue
    RaceKeepsRegistration
