\* Two loops and a server start, join and finish runs, and die.
SPECIFICATION FairSpec
CONSTANTS
    Loops = {l1, l2}
    Servers = {s1}
    NoOne = none
    MaxRuns = 2
CHECK_DEADLOCK FALSE
INVARIANTS
    TypeOK
    NoHalfRun
    DanglingExplained
    LifecycleInv
PROPERTIES
    PointerNotStolen
    StartAnswered
