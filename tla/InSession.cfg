\* Two calls, one after the other or at once, killed at times.
SPECIFICATION Spec
CONSTANTS
    Clients = {agent}
    NoClient = none
    Calls = {k1, k2}
    Mortal = {"run", "next", "finish", "recover"}
    NTasks = 3
    Mark <- OneDone
    MaxTokens = 3
    MaxRuns = 2
SYMMETRY CallSymmetry
CHECK_DEADLOCK FALSE
INVARIANTS
    TypeOK
    MirrorInStep
    DoneIsEarned
    FinishedIsEarned
