\* A loop dies and another one is started after a recovery.
SPECIFICATION Spec
CONSTANTS
    Loops = {l1, l2}
    Servers = {}
    NoOne = none
    MaxRuns = 2
SYMMETRY LoopSymmetry
CHECK_DEADLOCK FALSE
PROPERTY
    ResumesAfterRecovery
