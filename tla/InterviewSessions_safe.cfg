\* Two servers with two calls in flight each, a cleanup, and a session that may expire.
SPECIFICATION Spec
CONSTANTS
    Servers = {v1, v2}
    Slots = {1, 2}
    Sessions = {s1}
    None = none
    MaxRounds = 3
    Sweepers = {w1}
    Expiring = {s1}
    MaxLocks = 2
SYMMETRY Symmetry
CHECK_DEADLOCK FALSE
INVARIANTS
    TypeOK
    CancelledStaysGone
PROPERTY
    RevisionOnce
