\* Two servers with two calls in flight each, which may wait for each other in a circle.
SPECIFICATION FairSpec
CONSTANTS
    Servers = {v1, v2}
    Slots = {1, 2}
    Sessions = {s1}
    None = none
    MaxRounds = 1
    Sweepers = {w1}
    Expiring = {s1}
    MaxLocks = 2
CHECK_DEADLOCK FALSE
PROPERTY
    Answered
