\* Forced recovery takes claims from live clients of two tasks.
SPECIFICATION Spec
CONSTANTS
    Clients = {c1, c2}
    NoClient = none
    Mortal = {c1, c2}
    NTasks = 2
    Recoverers = {r1}
    StaleAfter = 2
    Forces = {TRUE}
    MaxClock = 0
    MaxTokens = 4
SYMMETRY ClientSymmetry
INVARIANTS
    HolderIsClaimant
    CompletedOnce
PROPERTIES
    LeaseSpec
