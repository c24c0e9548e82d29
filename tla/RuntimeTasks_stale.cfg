\* Recoveries by age race each other and the clients for one task.
SPECIFICATION Spec
CONSTANTS
    Clients = {c1, c2}
    NoClient = none
    Mortal = {c1, c2}
    NTasks = 1
    Recoverers = {r1, r2}
    StaleAfter = 2
    Forces = {FALSE}
    MaxClock = 3
    MaxTokens = 3
SYMMETRY Symmetry
INVARIANTS
    TypeOK
    ExpectedMeansUnchanged
    IndInv
PROPERTIES
    PunctualClaimKept
