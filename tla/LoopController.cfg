\* A loop over three tasks with a quality gate, disturbed by others.
SPECIFICATION FairSpec
CONSTANTS
    Loop = loop
    Other = other
    Clients = {loop, other}
    NoClient = none
    NTasks = 3
    MaxIterations = 8
    QualityGate = TRUE
    MaxQualityRetries = 2
    Threshold = 3
    MaxIntrusions = 3
CHECK_DEADLOCK FALSE
INVARIANTS
    TypeOK
    AllDoneIsTrue
    NothingLeftClaimed
    ContextIsOwn
    EscalationPaced
    RejectionsBounded
PROPERTIES
    Stops
    LeaseSpec
