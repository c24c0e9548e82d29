\* Interviews of both modes with both drivers, model and calls failing at will.
SPECIFICATION FairSpec
CONSTANTS
    Clarity <- SomeClarity
    RiskReply <- SomeRisk
CHECK_DEADLOCK FALSE
INVARIANTS
    TasksAreJustified
    NothingLost
    OneAnswerPerQuestion
PROPERTY
    Ends
