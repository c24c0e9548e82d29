\* A loop and a session work while an interview replaces the plan.
SPECIFICATION Spec
CONSTANTS
    Clients = {agent}
    NoClient = none
    Loops = {l1}
    Callers = {s1}
    Ids = {1, 2}
    MaxPlans = 2
    MaxRuns = 2
    MaxTokens = 2
CHECK_DEADLOCK FALSE
INVARIANTS
    TypeOK
    OwnPlanIsClaimable
    FreshIdIsEarned
