CONSTANTS
    p1 = p1  p2 = p2  a1 = a1  a2 = a2  c1 = c1  c2 = c2
    PlanRuns <- TwoPlans
    AuctionRuns <- Nothing
    Codes <- OneCode
    Opportunities <- OneCode
    Closable <- Nothing
    Scenarios <- Undisturbed
SPECIFICATION Spec
INVARIANT OlderIsSuperseded
CHECK_DEADLOCK FALSE
