CONSTANTS
    p1 = p1  p2 = p2  a1 = a1  a2 = a2  c1 = c1  c2 = c2
    PlanRuns <- TwoPlans
    AuctionRuns <- OneAuction
    Codes <- OneCode
    Opportunities <- OneCode
    Closable <- OneAuction
    Scenarios <- Disturbed
SPECIFICATION Spec
SYMMETRY Plans
INVARIANTS TypeOK BoardIsLatest OnlyBookedIsShown AssessmentsFollowPlan
CHECK_DEADLOCK FALSE
