CONSTANTS
    p1 = p1  p2 = p2  a1 = a1  a2 = a2  c1 = c1  c2 = c2
    PlanRuns <- OnePlan
    AuctionRuns <- TwoAuctions
    Codes <- TwoCodes
    Opportunities <- TwoCodes
    Closable <- Nothing
    Scenarios <- OverTwoCodes
SPECIFICATION FairSpec
INVARIANTS AssessedAllOrNone ShownIsLastWrite
PROPERTY RunsEnd
CHECK_DEADLOCK FALSE
