CONSTANTS
    n1 = n1  n2 = n2  b1 = b1  b2 = b2
    Deliveries = {1}
    Quiet = {2}
    Workers <- TwoWorkers
    Acts = 1
    Faults = 1
    Runners <- TwoRunners
    RunIds = {1, 2}
    Keys = {"key", "other key"}
    Requests = {"request", "other request"}
    LastDay = 2
    Mishaps = 1
    Series = {"day", "half_hour"}
    IndicatorWorkers = {"worker"}
    Onboarders = {"onboarding"}
    Writes = 2
    Failures = 1
SPECIFICATION WorkersSpec
INVARIANTS WorkersTypeOK SentAsMeant
PROPERTIES SettledRight BacktestsAreSound IndicatorsAreFresh WorkGetsDone
CHECK_DEADLOCK FALSE
