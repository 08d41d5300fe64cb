CONSTANTS
    w1 = w1
    w2 = w2
    s1 = s1  s2 = s2  g1 = g1  g2 = g2  f1 = f1  f2 = f2
    Jobs <- ScanJobs
    TypesOf <- ScanTypes
    Cron <- ScanCron
    Horizon = 3
    OccurrenceLimit = 2
    Workers = {w1}
    BatchLimit = 1
    RunIds = {1, 2}
    Budgets <- ScanBudget
    Documents = {"short"}
    Authors <- TwoSessions
    Pages <- TwoPages
    ProposalIds = {1, 2}
    TokenBound = 2
    Restarts = 1
    Quantities = {1, 2}
    Fills <- TwoDays
    SignalTypes = {"swing", "limit_up"}
    SignalDays = {1}
    EventBound = 4
    Codes = {1, 2}
    BarsOf <- Bars
    Kernels = {"simple", "tiered", "left", "swing", "trial"}
    Days = 6
    InitialCash = 2500
    MaxPositions = 1
    DailyBuyLimit = 2
    BudgetShare = 2
    StopPct = 10
    MaxHoldingDays = 3
    DrawdownPct = 1
    Window = 2
    Flows <- TwoFlows
    EventLimit = 3
    PageSize = 2
    Reopenings = 1
    Stocks = {1}
    PoolDays = 2
    Onboardings = 3
SPECIFICATION RecordsSpec
SYMMETRY Names
INVARIANTS RecordsTypeOK EveryOccurrenceOnce LedgerAddsUp
PROPERTIES StrategyIsConsistent BacktestsAddUp EventsArrive PoolsAreKept
CHECK_DEADLOCK FALSE
