CONSTANTS
    w1 = w1
    w2 = w2
    Jobs <- MarketJobs
    TypesOf <- MarketTypes
    Cron <- MarketCron
    Horizon = 1
    OccurrenceLimit = 3
    Workers <- MCWorkers
    BatchLimit = 2
    RunIds = {1, 2}
    Budgets <- MarketBudget
SPECIFICATION Spec
SYMMETRY Slots
INVARIANTS
    OneDatasourceRunning
