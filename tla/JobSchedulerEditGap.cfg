CONSTANTS
    w1 = w1
    w2 = w2
    Jobs <- ScanJobs
    TypesOf <- ScanTypes
    Cron <- ScanCron
    Horizon = 3
    OccurrenceLimit = 2
    Workers = {w1}
    BatchLimit = 1
    RunIds = {1, 2}
    Budgets <- EditBudget
SPECIFICATION Spec
INVARIANTS
    GapIsRecorded
