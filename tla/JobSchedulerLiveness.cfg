CONSTANTS
    w1 = w1
    w2 = w2
    Jobs <- LiveJobs
    TypesOf <- LiveTypes
    Cron <- LiveCron
    Horizon = 3
    OccurrenceLimit = 1
    Workers <- MCWorkers
    BatchLimit = 1
    RunIds = {1, 2}
    Budgets <- StopOnce
SPECIFICATION LiveSpec
PROPERTIES
    QueuedRunsEnd
    ComesUp
