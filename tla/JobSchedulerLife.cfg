CONSTANTS
    w1 = w1
    w2 = w2
    Jobs <- MixedJobs
    TypesOf <- LifeTypes
    Cron <- LifeCron
    Horizon = 1
    OccurrenceLimit = 3
    Workers <- MCWorkers
    BatchLimit = 2
    RunIds = {1, 2}
    Budgets <- LifeBudgets
SPECIFICATION LifeSpec
SYMMETRY Slots
INVARIANTS
    TypeOK
    OneOwner
    RunningIsWorkedOn
    TwoAttempts
    ResultBelongsToSuccess
    ConversationNotStuck
    OnePipeline
PROPERTIES
    EndIsFinal
    KeepsLifecycle
