CONSTANTS
    Codes = {1, 2}
    BarsOf <- Bars
    Kernels = {"left"}
    Days = 6
    InitialCash = 2500
    MaxPositions = 1
    DailyBuyLimit = 2
    BudgetShare = 2
    StopPct = 10
    MaxHoldingDays = 3
    DrawdownPct = 1
    Window = 2
SPECIFICATION EngineSpec
INVARIANT SellsWhatWasIntended
CHECK_DEADLOCK FALSE
