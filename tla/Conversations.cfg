CONSTANTS
    u1 = u1  u2 = u2  j1 = j1
    UserTurns <- TwoUsers
    JobTurns <- OneJob
    Continuations = 1
    TurnMessages <- Messages
    SeqBound <- AllMessages
    Faults = 1
    Proposals = {1, 2}
    Requests = {"first", "second", "third"}
    Tools = {"pool_write", "finalize_backtest"}
    VersionBound = 5
    Disturbances = 2
    Interactive = {"page", "agent"}
    Medium = {"daily"}
    Low = {"boards"}
    Pumps = {1, 2}
    BurstLimit = 3
    MaxRetries = 1
    Instruments = {i1}
    Core = {}
    TradingDays = 3
    ToleratedGap = 2
    AverageOf = 2
    Loads = 1
    Mishaps = 1
SPECIFICATION ConversationsSpec
INVARIANTS ConversationsTypeOK OneTurnAtATime MessagesStayTogether AbortHitsItsTurn StatusSettles BarsAreSound
PROPERTIES ApprovalsAreHonest RequestsArePaced ConversationsEnd
CHECK_DEADLOCK FALSE
