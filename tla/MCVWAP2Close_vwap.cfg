SPECIFICATION VWSpec
CONSTANTS
    MaxOrders = 4
    MaxTs = 4
    Requests = {}
    Quotes <- TwoQuotes
    Trades <- BothPrints
    Entry = 0
    Response = 1
    Model = "pessimistic"
    BadStamps = FALSE
    CentsPerTick = 1
    MaxQty = 0
    MaxAbsPosition = 0
    MaxDayLoss = 0
    MaxRate = 0
    Window = 0
    Fee = 0
    MaxCascade = 3
    MaxEvents = 8
    MaxSessions = 1
    StoreSnapshot = FALSE
    SLTicks = 2
    TPTicks = 1
    Qty = 1
    Rth = {0, 1, 2, 4}
    DateOf <- Dates
    Openings <- TwoOpenings
INVARIANTS OnePosition EntryAnchored StopWatched StreakIsTape
CHECK_DEADLOCK FALSE
