SPECIFICATION RSpec
CONSTANTS
    MaxOrders = 2
    MaxTs = 2
    Requests <- RiskRequests
    Quotes <- OneQuote
    Trades <- ThroughPrints
    Entry = 0
    Response = 0
    Model = "pessimistic"
    BadStamps = FALSE
    CentsPerTick = 1
    MaxQty = 0
    MaxAbsPosition = 2
    MaxDayLoss = 2
    MaxRate = 0
    Window = 0
    Fee = 1
    MaxCascade = 2
    MaxEvents = 3
    MaxSessions = 2
    StoreSnapshot = TRUE
INVARIANTS BooksFromLog IdsNeverReused NeverOverfilled
PROPERTIES ImplementsLoop
CHECK_DEADLOCK FALSE
