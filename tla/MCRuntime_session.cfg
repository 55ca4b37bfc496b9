SPECIFICATION RSpec
CONSTANTS
    MaxOrders = 3
    MaxTs = 2
    Requests <- PartialRequests
    Quotes <- ThinningQuotes
    Trades <- OnePrint
    Entry = 1
    Response = 1
    Model = "proportional"
    BadStamps = FALSE
    CentsPerTick = 1
    MaxQty = 0
    MaxAbsPosition = 0
    MaxDayLoss = 0
    MaxRate = 2
    Window = 1
    Fee = 1
    MaxCascade = 2
    MaxEvents = 3
    MaxSessions = 1
    StoreSnapshot = FALSE
INVARIANTS LogComplete StoreNotStale ResolvedAtEnd EntryHonoured RoundTrip RateCap
CHECK_DEADLOCK FALSE
