SPECIFICATION LSpec
CONSTANTS
    MaxOrders = 2
    MaxTs = 0
    Requests <- QueueOrders
    Quotes = {}
    Trades <- QueuePrints
    Entry = 0
    Model = "pessimistic"
    BadStamps = FALSE
    Rows <- QueueRows
    ReAdds = FALSE
INVARIANTS BookIndexed GhostIsFifo
PROPERTIES PlaceKept FirstPrintClears
CHECK_DEADLOCK FALSE
