SPECIFICATION VSpec
CONSTANTS
    MaxOrders = 2
    MaxTs = 2
    Requests <- QueueRequests
    Quotes <- QueueQuotes
    Trades <- QueueTrades
    Entry = 0
    Response = 2
    Model = "pessimistic"
    BadStamps = FALSE
INVARIANTS TypeOK Conservation LimitRespected PessimisticQueue
INVARIANTS HandedBackOnce PerOrderInOrder
PROPERTIES PrintShared ImplementsLife
CHECK_DEADLOCK FALSE
