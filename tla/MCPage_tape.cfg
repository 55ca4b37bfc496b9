SPECIFICATION PageSpecification
CONSTANTS
    Holidays = {10}
    EarlyDays = {12}
    MonthEnds = {9, 12}
    UtcOffset = 24
    TicksPerRow = 2
    Ratio = 2
    MinStack = 1
    Days = {9, 11, 12}
    Clocks <- AllClocks
    Prints <- AllPrints
    Specs <- AllSpecs
    MaxTrades = 3
INVARIANTS
    SamePage
    FlowSinceEdge
    BarsPartition
    AreaCovers
CHECK_DEADLOCK FALSE
