SPECIFICATION BSpec
CONSTANTS
    CentsPerTick = 5
    Fills <- ReducingFills
    MaxFills = 3
INVARIANT PositionIsNet
CHECK_DEADLOCK FALSE
