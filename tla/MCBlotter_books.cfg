SPECIFICATION BSpec
CONSTANTS
    CentsPerTick = 5
    Fills <- MixedFills
    MaxFills = 5
INVARIANTS TripsSumToRealized
PROPERTIES EquityKept
CHECK_DEADLOCK FALSE
