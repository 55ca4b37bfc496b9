SPECIFICATION LoopsSpec
CONSTANTS
    Cap = 1
    MaxDials = 0
    MaxRows = 0
    MaxSeq = 0
    Tapes <- ShortTapes
    Speeds = {0, 1}
    MaxCtl = 4
    MaxCascade = 1
    MaxEvents = 0
    Sizes = {0}
INVARIANTS SleepsTapeTime
CHECK_DEADLOCK FALSE
