SPECIFICATION LoopsSpec
CONSTANTS
    Cap = 1
    MaxDials = 2
    MaxRows = 2
    MaxSeq = 3
    Tapes <- ShortTapes
    Speeds = {0, 1}
    MaxCtl = 4
    MaxCascade = 3
    MaxEvents = 2
    Sizes = {0, 1, 2}
INVARIANTS AfterClose GapsAreReal PauseBites Conversation
PROPERTIES CloseEnds GoneEnds PlayFinishes RunEnds
CHECK_DEADLOCK FALSE
