\* One read and one lost connection are enough for the read to be forgotten.
SPECIFICATION FairSpec
CONSTANTS
    Dates = {d1}
    WholeDiary = whole
    MaxPuts = 0
    MaxGets = 1
    MaxFaults = 1
    MaxRefreshes = 0
CHECK_DEADLOCK FALSE
PROPERTY EveryGetIsAnswered
