\* No fault is needed: a move or a save made while a read is outstanding.
SPECIFICATION Spec
CONSTANTS
    Picked = {20211014}
    Keys = {20211014, 20211015}
    Texts = {t1}
    Placeholder = placeholder
    Blank = blank
    NoDiary = nodiary
    MaxReads = 3
    MaxSaves = 1
    MaxFaults = 0
CHECK_DEADLOCK FALSE
INVARIANT ShownDiaryIsOfShownDate
