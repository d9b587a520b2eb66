\* The last two days of September and the malformed key that follows them;
\* three reads, two saves, one fault.
SPECIFICATION Spec
CONSTANTS
    Picked = {20210930}
    Keys = {20210929, 20210930, 2021101}
    Texts = {t1}
    Placeholder = placeholder
    Blank = blank
    NoDiary = nodiary
    MaxReads = 3
    MaxSaves = 2
    MaxFaults = 1
CHECK_DEADLOCK FALSE
INVARIANTS
    TypeOK
    SettledScreenShowsItsDate
    PatientWriterKeepsDates
