\* Every day of a leap year and of the year after it.
SPECIFICATION Spec
CONSTANTS
    FirstYear = 2020
    LastYear = 2021
\* An out-of-range index ends the walk.
CHECK_DEADLOCK FALSE
INVARIANTS
    TypeOK
    OnlyNewYearTraps
PROPERTIES
    BeforeShowsThePreviousDay
    ButtonsKeepTheirDirection
