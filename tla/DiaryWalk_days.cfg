\* Every day of a leap year.
SPECIFICATION Spec
CONSTANTS
    FirstYear = 2020
    LastYear = 2020
CHECK_DEADLOCK FALSE
PROPERTY ButtonsShowTheNeighbouringDay
