\* One account at the bound of a level writes one diary; nothing fails.
SPECIFICATION Spec
CONSTANTS
    Users = {alice}
    NoUser = nouser
    InitialCounts = {14}
    MaxVisits = 2
    MaxDiaries = 1
    MaxFaults = 0
CHECK_DEADLOCK FALSE
INVARIANT HomeShowsTheUsersTree
