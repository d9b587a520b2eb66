\* Two accounts at the bounds of a level and at the last bound, three visits,
\* two diaries, one fault.
SPECIFICATION Spec
CONSTANTS
    Users = {alice, bob}
    NoUser = nouser
    InitialCounts = {0, 2, 14, 55}
    MaxVisits = 3
    MaxDiaries = 2
    MaxFaults = 1
CHECK_DEADLOCK FALSE
INVARIANTS
    TypeOK
    LastCountWins
    HomeShowsAKnownCount
PROPERTY TreeNeverShrinks
