\* One date, two writes and a read, two failures and a token change anywhere, under fairness.
SPECIFICATION FairSpec
CONSTANTS
    Dates = {d1}
    WholeDiary = whole
    MaxPuts = 2
    MaxGets = 1
    MaxFaults = 2
    MaxRefreshes = 1
CHECK_DEADLOCK FALSE
INVARIANTS
    TypeOK
    ReconnectIsScheduled
    AuthenticatesBeforeData
    EveryPutIsOnTheWire
    PutsSettleInOrder
    AcknowledgedPutStands
    ReadYourWrites
    GetAnsweredOnce
PROPERTIES
    PutsAreSettled
    QueuedGetsMoveOn
