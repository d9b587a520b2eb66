SPECIFICATION Spec
CONSTANTS
    ana = ana
    ben = ben
    Users = {ana, ben}
    NoUser = NoUser
    None = None
    MostDiaries = 1
    LastDay = 2
    MaxScreens = 7
    MaxOf <- Budget
    MaxEvents = 5
SYMMETRY Symmetry
CHECK_DEADLOCK FALSE
INVARIANTS
    TypeOK
    ScreensActForTheirUser
    TrapsAreExplained
    ResultsAnswerTheirSave
    PicturesCountTheirDiary
    MarksMissOnlyLaterDiaries
    RefusalsAreExplained
    TokenIsOfTheUser
    RecordsFollowAccounts
PROPERTIES
    DiariesLeaveTheQueueStored
