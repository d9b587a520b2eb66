SPECIFICATION Spec
CONSTANTS
    w1 = w1
    w2 = w2
    w3 = w3
    None = None
    Deleted = Deleted
    NumLevels = 3
    MaxMemCompactLevel = 2
    L0CompactionTrigger = 1
    L0StopWritesTrigger = 2
    MaxBytesForLevel = 5
    MaxOutputFileSize = 2
    ExpandedCompactionByteSizeLimit = 10
    MaxGrandParentOverlapBytes = 1
    Keys = {1, 2, 3}
    Writers = {w1, w2, w3}
    Batch <- Batches
    Sync <- Syncs
    InitialDatabases <- Databases
    WriteBufferSize = 0
    MaxGroupSize = 2
    MaxOf <- OneOfEach
    MaxEvents = 2
CHECK_DEADLOCK FALSE
INVARIANTS
    TypeOK
    LiveFilesExist
    NewerEntriesAbove
    OnlyManualCompactionsOverlap
    FreshFileNumbers
    WorkIsScheduled
PROPERTIES
    ManifestBreaksOnlyAfterAnError
    BackgroundKeepsReads
    ImplementsStore
