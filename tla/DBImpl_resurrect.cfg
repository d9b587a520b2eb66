\* A deleted value comes back: the deletion, another write and a flush, with a
\* snapshot that is released between the two compactions.
SPECIFICATION Spec
CONSTANTS
    w1 = w1
    w2 = w2
    w3 = w3
    None = None
    Deleted = Deleted
    NumLevels = 3
    MaxMemCompactLevel = 2
    L0CompactionTrigger = 1
    L0StopWritesTrigger = 2
    MaxBytesForLevel = 5
    MaxOutputFileSize = 2
    ExpandedCompactionByteSizeLimit = 10
    MaxGrandParentOverlapBytes = 1
    Keys = {1, 2}
    Writers = {w1, w2, w3}
    Batch <- Deletion
    Sync <- Unsynced
    InitialDatabases <- PairDatabases
    WriteBufferSize = 0
    MaxGroupSize = 1
    MaxOf <- SnapshotAndFlush
    MaxEvents = 2
CHECK_DEADLOCK FALSE
PROPERTY CompactionsKeepContents
