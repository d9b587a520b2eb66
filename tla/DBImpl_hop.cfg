\* Three overwrites of a key, a flush inside a compaction, an error and a crash.
SPECIFICATION Spec
CONSTANTS
    w1 = w1
    w2 = w2
    w3 = w3
    None = None
    Deleted = Deleted
    NumLevels = 3
    MaxMemCompactLevel = 2
    L0CompactionTrigger = 4
    L0StopWritesTrigger = 5
    MaxBytesForLevel = 1
    MaxOutputFileSize = 2
    ExpandedCompactionByteSizeLimit = 10
    MaxGrandParentOverlapBytes = 1
    Keys = {1, 2}
    Writers = {w1, w2, w3}
    Batch <- Overwrites
    Sync <- Unsynced
    InitialDatabases <- CrowdedDatabases
    WriteBufferSize = 1
    MaxGroupSize = 1
    MaxOf <- ErrorAndCrash
    MaxEvents = 2
CHECK_DEADLOCK FALSE
INVARIANT EntriesNeverHop
