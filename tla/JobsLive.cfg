CONSTANTS
    batch = batch
    single = single
    again = again
    l1 = l1
    l2 = l2
    w1 = w1
    w2 = w2
    NoWorker = NoWorker
    NoLock = NoLock
    NoJob = NoJob
    NoEntry = NoEntry
    NoFile = NoFile
    Jobs <- TwoSingles
    Files <- OneFile
    FilesOf <- SameFile
    Workers <- TwoWorkers
    LockIds <- OneLock
    Capacity = 1
    MaxStored = 2
    Errors = {"review", "cancelled"}
    MaxFailures = 1
SPECIFICATION FairJobsSpec
PROPERTIES ShutdownEnds GetsItsTurn
