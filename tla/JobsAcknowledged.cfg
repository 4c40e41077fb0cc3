CONSTANTS
    batch = batch
    single = single
    again = again
    l1 = l1
    l2 = l2
    w1 = w1
    w2 = w2
    NoWorker = NoWorker
    NoLock = NoLock
    NoJob = NoJob
    NoEntry = NoEntry
    NoFile = NoFile
    Jobs <- BatchAndSingle
    Files <- TwoFiles
    FilesOf <- BatchFirst
    Workers <- OneWorker
    LockIds <- OneLock
    Capacity = 2
    MaxStored = 2
    Errors = {"retry", "review", "cancelled"}
    MaxFailures = 1
SPECIFICATION JobsSpec
INVARIANTS AcknowledgedIsStored
