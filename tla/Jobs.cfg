CONSTANTS
    batch = batch
    single = single
    again = again
    l1 = l1
    l2 = l2
    w1 = w1
    w2 = w2
    NoWorker = NoWorker
    NoLock = NoLock
    NoJob = NoJob
    NoEntry = NoEntry
    NoFile = NoFile
    Jobs <- BatchAndSingle
    Files <- TwoFiles
    FilesOf <- BatchFirst
    Workers <- TwoWorkers
    LockIds <- TwoLocks
    Capacity = 1
    MaxStored = 2
    Errors = {"retry", "cancelled"}
    MaxFailures = 1
SPECIFICATION JobsSpec
SYMMETRY Symmetry
PROPERTIES RemovedWhenServed
INVARIANTS AcceptedIsDurable JobsTypeOK ClaimsAreGood FileExclusive RunOnce
