CONSTANTS
    Media = "media"
    Sidecars = {"s1", "s2"}
    Tokens <- MCTokens
    Contents <- MCContents
    Logs <- MCLogs
    Known <- MCKnown
    MaxWrites = 3
    Rows = {1, 2, 3, 4}
    PageSize = 1
    MaxPages = 3
    MaxRows = 4
    MaxChanges = 2
    Library = {f1, f2, f3}
    Workers = 2
    scanReadAttempts = 2
SPECIFICATION MCSpec
INVARIANTS JudgedAtOnce EnglishProtected MissesOnlyRemoved EveryFileAccounted
PROPERTIES ScanEnds
CHECK_DEADLOCK FALSE
