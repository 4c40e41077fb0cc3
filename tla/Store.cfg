CONSTANTS
    Kinds <- Sonarr
    Servers <- TwoServers
    NoServer = NoServer
    Keys <- SeriesKeys
    RetryKeys <- TwoEpisodes
    Parts <- Combined
    MaxInt = 1
    Subjects = {1, 2}
    Downloads = {"d"}
    Requests <- SeriesRequests
    NoDownload = NoDownload
    NoOp = NoOp
SPECIFICATION Spec
INVARIANTS ServerBound TypeOK FenceUnique DoneOnce
PROPERTIES ImplementsLatch BudgetKept
