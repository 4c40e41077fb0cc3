CONSTANTS
    Kinds <- MCKinds
    Servers <- MCServers
    NoServer = NoServer
    Keys = {"q", "f"}
    RetryKeys = {}
    Parts <- NoParts
    MaxInt = 1
    Subjects = {1}
    Downloads = {"d"}
    Requests <- MCAllRequests
    NoDownload = NoDownload
    NoOp = NoOp
    Kind = "sonarr"
    Subject = 1
    Download = "d"
    ImportKey = "q"
    MediaRequests <- MCMediaRequests
    Episodes <- MCEpisodes
    Sources = {"f1", "f2", "f12"}
    Carries <- AllFiles
    Elsewhere = Elsewhere
    NoSource = NoSource
    FirstHistories <- GrabOnly
    MaxHistory = 3
    MaxChanges = 1
    Erasable = TRUE
SPECIFICATION ImportSpec
INVARIANTS ImportTypeOK JournalCovers ImportedOnce
PROPERTIES CleanupHarmless ImportJudged CompletedIsVerified
CHECK_DEADLOCK FALSE
