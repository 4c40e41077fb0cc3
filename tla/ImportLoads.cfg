CONSTANTS
    Kinds <- MCKinds
    Servers <- MCServers
    NoServer = NoServer
    Keys = {"q"}
    RetryKeys = {}
    Parts <- NoParts
    MaxInt = 1
    Subjects = {1}
    Downloads = {"d"}
    Requests <- MCRequests
    NoDownload = NoDownload
    NoOp = NoOp
    Kind = "sonarr"
    Subject = 1
    Download = "d"
    ImportKey = "q"
    MediaRequests = {}
    Episodes <- MCEpisodes
    Sources = {"f1", "f2"}
    Carries <- FileEach
    Elsewhere = Elsewhere
    NoSource = NoSource
    FirstHistories <- GrabOnly
    MaxHistory = 3
    MaxChanges = 1
    Erasable = TRUE
SPECIFICATION ImportSpec
INVARIANTS JournalLoads
