CONSTANTS
    Kinds <- MCKinds
    Servers <- MCServers
    NoServer = NoServer
    Keys <- MCDownloads
    RetryKeys <- MCEpisodes
    Parts <- NoParts
    MaxInt = 1
    Subjects = {1}
    Downloads <- MCDownloads
    Requests <- MCQueueRequests
    NoDownload = NoDownload
    NoOp = NoOp
    Kind = "sonarr"
    Subject = 1
    QueueKey <- MCQueueKey
    Rows <- ThreeRows
    NoRow = NoRow
    NoEpisode = NoEpisode
    Grabbed <- MCGrabbed
    FirstRows <- BothRejected
    Moves = {"blocked", "imported", "active", "gone"}
    MediaRequests = {}
    MaxAttempts = 1
    MaxChanges = 2
SPECIFICATION RecoverySpec
PROPERTIES RemovalJudged NothingStranded
