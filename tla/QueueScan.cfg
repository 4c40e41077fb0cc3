CONSTANTS
    Kinds <- MCKinds
    Servers <- MCServers
    NoServer = NoServer
    Keys <- MCKeys
    RetryKeys <- MCEpisodes
    Parts <- NoParts
    MaxInt = 1
    Subjects = {1}
    Downloads <- MCDownloads
    Requests <- MCRequests
    NoDownload = NoDownload
    NoOp = NoOp
    Kind = "sonarr"
    Subject = 1
    QueueKey <- MCQueueKey
    Rows <- MCRows
    NoRow = NoRow
    NoEpisode = NoEpisode
    Grabbed <- MCGrabbed
    FirstRows <- MCFirstRows
    Moves = {"blocked", "imported", "active", "stuck", "gone"}
    MediaRequests <- MCMediaRequests
    MaxAttempts = 1
    MaxChanges = 1
SPECIFICATION RecoverySpec
INVARIANTS RecoveryTypeOK SentOnce SearchBudget
