CONSTANTS
    Kinds <- MCKinds
    Servers <- MCServers
    NoServer = NoServer
    Keys <- TwoFiles
    RetryKeys <- TwoEpisodes
    Parts <- NoParts
    MaxInt = 1
    Subjects = {1}
    Downloads = {"d"}
    Requests <- MCRequests
    NoDownload = NoDownload
    NoOp = NoOp
    Kind = "sonarr"
    Files <- TwoFiles
    NoFile = NoFile
    FileSubject <- Subject
    FileDownload <- PackDownload
    Pack <- PackPack
    FirstFiles <- PackFirst
    Workers = {w1, w2}
    NoWorker = NoWorker
    MaxAttempts = 2
    MaxChanges = 0
SPECIFICATION FairMediaSpec
INVARIANTS OnceOnly
PROPERTIES Returns
