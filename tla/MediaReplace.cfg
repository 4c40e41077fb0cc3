CONSTANTS
    Kinds <- MCKinds
    Servers <- MCServers
    NoServer = NoServer
    Keys <- TwoFiles
    RetryKeys <- TwoEpisodes
    Parts <- NoParts
    MaxInt = 1
    Subjects = {1}
    Downloads = {"d"}
    Requests <- MCRequests
    NoDownload = NoDownload
    NoOp = NoOp
    Kind = "sonarr"
    Files <- TwoFiles
    NoFile = NoFile
    FileSubject <- Subject
    FileDownload <- ReplaceDownload
    Pack <- ReplacePack
    FirstFiles <- ReplaceFirst
    Workers = {w1}
    NoWorker = NoWorker
    MaxAttempts = 1
    MaxChanges = 2
SPECIFICATION MediaSpec
INVARIANTS MediaTypeOK WithinBudget NoDoubleSearch NotForgotten
PROPERTIES AsksInOrder JudgedBefore
