CONSTANTS
    Processes = {p1, p2}
    NoProcess = NoProcess
    Contents <- MCContents
    NoContent = NoContent
    Torn = Torn
    Bound <- MCBound
SPECIFICATION FileSpec
INVARIANTS WholeFile
PROPERTIES KeepsPromise
