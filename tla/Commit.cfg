SPECIFICATION StoresSpec
CONSTANTS
    Requests <- MCRequests
    Kind <- MCKind
    ReadOrder <- MCReadOrder
    Values <- MCValues
    Content0 <- MCContent0
    Execute <- MCExecute
    MaxCommitAttempts = 2
    Instances = {"i1"}
    MaxTokens = 2
    MaxDeploys = 2
    MaxCalls = 2
    NoInstance = "none"
    Clients = {"a", "b"}
    StoredTokens = {1, 2, 3}
    TheInstance = 0
    Absent = Absent
    NotLoaded = NotLoaded
    Drawing <- MCDrawing
    MaxEdits = 2
    MaxDeployments = 2
CHECK_DEADLOCK FALSE
INVARIANTS StoresTypeOK LosesOnlyToOthers  DefinitionsServe
PROPERTIES Serializable CommitsLikeMemory EveryRequestEnds
