SPECIFICATION FairSpec
CONSTANTS
    Docs <- DocsPause
    MayReturn = FALSE
    GatewayBoots = TRUE
    FaultKinds = {}
    MaxCommit = 2
    MaxMoves = 1
    MaxEdits = 1
    MaxSessions = 0
    MaxFaults = 0
    MaxCrashes = 0
    MayTerminate = FALSE
PROPERTIES
    SyncedCommitIsLive
CHECK_DEADLOCK FALSE
