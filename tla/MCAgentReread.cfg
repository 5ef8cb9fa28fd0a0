SPECIFICATION FairSpec
CONSTANTS
    Docs <- DocsPause
    MayReturn = TRUE
    GatewayBoots = FALSE
    FaultKinds = {}
    MaxCommit = 2
    MaxMoves = 1
    MaxEdits = 2
    MaxSessions = 0
    MaxFaults = 0
    MaxCrashes = 0
    MayTerminate = FALSE
PROPERTIES
    Converges
CHECK_DEADLOCK FALSE
