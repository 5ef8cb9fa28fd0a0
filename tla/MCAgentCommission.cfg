SPECIFICATION FairSpec
CONSTANTS
    Docs <- DocsPlain
    MayReturn = FALSE
    GatewayBoots = TRUE
    FaultKinds = {"scan", "write", "git"}
    MaxCommit = 1
    MaxMoves = 0
    MaxEdits = 0
    MaxSessions = 0
    MaxFaults = 2
    MaxCrashes = 2
    MayTerminate = FALSE
PROPERTIES
    Converges
CHECK_DEADLOCK FALSE
