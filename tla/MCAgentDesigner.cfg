SPECIFICATION FairSpec
CONSTANTS
    Docs <- DocsDesigner
    MayReturn = FALSE
    GatewayBoots = TRUE
    FaultKinds = {"designer", "write"}
    MaxCommit = 1
    MaxMoves = 0
    MaxEdits = 1
    MaxSessions = 1
    MaxFaults = 1
    MaxCrashes = 0
    MayTerminate = TRUE
INVARIANTS
    TypeOK
PROPERTIES
    BlockedFlagClears
    ShutdownCompletes
CHECK_DEADLOCK FALSE
