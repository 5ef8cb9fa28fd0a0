SPECIFICATION Spec
CONSTANTS
    Docs <- DocsPlain
    MayReturn = FALSE
    GatewayBoots = TRUE
    FaultKinds = {}
    MaxCommit = 1
    MaxMoves = 0
    MaxEdits = 0
    MaxSessions = 0
    MaxFaults = 0
    MaxCrashes = 0
    MayTerminate = TRUE
INVARIANTS
    NoPartialWritesOnShutdown
CHECK_DEADLOCK FALSE
