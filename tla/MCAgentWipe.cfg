SPECIFICATION Spec
CONSTANTS
    Docs <- DocsPlain
    MayReturn = FALSE
    GatewayBoots = TRUE
    FaultKinds = {}
    MaxCommit = 2
    MaxMoves = 1
    MaxEdits = 0
    MaxSessions = 0
    MaxFaults = 0
    MaxCrashes = 0
    MayTerminate = FALSE
INVARIANTS
    NoManagedLoss
CHECK_DEADLOCK FALSE
