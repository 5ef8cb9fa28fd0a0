SPECIFICATION FairSpec
CONSTANTS
    Docs <- DocsChange
    MayReturn = FALSE
    GatewayBoots = FALSE
    FaultKinds = {"metadata", "git", "engine"}
    MaxCommit = 2
    MaxMoves = 1
    MaxEdits = 2
    MaxSessions = 0
    MaxFaults = 2
    MaxCrashes = 1
    MayTerminate = FALSE
INVARIANTS
    UnchangedIsSynced
PROPERTIES
    Converges
CHECK_DEADLOCK FALSE
