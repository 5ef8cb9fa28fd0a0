SPECIFICATION Spec
CONSTANTS
    Docs <- DocsFail
    MayReturn = FALSE
    GatewayBoots = TRUE
    FaultKinds = {}
    MaxCommit = 1
    MaxMoves = 0
    MaxEdits = 0
    MaxSessions = 1
    MaxFaults = 0
    MaxCrashes = 0
    MayTerminate = FALSE
PROPERTIES
    DesignerFailAborts
CHECK_DEADLOCK FALSE
