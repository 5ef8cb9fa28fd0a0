SPECIFICATION FairSpec
CONSTANTS
    h1 = h1
    h2 = h2
    NoRef = NoRef
    Refs <- MCRefs
    Norm <- MCNorm
    Requests <- MCRequests
    Configured = {"hmac"}
    Handlers = {h1, h2}
    InitialRef = "1"
    MaxWebhooks = 2
    MaxSpecEdits = 1
    MaxFaults = 1
INVARIANTS
    TypeOK
PROPERTIES
    SpecNeverReverted
    ResolvesEffectiveRef
    NoStaleOverride
CHECK_DEADLOCK FALSE
