SPECIFICATION Spec
CONSTANTS
    h1 = h1
    h2 = h2
    NoRef = NoRef
    Refs <- MCRefs
    Norm <- MCNorm
    Requests <- MCRequests
    Configured = {"hmac"}
    Handlers = {h1, h2}
    InitialRef = "1"
    MaxWebhooks = 2
    MaxSpecEdits = 2
    MaxFaults = 0
PROPERTIES
    ClearedOnlyWhenCaughtUp
CHECK_DEADLOCK FALSE
