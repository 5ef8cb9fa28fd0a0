SPECIFICATION FairSpec
CONSTANTS
    CRs <- MCOneCR
    Pods <- MCOnePod
    Templates <- MCTemplates
    Profiles <- MCProfiles
    Auths <- MCTwoAuths
    Polling = {TRUE}
    Foreign <- MCNoForeign
    MaxChanges = 3
    MaxFaults = 0
INVARIANTS
    AgentHasCredential
CHECK_DEADLOCK FALSE
