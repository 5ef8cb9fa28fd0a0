SPECIFICATION FairSpec
CONSTANTS
    CRs <- MCOneCR
    Pods <- MCPods
    Templates <- MCTemplates
    Profiles <- MCProfiles
    Auths <- MCAuths
    Polling = {TRUE, FALSE}
    Foreign <- MCForeign
    MaxChanges = 4
    MaxFaults = 1
INVARIANTS
    TypeOK
    NothingForgotten
    BoundOnlyWhenNamed
PROPERTIES
    BoundInTheEnd
    NoBindingLeft
CHECK_DEADLOCK FALSE
