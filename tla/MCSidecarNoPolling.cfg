SPECIFICATION FairSpec
CONSTANTS
    CRs <- MCOneCR
    Pods <- MCOnePod
    Templates <- MCTemplates
    Profiles <- MCProfiles
    Auths <- MCAuths
    Polling = {FALSE}
    Foreign <- MCOtherRole
    MaxChanges = 3
    MaxFaults = 0
PROPERTIES
    RecreatedInTheEnd
CHECK_DEADLOCK FALSE
