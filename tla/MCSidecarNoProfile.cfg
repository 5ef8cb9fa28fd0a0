SPECIFICATION FairSpec
CONSTANTS
    CRs <- MCOneCR
    Pods <- MCOnePod
    Templates <- MCNoProfile
    Profiles <- MCProfiles
    Auths <- MCAuths
    Polling = {TRUE}
    Foreign <- MCNoForeign
    MaxChanges = 3
    MaxFaults = 0
INVARIANTS
    RunsDefaultProfile
CHECK_DEADLOCK FALSE
