SPECIFICATION FairSpec
CONSTANTS
    Walk <- MCWalk
    Protected <- MCProtected
    Contents <- MCContents
    Torn = "torn"
    Dir = "dir"
    LeadsTo <- MCLeadsTo
    Gone = "gone"
    Links <- MCLinks
    Render <- MCRender
    Unrenderable = "unrenderable"
    Trees <- MCTrees
    Specs <- MCSpecs
    FirstLive <- MCLive
    GatewayFiles <- MCGatewayFiles
    GatewayContent = "y"
    MaxChanges = 1
    MaxFaults = 1
    MaxCrashes = 1
    MaxWrites = 1
INVARIANTS
    TypeOK
    SyncedExactly
    DryRunPredicts
PROPERTIES
    OnlyManagedTouched
    DryRunReadOnly
    Converges
CHECK_DEADLOCK FALSE
