SPECIFICATION FairSpec
CONSTANTS
    Walk <- MCWalk
    Protected <- MCProtected
    Contents <- MCContents
    Torn = "torn"
    Dir = "dir"
    LeadsTo <- MCLeadsTo
    Gone = "gone"
    Links <- MCNoLinks
    Render <- MCRender
    Unrenderable = "unrenderable"
    Trees <- MCTreesPlain
    Specs <- MCSlash
    FirstLive <- MCEmpty
    GatewayFiles <- MCGatewayFiles
    GatewayContent = "y"
    MaxChanges = 1
    MaxFaults = 0
    MaxCrashes = 0
    MaxWrites = 0
INVARIANTS
    SyncedExactly
CHECK_DEADLOCK FALSE
