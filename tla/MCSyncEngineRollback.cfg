SPECIFICATION FairSpec
CONSTANTS
    Walk <- MCWalk
    Protected <- MCProtected
    Contents <- MCContents
    Torn = "torn"
    Dir = "dir"
    LeadsTo <- MCLeadsTo
    Gone = "gone"
    Links <- MCNoLinks
    Render <- MCRender
    Unrenderable = "unrenderable"
    Trees <- MCTreesPlain
    Specs <- MCOneSpec
    FirstLive <- MCEmpty
    GatewayFiles <- MCGatewayFiles
    GatewayContent = "y"
    MaxChanges = 2
    MaxFaults = 1
    MaxCrashes = 0
    MaxWrites = 0
PROPERTIES
    Converges
CHECK_DEADLOCK FALSE
