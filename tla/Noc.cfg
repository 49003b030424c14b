SPECIFICATION NocSpec
CONSTANTS
    NumRouter = 5
    Width = 2
    Routers <- NocRouters
    Ports <- NocPorts
    NumVC = 2
    BufferMax = 2
    InjectionMax = 1
    Packets <- MeetPackets
    Workloads <- MeetWorkloads
    Crowds <- MeetCrowds
    Src <- MeetSrc
    Dst <- MeetDst
    NumFlit <- MeetFlits
    Link <- NocLink
    Opposite <- MeshOpposite
    MayUse <- NocMayUse
    NoChannel = NoChannel
INVARIANTS
    CreditsConserved
    BuffersBounded
    PacketsStayWhole
    WaitsClimb
PROPERTY PacketsArrive
CHECK_DEADLOCK FALSE
