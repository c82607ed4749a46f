CONSTANTS
    p = p
    q = q
    Nodes = {p, q}
    Zones <- MCZones
    Policies <- MCPolicies
    Calls <- MCCalls
    CallPolicies <- MCCallPolicies
    MeshStates <- MCMeshStates
    ExternalEvents <- MCEvents
    MaxSegments = 2
    MaxWrites = 1
    MaxEvents = 1
    MaxViews = 1
    None = None
    Stopped = Stopped
SPECIFICATION MeshSpec
INVARIANTS
    PlacementInScope
    EveryTargetTried
    AnnouncedAfterReplication
    ViewsPlaced
PROPERTY
    EventsHandled
CHECK_DEADLOCK FALSE
