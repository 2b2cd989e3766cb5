\* One thread walks a chain of two scopes while another one reports.
SPECIFICATION DiscoverySpec
CONSTANTS
    Node = {1, 2}
    InitialNode = {1, 2}
    ErrorThresholdConfig = 1
    SuccessThresholdConfig = 1
    HealthDisabled = FALSE
    CounterModulus = 3
    Hash = {1}
    Draw <- MCDraw
    IntervalConfig = 2
    IndexModulus = 2
    Thread <- MCThread
    Offer <- MCOffer
    Scopes <- MCScopes
    NoNode = NoNode
    NoThread = NoThread
    t1 = t1
    t2 = t2
INVARIANTS
    FallbackIsJustified
    NoListIsLost
PROPERTIES
    ImplementsLiveNodes
    RefreshesEnd
