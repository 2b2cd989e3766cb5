\* NextNode and query plans beside refreshes of the node list.
SPECIFICATION Spec
CONSTANTS
    Node = {1, 2}
    InitialNode = {1}
    ErrorThresholdConfig = 1
    SuccessThresholdConfig = 2
    HealthDisabled = FALSE
    CounterModulus = 3
    Hash = {1}
    Draw <- MCDraw
    IntervalConfig = 0
    IndexModulus = 2
    Thread <- TwoThreads
    Offer <- OfferRouteAndUpdate
    NoNode = NoNode
    NoThread = NoThread
    t1 = t1
    t2 = t2
INVARIANTS
    StoreTracksLiveNodes
    SteadyNodesAreRouted
