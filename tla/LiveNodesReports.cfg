\* Routing beside reports and probes.
SPECIFICATION Spec
CONSTANTS
    Node = {1, 2}
    InitialNode = {1, 2}
    ErrorThresholdConfig = 1
    SuccessThresholdConfig = 2
    HealthDisabled = FALSE
    CounterModulus = 3
    Hash = {1}
    Draw <- MCDraw
    IntervalConfig = 2
    IndexModulus = 2
    Thread <- TwoThreads
    Offer <- OfferRouteAndReport
    NoNode = NoNode
    NoThread = NoThread
    t1 = t1
    t2 = t2
INVARIANTS
    RoutedNodesWereUsable
    SteadyNodesAreRouted
    EmptyOnlyWhenDrained
