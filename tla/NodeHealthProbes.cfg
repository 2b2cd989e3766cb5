\* Two nodes, two overlapping probers.
SPECIFICATION Spec
CONSTANTS
    Node = {1, 2}
    InitialNode = {1}
    Prober = {p1, p2}
    NoNode = NoNode
    ErrorThresholdConfig = 2
    SuccessThresholdConfig = 2
    HealthDisabled = FALSE
    CounterModulus = 3
    MaxHistory = 4
SYMMETRY ProberSymmetry
INVARIANTS
    StateFollowsReports
    CountersMatchState
PROPERTY
    RigidTransitions
