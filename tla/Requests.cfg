\* One operation of up to ten attempts among two nodes; everybody else is environment.
SPECIFICATION Spec
CONSTANTS
    Node = {1, 2}
    InitialNode = {1}
    ErrorThresholdConfig = 1
    SuccessThresholdConfig = 1
    HealthDisabled = FALSE
    CounterModulus = 3
    Requester = {r1}
    MaxAttempts = 10
    NoNode = NoNode
    Override = Override
INVARIANTS
    FirstAttemptFollowsPlan
    RetriesRotate
    OverrideOnlyWhenDrained
    ReportsNameTheNodeAsked
    CompressionIsAnnounced
