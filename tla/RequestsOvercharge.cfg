\* Does a Down node have that many failures of its own?
SPECIFICATION Spec
CONSTANTS
    Node = {1, 2}
    InitialNode = {1}
    ErrorThresholdConfig = 2
    SuccessThresholdConfig = 2
    HealthDisabled = FALSE
    CounterModulus = 4
    Requester = {r1}
    MaxAttempts = 3
    NoNode = NoNode
    Override = Override
INVARIANTS
    DownIsDeserved
