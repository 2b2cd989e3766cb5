\* Requests, failing nodes, Start and Stop around a loop with all timers on.
SPECIFICATION Spec
CONSTANTS
    ActivePeriod = 1
    IdlePeriod = 3
    ProbePeriod = 2
    Requester = {r1}
    Controller <- TwoControllers
    Commands <- StartAndStop
    c1 = c1
    c2 = c2
INVARIANTS
    TypeOK
    StoppedMeansJoined
PROPERTIES
    RefreshesAreSpaced
    RefreshRecurs
    StopReturns
