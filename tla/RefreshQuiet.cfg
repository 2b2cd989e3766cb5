\* The loop may wait for Stop alone, with no timer.
SPECIFICATION Spec
CONSTANTS
    ActivePeriod = 1
    IdlePeriod = 0
    ProbePeriod = 0
    Requester = {r1}
    Controller <- TwoControllers
    Commands <- StartAndStop
    c1 = c1
    c2 = c2
PROPERTIES
    StopReturns
