\* A notification between the reading of next_update_ and the wait is lost.
SPECIFICATION Spec
CONSTANTS
    ActivePeriod = 1
    IdlePeriod = 3
    ProbePeriod = 0
    Requester = {r1}
    Controller <- TwoControllers
    Commands <- StartOnly
    c1 = c1
    c2 = c2
INVARIANTS
    SleepEndsByNextUpdate
