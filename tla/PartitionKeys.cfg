\* Two writers and an application that sets names, two discovery threads.
SPECIFICATION Spec
CONSTANTS
    t1 = t1
    t2 = t2
    Table = {t1, t2}
    Name = {id}
    NoName = NoName
    Configured <- MCConfigured
    Attempts = 2
    Writes <- MCWrites
    Requester = {r1, r2}
    Worker = {w1, w2}
INVARIANTS
    OneDiscoveryPerTable
    NoThreadOutlivesHelper
    MissesAreServed
    KnownKeysAreUsed
PROPERTIES
    DestructorReturns
CHECK_DEADLOCK FALSE
