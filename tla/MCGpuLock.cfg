SPECIFICATION FairSpec
CONSTANTS
    Requests = {r1, r2, r3}
    NoTask = NoTask
    NoRequest = NoRequest
INVARIANTS
    LockHeldByItsOwner
    NoLostWakeUp
PROPERTIES
    NoBarging
    BusyLeavesNothing
    EveryCallIsAnswered
    ImplementsMutex
