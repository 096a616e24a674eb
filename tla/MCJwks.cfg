SPECIFICATION FairSpec
CONSTANTS
    kidA = kidA
    kidB = kidB
    Logins = {l1, l2}
    Nobody = Nobody
    MaxRotations = 2
    Kids = {kidA, kidB}
    Kid <- MCKid
INVARIANTS
    HerdFetchesOnce
    StaleKeysAreRefreshed
PROPERTIES
    CacheMovesForward
    EveryLoginIsAnswered
CHECK_DEADLOCK FALSE
