SPECIFICATION FairSpec
CONSTANTS
    a1 = a1
    a2 = a2
    l3 = l3
    Accounts = {a1, a2}
    Logins = {l1, l2, l3}
    Regens = {g1, g2}
    Calls = {q1}
    Account <- MCAccount
    Unknown = Unknown
INVARIANTS
    UserHasItsBearer
PROPERTIES
    RevokedBySuccessor
    ImplementsRegister
    NobodyWaitsForEver
CHECK_DEADLOCK FALSE
