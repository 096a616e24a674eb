SPECIFICATION FairSpec
CONSTANTS
    Nobody = Nobody
    Requests = {r1, r2}
    Rows = {x1, x2}
    Users = {u1, u2}
    x1 = x1
    x2 = x2
    u1 = u1
    u2 = u2
    Owner <- OwnerOf
INVARIANTS
    OnlyOwnRows
    TeardownIsLast
PROPERTIES
    TeardownEnds
CHECK_DEADLOCK FALSE
