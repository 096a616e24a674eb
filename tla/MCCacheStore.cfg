SPECIFICATION Spec
CONSTANTS
    u1 = u1
    Keys = {k1, k2}
    Users = {u1}
    User <- MCUser
    MaxCrashes = 2
INVARIANTS
    OpenFileHasItsDirectory
PROPERTIES
    PurgeSparesFresh
    ImplementsResultCache
    ExpiredIsPurged
