SPECIFICATION Spec
CONSTANTS
    t1 = t1
    s1 = s1
    Transcriptions = {t1}
    Sessions = {s1}
    Posts = {p1, p2}
    Deletes = {d1, d2}
    Binds <- MCBinds
    SessionOf <- MCSessionOf
    Target <- MCTarget
INVARIANTS
    ImageHasItsBytes
    AnswerMatchesDatabase
    DeletedOnce
    DeletedTogether
PROPERTIES
    SpentSessionIsRefused
CHECK_DEADLOCK FALSE
