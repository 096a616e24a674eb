SPECIFICATION FairSpec
CONSTANTS
    Sessions = {s1}
    Uploads = {u1, u2}
    Starts = {t1, t2}
    NoUpload = NoUpload
    NoRequest = NoRequest
    MaxCrashes = 1
INVARIANTS
    ConsumedHasTranscription
    AnswerMatchesDatabase
    WholeUpload
    ExpiredLeavesNoBytes
PROPERTIES
    SweptEventually
CHECK_DEADLOCK FALSE
