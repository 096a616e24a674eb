SPECIFICATION Spec
CONSTANTS
    Sessions = {s1}
    Uploads = {u1, u2}
    Starts = {t1, t2}
    NoUpload = NoUpload
    NoRequest = NoRequest
    MaxCrashes = 0
PROPERTY
    RetryKeepsBytes
CHECK_DEADLOCK FALSE
