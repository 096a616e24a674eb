SPECIFICATION Spec
CONSTANTS
    Requests = {r1, r2, r3}
    NoRequest = NoRequest
    Audios = {a1, a2}
    Audio <- MCAudio
    Workers = 2
    MaxLeaks = 1
    r1 = r1
    r2 = r2
    r3 = r3
    a1 = a1
    a2 = a2
INVARIANT
    OneGpuJob
CHECK_DEADLOCK FALSE
