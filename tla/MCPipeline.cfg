SPECIFICATION FairSpec
CONSTANTS
    Requests = {r1, r2, r3}
    NoRequest = NoRequest
    Audios = {a1, a2}
    Audio <- MCAudio
    Workers = 2
    MaxLeaks = 1
    r1 = r1
    r2 = r2
    r3 = r3
    a1 = a1
    a2 = a2
INVARIANTS
    AwaitedThreadIsSafe
    NoAudioLeftBehind
    ComputedOnce
    AnswerMatchesDatabase
PROPERTIES
    EveryRequestIsAnswered
CHECK_DEADLOCK FALSE
