SPECIFICATION Spec
CONSTANTS
    MaxSize = 3
    MaxMeta = 2
    Labels = {a, b, c}
    UNKNOWN = UNKNOWN
    MaxTime = 4
    MaxTurns = 3
    MaxWords = 3
    Hints = {NoHint, 0, 1, 2}
    NoHint = NoHint
INVARIANTS
    GateIsTheSameForBin
    HashIsOfTheSound
    CapKeepsTheFloor
    WordsGoToTheirSpeakers
SYMMETRY LabelSymmetry
CHECK_DEADLOCK FALSE
