SPECIFICATION Spec
CONSTANTS
    MaxStreams = 2
    Caller = {c1, c2}
    MaxLen = 2
    Strategies = {"drop_oldest", "block"}
    MaxChunks = 3
    MaxConnects = 2
    MaxStarts = 0
    Inputs = {"connect", "send", "disconnect", "pause", "resume"}
SYMMETRY Symmetric
CHECK_DEADLOCK FALSE
INVARIANTS
    TypeOK
    NumbersUnique
