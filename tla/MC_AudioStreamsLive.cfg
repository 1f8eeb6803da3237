SPECIFICATION FairSpec
CONSTANTS
    MaxStreams = 2
    Caller = {c1}
    MaxLen = 1
    Strategies = {"drop_oldest"}
    MaxChunks = 0
    MaxConnects = 1
    MaxStarts = 2
    Inputs = {"connect", "heartbeat"}
CHECK_DEADLOCK FALSE
INVARIANTS
    TablesAgree
    StopIsThorough
PROPERTIES
    DisconnectEnds
    SilentIsSwept
