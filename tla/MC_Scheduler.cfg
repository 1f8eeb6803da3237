SPECIFICATION LiveSpec
CONSTANTS
    Loop = {l1, l2}
    Caller = {c1}
    DefaultTypes <- TwoIntervals
    ApiTypes = {"once", "naive", "unknown"}
    MaxTasks = 2
    MaxSecond = 1
    MaxNext = 1
    MaxCalls = 3
    MaxFaults = 1
CHECK_DEADLOCK FALSE
INVARIANTS
    TypeOK
    Durable
PROPERTIES
    DueTaskRuns
    StopQuiets
