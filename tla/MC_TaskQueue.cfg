SPECIFICATION LiveSpec
CONSTANTS
    Task = {t1}
    NoTask = noTask
    Worker = {w1, w2}
    Kinds <- AllKinds
    MaxRetries = 2
    Threshold = 1
    MaxFaults = 3
CHECK_DEADLOCK FALSE
INVARIANTS
    TypeOK
    AttemptBudget
    VerdictIsEarned
PROPERTIES
    EveryTaskSettles
