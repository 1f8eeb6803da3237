SPECIFICATION FairSpec
CONSTANTS
    Req = {r1, r2, r3}
    Conv = {c1}
    None = None
    Shapes <- QueueShapes
    Warm = TRUE
    Outside = {"stop", "cancel"}
CHECK_DEADLOCK FALSE
PROPERTIES
    EveryCallReturns
