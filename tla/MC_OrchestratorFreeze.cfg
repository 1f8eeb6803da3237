SPECIFICATION FairSpec
CONSTANTS
    Req = {r1, r2}
    Conv = {c1}
    None = None
    Shapes <- FewShapes
    Warm = FALSE
    Outside = {}
CHECK_DEADLOCK FALSE
PROPERTIES
    EveryCallReturns
