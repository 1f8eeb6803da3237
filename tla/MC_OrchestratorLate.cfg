SPECIFICATION Spec
CONSTANTS
    Req = {r1}
    Conv = {c1}
    None = None
    Shapes <- FewShapes
    Warm = TRUE
    Outside = {}
CHECK_DEADLOCK FALSE
PROPERTIES
    ReturnedResponseIsFinal
