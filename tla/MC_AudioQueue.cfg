SPECIFICATION Spec
CONSTANTS
    Producer = {p1, p2}
    Worker = {w1, w2}
    MaxSize = 2
    MaxRetries = 1
    Priorities = {2, 3, 4}
    MaxChunks = 3
SYMMETRY Symmetric
CHECK_DEADLOCK FALSE
INVARIANTS
    TypeOK
    Conservation
    OnePlace
    RegistryExplained
PROPERTIES
    EvictionOrder
    CleanupExact
    ImplementsChunkLife
