SPECIFICATION Spec
CONSTANTS
    Req = {r1, r2}
    Conv = {c1, c2}
    None = None
    Shapes <- AllShapes
    Warm = FALSE
    Outside = {"stop", "cleanup", "shutdown", "cancel"}
SYMMETRY Symmetric
CHECK_DEADLOCK FALSE
INVARIANTS
    TypeOK
    MetricsAccount
    ActiveInFlight
    OnePipelinePerConversation
    OutcomeMatches
    NoOrphanTasks
    CompletedWithTicket
PROPERTIES
    VerdictIsFinal
