SPECIFICATION LiveSpec
CONSTANTS
    Call = {q1, q2, q3}
    Conv = {c1, c2}
    NoConv = noConv
    Session = {s1}
    Threshold = 2
    MaxDays = 1
    MaxShutdowns = 1
CHECK_DEADLOCK FALSE
INVARIANTS
    TypeOK
    ExchangesWhole
    SegmentsOnce
    SessionsExplained
PROPERTIES
    CallsEnd
