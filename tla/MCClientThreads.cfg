SPECIFICATION Spec
CONSTANTS
    g1 = g1
    g2 = g2
    NoGroup = NoGroup
    Group <- Groups1
    Timer <- AllTimers
    WritesFail = TRUE
    MaxExpiry = 2
INVARIANTS
    TypeOK
    DisconnectIsThorough
    OnlyRetriever
CHECK_DEADLOCK FALSE
