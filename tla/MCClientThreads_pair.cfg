SPECIFICATION FairSpec
CONSTANTS
    g1 = g1
    g2 = g2
    NoGroup = NoGroup
    Group <- Groups2
    Timer <- NoTimers
    WritesFail = FALSE
    MaxExpiry = 0
INVARIANTS
    NoLockCycle
PROPERTIES
    WaitingIsServed
CHECK_DEADLOCK FALSE
