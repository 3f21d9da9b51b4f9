SPECIFICATION Spec
CONSTANTS
    u1 = u1
    u2 = u2
    u3 = u3
    c1 = c1
    c2 = c2
    NoClient = NoClient
    Url <- Urls2
    AddressOf <- OwnAddress2
    PriorityOf <- FirstHigher2
    Client <- Clients2
    GroupSize = 2
    RevertAfterEachUrl = FALSE
    Setups <- Setups2
    Malicious <- OneMalicious
    MaxQueue = 4
    MaxFailed = 0
SYMMETRY Symmetry
INVARIANTS
    WorkIsUnique
    ExitLosesOnlyMissed
CHECK_DEADLOCK FALSE
