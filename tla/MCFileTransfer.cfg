SPECIFICATION Spec
CONSTANTS
    NameOf <- Names
    PartsOf <- Sizes
    PathOf <- Paths
    MaxConnections = 3
    MaxFaults = 2
INVARIANTS
    TypeOK
    ClosedIsWhole
    SentIsStored
CHECK_DEADLOCK FALSE
