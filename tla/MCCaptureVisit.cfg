SPECIFICATION FairSpec
CONSTANTS
    Monitors = {"process", "file"}
    Visits = 3
    Known = {1, 2}
    Codes = {"NETWORK_ERROR", "PROCESS_ERROR"}
    CapturePackets = TRUE
    RevertAfterEach = FALSE
    MaxEvents = 1
    MaxBreaks = 1
    MaxWire = 2
INVARIANTS
    TypeOK
    QueueIsSafe
    VisitLeavesNothing
    ReportsAreRight
PROPERTIES
    VisitIsAnswered
