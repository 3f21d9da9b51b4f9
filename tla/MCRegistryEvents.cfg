SPECIFICATION FairSpec
CONSTANTS
    Timeout = 2
    BufferSize = 2
    Part <- Parts
    Request <- Requests
    MaxEvents = 3
    MaxSessions = 2
INVARIANTS
    TypeOK
    ExaminedIsRight
PROPERTIES
    StreamIsRecent
    QueuedLeaves
CHECK_DEADLOCK FALSE
