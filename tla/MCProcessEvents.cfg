SPECIFICATION Spec
CONSTANTS
    Process <- Programs
    PidOf <- Ids
    ParentOf <- Parents
    Running = {"service"}
    Hidden = {}
    Lasting = {"service", "loader", "tool"}
    DeviceOf <- Devices
    DosDevice <- Letters
    ShortPaths = {"tool"}
    Asker = {"file"}
    ProcessList <- Lines
    Received <- Sent
    MaxAsks = 2
    MaxMessages = 1
INVARIANTS
    TypeOK
    EveryEventOnce
    PathOfHolder
    NestEnds
CHECK_DEADLOCK FALSE
