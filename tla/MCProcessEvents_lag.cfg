SPECIFICATION FairSpec
CONSTANTS
    Process <- Programs
    PidOf <- Ids
    ParentOf <- Parents
    Running = {"service"}
    Hidden = {}
    Lasting = {"service", "browser", "loader", "tool"}
    DeviceOf <- Devices
    DosDevice <- Letters
    ShortPaths = {"tool"}
    Asker = {"file"}
    ProcessList <- Lines
    Received <- Sent
    MaxAsks = 0
    MaxMessages = 0
PROPERTIES
    QueuedIsNotified
CHECK_DEADLOCK FALSE
