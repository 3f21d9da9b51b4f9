SPECIFICATION FairSpec
CONSTANTS
    u1 = u1
    u2 = u2
    u3 = u3
    c1 = c1
    c2 = c2
    NoClient = NoClient
    Url <- Urls3
    AddressOf <- OwnAddress3
    PriorityOf <- FirstHigher3
    Client <- Clients1
    GroupSize = 3
    RevertAfterEachUrl = FALSE
    Setups <- Setups3
    Malicious <- OneMalicious
    MaxQueue = 6
    MaxFailed = 1
INVARIANTS
    TypeOK
PROPERTIES
    OutcomeIsRight
    ImplementsLedger
    EventuallySettled
