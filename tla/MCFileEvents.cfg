SPECIFICATION Spec
CONSTANTS
    Operation <- Operations
    LetterOf <- Letters
    Mounted = {"Volume1"}
    OwnFiles <- Logs
    FileList <- Lines
    Received <- Sent
    BufferSize = 2
    MaxOperations = 3
    MaxVisits = 2
    MaxMessages = 1
INVARIANTS
    TypeOK
    LateIsOne
    OwnFilesAreSilent
    WhatDriverLeaves
PROPERTIES
    ImplementsStream
CHECK_DEADLOCK FALSE
