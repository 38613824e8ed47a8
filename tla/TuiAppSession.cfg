SPECIFICATION Spec
CONSTANTS
    HasTerm = TRUE
    InitPane = "Events"
    InitLayout = "Horizontal"
    RootPid = RootPid
    NoPid = NoPid
    Keys <- MCSessionKeys
    Sizes <- MCRoomySizes
    InitSize <- MCRoomyInitSize
    MaxExec = 2
    TerminateOnExit = FALSE
    KillOnExit = TRUE
INVARIANTS
    RootKnownBeforeItems
    NoEventLost
