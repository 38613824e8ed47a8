SPECIFICATION Spec
CONSTANTS
    HasTerm = TRUE
    InitPane = "Events"
    InitLayout = "Horizontal"
    RootPid = RootPid
    NoPid = NoPid
    Keys <- MCQuitKeys
    Sizes <- MCRoomySizes
    InitSize <- MCRoomyInitSize
    MaxExec = 0
    TerminateOnExit = FALSE
    KillOnExit = TRUE
INVARIANTS
    SignalsOnlyRoot
