SPECIFICATION Spec
CONSTANTS
    HasTerm = FALSE
    InitPane = "Events"
    InitLayout = "Horizontal"
    RootPid = RootPid
    NoPid = NoPid
    Keys <- MCQuitKeys
    Sizes <- MCRoomySizes
    InitSize <- MCRoomyInitSize
    MaxExec = 0
    TerminateOnExit = FALSE
    KillOnExit = FALSE
INVARIANTS
    PaneNeedsTerm
