SPECIFICATION Spec
CONSTANTS
    HasTerm = TRUE
    InitPane = "Events"
    InitLayout = "Horizontal"
    Keys <- MCGeometryKeys
    Sizes <- MCGeometrySizes
    InitSize <- MCGeometryInitSize
    MaxExec = 0
    TerminateOnExit = FALSE
    KillOnExit = FALSE
    RootPid = RootPid
    NoPid = NoPid
CONSTRAINT
    MCTracerIdle
INVARIANTS
    TypeOK
    SplitBounded
    WindowFresh
