\* After process::exit, or main returning its Err, the program has ended:
\* those end states are not deadlocks.
SPECIFICATION Spec
CONSTANTS
    r = r
    a = a
    Pids <- MCPids
    Root = r
    ExitCodes = {0, 1}
    MaxEvents = 4
CHECK_DEADLOCK FALSE
INVARIANTS
    ExitReflectsSession
PROPERTY
    LogSessionEnds
