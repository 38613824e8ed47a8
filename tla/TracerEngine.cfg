\* Once start_root_process has returned the tracer thread is finished:
\* its end state is not a deadlock of the program.
SPECIFICATION Spec
CONSTANTS
    r = r
    a = a
    b = b
    Pids <- MCPids
    Root = r
    ExitCodes = {0, 1}
    MaxEvents = 5
CHECK_DEADLOCK FALSE
INVARIANTS
    TypeOK
    ExecDataOnlyInSyscall
PROPERTY
    ImplementsEventStream
