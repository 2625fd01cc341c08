SPECIFICATION Spec
CONSTANTS
    Run = {r1}
    Workspace = {w1}
    Replica = {n1}
    CancelRequest = {c1}
    NoRun = NoRun
    WorkspaceOf <- SharedWorkspace
    MayAbort = FALSE
PROPERTIES
    TerminalIsFinal
CHECK_DEADLOCK FALSE
