SPECIFICATION Spec
CONSTANTS
    Run = {r1}
    Workspace = {w1}
    Replica = {n1}
    CancelRequest = {}
    NoRun = NoRun
    WorkspaceOf <- SharedWorkspace
    MayAbort = FALSE
PROPERTIES
    ReapedOnlyWhenStale
CHECK_DEADLOCK FALSE
