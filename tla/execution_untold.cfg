SPECIFICATION Spec
CONSTANTS
    Run = {r1}
    Workspace = {w1}
    Replica = {n1}
    CancelRequest = {c1}
    NoRun = NoRun
    WorkspaceOf <- SharedWorkspace
    MayAbort = FALSE
INVARIANTS
    CanceledJobIsTold
CHECK_DEADLOCK FALSE
