SPECIFICATION FairSpec
CONSTANTS
    Run = {r1}
    Workspace = {w1}
    Replica = {n1, n2}
    CancelRequest = {c1}
    NoRun = NoRun
    WorkspaceOf <- SharedWorkspace
    MayAbort = TRUE
INVARIANTS
    DispatchedAtMostOnce
PROPERTIES
    DispatchedRunSettles
CHECK_DEADLOCK FALSE
