SPECIFICATION FairSpec
CONSTANTS
    Run = {r1}
    Workspace = {w1}
    Replica = {n1, n2}
    CancelRequest = {}
    NoRun = NoRun
    WorkspaceOf <- SharedWorkspace
    MayAbort = FALSE
PROPERTIES
    QueuedRunIsRetried
CHECK_DEADLOCK FALSE
