SPECIFICATION Spec
CONSTANTS
    Run = {r1, r2}
    Workspace = {w1}
    Replica = {n1}
    CancelRequest = {c1}
    NoRun = NoRun
    WorkspaceOf <- SharedWorkspace
    MayAbort = FALSE
SYMMETRY Symmetry
INVARIANTS
    TypeOK
    OneActiveRunPerWorkspace
    LockHasReason
    QueuedHasDelivery
PROPERTIES
    ImplementsLifecycle
CHECK_DEADLOCK FALSE
