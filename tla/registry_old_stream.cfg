SPECIFICATION Spec
CONSTANTS
    Worker = {w1}
    Replica = {i1}
    Run = {r1}
    Connection = {c1, c2}
    None = None
    Capacity = 1
    PromptEnd = FALSE
INVARIANTS
    ConnectedWorkerIsRoutable
CHECK_DEADLOCK FALSE
