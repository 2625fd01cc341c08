SPECIFICATION Spec
CONSTANTS
    Worker = {w1}
    Replica = {i1, i2}
    Run = {r1}
    Connection = {c1, c2, c3}
    None = None
    Capacity = 2
    PromptEnd = TRUE
SYMMETRY Symmetry
INVARIANTS
    TypeOK
    ConnectedWorkerIsRoutable
    RunningRunIsRoutable
    RunningRunIsFoundInRedis
PROPERTIES
    NoStartAfterCancel
CHECK_DEADLOCK FALSE
