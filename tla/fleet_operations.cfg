SPECIFICATION FairSpec
CONSTANTS
    o1 = o1  o2 = o2  n1 = n1  a = a  b = b  k = k  s1 = s1  s2 = s2
    d1 = d1  d2 = d2  here = here  sibling = sibling  plain = plain  absent = absent
    NoValue = NoValue
    Request = {1, 2}
    MachineId = {11, 12}
    FileId = {21, 22, 23}
    VariableId = {31, 32}
    OperationId = {o1, o2}
    Network = {net}
    Volume = {vol}
    Project <- MCProject
    Name = {n1}
    Key = {k}
    Value = {a, b}
    Target = {here, sibling, plain}
    Service = {s1, s2}
    Content <- MCContent
    Credential = {c1}
    Setting = {set1}
    MaxDuplicateNameAttempts = 1
    BatchSize = 1
    Directory = {d1, d2}
    DeployDir <- MCDeployDir
    Joined <- MCJoined
    Mentions <- MCMentions
    Replica = {r1, r2}
    Stream = {c}
    Follows <- MCFollows
    MayAbort = TRUE
    InitialState <- MCInitialState
INVARIANTS
    TypeOK
    OperationKeepsItsTargets
    CommandFindsItsFile
    DeployedEnvironmentIsTheCascade
PROPERTIES
    ImplementsOperationLifecycle
    ArchivalIsNotLost
    SyncLeavesOtherTypesAlone
    OperationSettles
    StreamIsClosed
CHECK_DEADLOCK FALSE
