SPECIFICATION FairSpec
CONSTANTS
    Event = {e1, e2, e3}
    RunQueued = {e1}
    Organization = {o1, o2}
    OrganizationOf <- ByType
    Replica = {n1, n2}
    NoEvent = NoEvent
    BatchLimit = 2
    MaxFaults = 1
INVARIANTS
    TypeOK
    RecordedOnce
    PublishedWasHandled
    OnlyCommittedIsHandled
PROPERTIES
    CommittedEventIsDelivered
CHECK_DEADLOCK FALSE
