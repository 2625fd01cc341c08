SPECIFICATION Spec
CHECK_DEADLOCK FALSE
CONSTANTS
    Request = {1, 2}
    User <- MCUser
    Name = {"n1", "n2"}
    Key = {"k"}
    Grant <- MCGrant
    RolePermissions <- MCRolePermissions
    KeyScopes <- MCKeyScopes
    MaxId = 30
    InitialState <- MCInitialState
INVARIANTS
    TypeOK
    NothingDanglesWithoutOverlap
    GrantsCascadeUnlessDenied
    ResolutionHonoursWhatStays
PROPERTIES
    NewMemberOnlyReads
    ReaperPurgesOnlyDueArchived
    ImplementsOrganizationLifecycle
    ArchivedIsPurged
