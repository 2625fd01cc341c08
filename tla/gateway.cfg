SPECIFICATION Spec
CHECK_DEADLOCK FALSE
CONSTANTS
    Request = {1, 2, 3}
    Workloads <- MCWorkloads
    MaxTime = 4
    Username = {"u1", "u2"}
    Password = {"p1", "p2"}
    RefreshTokenTTL = 2
    PasswordResetTokenTTL = 1
    Limit = 1
    Interval = 1
    Caller = {"c1", "c2"}
    Key = {"k"}
    Window = 2
    InitialUsers <- MCInitialUsers
    InitialRefreshTokens <- MCInitialRefreshTokens
    InitialResetTokens <- MCInitialResetTokens
INVARIANTS
    TypeOK
    TokensAreSpentOnceInSequence
    BootstrapClosesItself
    LimiterBoundsAttempts
    SavedKeyHasNoSecondEffect
    ReplayIsOwnAndRecent
