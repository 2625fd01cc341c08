------------------------------ MODULE Sessions -----------------------------
(***************************************************************************)
(* Users and their credentials: login behind the rate limiter, refresh     *)
(* tokens and their rotation, password reset, and the creation of users    *)
(* with its bootstrap for the very first one.  An access token is signed,  *)
(* and not stored; who holds one is an authenticated caller.  Users of     *)
(* other authentication sources, who have no password, are left out, and   *)
(* so are requests that are refused at once and change nothing.            *)
(***************************************************************************)
EXTENDS HTTPRequests

CONSTANTS
    Username,
    Password,
    RefreshTokenTTL,
    PasswordResetTokenTTL,
    Limit,           \* logins that a window allows
    Interval         \* length of a window

VARIABLES
    users,           \* rows of users, by username
    refreshTokens,   \* rows of refresh_tokens; by is the request that made it
    resetTokens,     \* rows of password_reset_tokens
    windows,         \* the login limiter's windows, in memory
    organizations    \* the user who was given the default Organization

sessionVars == <<users, refreshTokens, resetTokens, windows, organizations>>

ASSUME SessionsAssumption ==
    {RefreshTokenTTL, PasswordResetTokenTTL, Limit, Interval} \subseteq Nat

User == [name : Username, password : Password]
RefreshToken == [by : Nat, user : Username, parent : Nat, expires : Nat,
                 revoked : BOOLEAN]
PasswordResetToken == [by : Nat, user : Username, expires : Nat, used : BOOLEAN]
LimiterWindow == [count : Nat, resetAt : Nat]
NoWindow == [count |-> 0]

\* Of both kinds of tokens.
Unexpired(t) == now < t.expires
ValidRefreshTokens == {t \in refreshTokens : ~t.revoked /\ Unexpired(t)}
ValidResetTokens == {t \in resetTokens : ~t.used /\ Unexpired(t)}

-----------------------------------------------------------------------------
(* The rate limiter.                                                        *)

\* The window that an attempt counts in, the attempt included.  The code reads
\* the time before it locks the windows; here the two are one step.
CurrentWindow(name) ==
    LET w == windows[name]
    IN  IF w = NoWindow \/ now > w.resetAt
        THEN [count |-> 1, resetAt |-> now + Interval]
        ELSE [w EXCEPT !.count = @ + 1]

Allow(name) == CurrentWindow(name).count <= Limit

\* Mutant: every window is evicted.
EvictAll == [n \in Username |-> NoWindow]

Evict ==
    [n \in Username |->
        IF windows[n] # NoWindow /\ now > windows[n].resetAt THEN NoWindow ELSE windows[n]]

\* A round of the GC loop.
GC ==
    /\ windows' = Evict
    /\ windows' # windows
    /\ UNCHANGED <<now, request, event, users, refreshTokens, resetTokens, organizations>>

-----------------------------------------------------------------------------
(* Login and refresh.                                                       *)

\* Tokens are named after the request that makes them.
Issue(q, u, parent) ==
    refreshTokens' = refreshTokens \cup
        {[by |-> q, user |-> u, parent |-> parent, expires |-> now + RefreshTokenTTL,
          revoked |-> FALSE]}

Authenticates(name, password) == [name |-> name, password |-> password] \in users

\* A rejected attempt counts, too.
CountAttempt(q) ==
    \E n \in Username, p \in Password :
        /\ Begins(q, "login",
                  IF Allow(n) THEN [op |-> "authenticate", name |-> n, password |-> p]
                  ELSE Ended)
        /\ windows' = [windows EXCEPT ![n] = CurrentWindow(n)]
        /\ event' = IF Allow(n) THEN event \cup {[what |-> "attempt", by |-> q, user |-> n,
                                                  at |-> now]}
                    ELSE event
        /\ UNCHANGED <<now, users, refreshTokens, resetTokens, organizations>>

Authenticate(q) ==
    /\ Goes(q, "authenticate",
            IF Authenticates(request[q].name, request[q].password)
            THEN [op |-> "issue", name |-> request[q].name] ELSE Ended)
    /\ UNCHANGED <<now, event, sessionVars>>

IssueFirst(q) ==
    /\ Goes(q, "issue", Ended)
    /\ Issue(q, request[q].name, 0)
    /\ UNCHANGED <<now, event, users, resetTokens, windows, organizations>>

Login(q) == CountAttempt(q) \/ Authenticate(q) \/ IssueFirst(q)

\* Mutant: a token remains.
KeepRefreshToken(i) == UNCHANGED refreshTokens

\* WHERE id = ..., whether or not it is revoked already.
Revoke(i) ==
    refreshTokens' = {IF t.by = i THEN [t EXCEPT !.revoked = TRUE] ELSE t :
                         t \in refreshTokens}

\* Users are never deleted: the look at the token's user finds him.
FindRefreshToken(q) ==
    \E t \in ValidRefreshTokens :
        /\ Begins(q, "refresh", [op |-> "revoke", token |-> t, after |-> Finished])
        /\ UNCHANGED <<now, event, sessionVars>>

RevokeFound(q) ==
    /\ Goes(q, "revoke", [request[q] EXCEPT !.op = "reissue"])
    /\ Revoke(request[q].token.by)
    /\ UNCHANGED <<now, event, users, resetTokens, windows, organizations>>

IssueNext(q) ==
    /\ Goes(q, "reissue", Ended)
    /\ Issue(q, request[q].token.user, request[q].token.by)
    /\ event' = event \cup {[what |-> "refresh", by |-> q, token |-> request[q].token.by,
                             after |-> request[q].after]}
    /\ UNCHANGED <<now, users, resetTokens, windows, organizations>>

Refresh(q) == FindRefreshToken(q) \/ RevokeFound(q) \/ IssueNext(q)

-----------------------------------------------------------------------------
(* Password reset.                                                          *)

InsertResetToken(q, name) ==
    resetTokens' = resetTokens \cup
        {[by |-> q, user |-> name, expires |-> now + PasswordResetTokenTTL, used |-> FALSE]}

FindUser(q) ==
    \E u \in users :
        /\ Begins(q, "requestReset", [op |-> "createReset", name |-> u.name])
        /\ UNCHANGED <<now, event, sessionVars>>

CreateResetToken(q) ==
    /\ Goes(q, "createReset", Ended)
    /\ InsertResetToken(q, request[q].name)
    /\ UNCHANGED <<now, event, users, refreshTokens, windows, organizations>>

RequestReset(q) == FindUser(q) \/ CreateResetToken(q)

UpdatePasswordHash(name, password) ==
    users' = {IF u.name = name THEN [u EXCEPT !.password = password] ELSE u : u \in users}

MarkUsed(i) ==
    resetTokens' = {IF t.by = i THEN [t EXCEPT !.used = TRUE] ELSE t : t \in resetTokens}

FindResetToken(q) ==
    \E t \in ValidResetTokens, p \in Password :
        /\ Begins(q, "confirmReset", [op |-> "setPassword", token |-> t, password |-> p,
                                      after |-> Finished])
        /\ UNCHANGED <<now, event, sessionVars>>

\* Refresh tokens stay.
SetPassword(q) ==
    /\ Goes(q, "setPassword", [request[q] EXCEPT !.op = "markUsed"])
    /\ UpdatePasswordHash(request[q].token.user, request[q].password)
    /\ UNCHANGED <<now, event, refreshTokens, resetTokens, windows, organizations>>

\* The token is marked after the password has changed.
MarkFound(q) ==
    /\ Goes(q, "markUsed", Ended)
    /\ MarkUsed(request[q].token.by)
    /\ event' = event \cup {[what |-> "reset", by |-> q, token |-> request[q].token.by,
                             after |-> request[q].after]}
    /\ UNCHANGED <<now, users, refreshTokens, windows, organizations>>

ConfirmReset(q) == FindResetToken(q) \/ SetPassword(q) \/ MarkFound(q)

-----------------------------------------------------------------------------
(* Users.                                                                   *)

\* Mutant: anybody may create users.
RequireNothing == {TRUE, FALSE}

\* A valid token is always accepted; without one, a request is let through
\* while there is no user.
RequireAuthOrFirstUserBootstrap == IF users = {} THEN {TRUE, FALSE} ELSE {TRUE}

\* A name that is taken is refused, and so is a UNIQUE email: the two are one
\* here.
InsertUser(name, password) ==
    users' = IF \E u \in users : u.name = name THEN users
             ELSE users \cup {[name |-> name, password |-> password]}

AdmitCreateUser(q) ==
    \E n \in Username, p \in Password, authenticated \in RequireAuthOrFirstUserBootstrap :
        /\ Begins(q, "createUser",
                  [op |-> "countUsers", name |-> n, password |-> p, first |-> FALSE,
                   authenticated |-> authenticated, after |-> Finished])
        /\ UNCHANGED <<now, event, sessionVars>>

\* The count, which decided in the middleware, decides again in the service.
CountUsers(q) ==
    /\ Goes(q, "countUsers", [request[q] EXCEPT !.op = "insertUser", !.first = users = {}])
    /\ UNCHANGED <<now, event, sessionVars>>

StoreUser(q) ==
    LET r == request[q]
        taken == \E u \in users : u.name = r.name
    IN  /\ Goes(q, "insertUser",
                IF r.first /\ ~taken THEN [op |-> "bootstrapOrg", name |-> r.name]
                ELSE Ended)
        /\ InsertUser(r.name, r.password)
        /\ event' = IF taken THEN event
                    ELSE event \cup {[what |-> "user", by |-> q, first |-> r.first,
                                      authenticated |-> r.authenticated,
                                      after |-> r.after]}
        /\ UNCHANGED <<now, refreshTokens, resetTokens, windows, organizations>>

\* The default Organization comes after the user, in a transaction of its own.
\* Its slug is a constant, and UNIQUE: of several first users, the others get
\* an error, and stay without an Organization.
BootstrapOrganization(q) ==
    /\ Goes(q, "bootstrapOrg", Ended)
    /\ organizations' = IF organizations = {} THEN {request[q].name} ELSE organizations
    /\ UNCHANGED <<now, event, users, refreshTokens, resetTokens, windows>>

CreateUser(q) ==
    AdmitCreateUser(q) \/ CountUsers(q) \/ StoreUser(q) \/ BootstrapOrganization(q)

SessionRequest(q) ==
    \/ Login(q) \/ Refresh(q) \/ RequestReset(q) \/ ConfirmReset(q) \/ CreateUser(q)

=============================================================================
