------------------------------ MODULE Gateway ------------------------------
(***************************************************************************)
(* The requests of Sessions and Idempotency on one clock, with the loops   *)
(* that clean up behind them.                                              *)
(***************************************************************************)
EXTENDS Sessions, Idempotency

CONSTANTS InitialUsers, InitialRefreshTokens, InitialResetTokens

\* What an earlier day left in the tables; none of the requests here made it.
ASSUME InitialAssumption ==
    /\ InitialUsers \subseteq User
    /\ \A u, v \in InitialUsers : u.name = v.name => u = v
    /\ InitialRefreshTokens \subseteq RefreshToken
    /\ InitialResetTokens \subseteq PasswordResetToken
    /\ \A t \in InitialRefreshTokens \cup InitialResetTokens : t.by \notin Request

vars == <<now, request, event, sessionVars, idempotencyVars>>

Init ==
    /\ now = 0
    /\ event = {}
    /\ \E w \in Workloads : request = [q \in Request |-> [op |-> "idle", kind |-> w[q]]]
    /\ users = IF \E q \in Request : request[q].kind = "createUser" THEN {} ELSE InitialUsers
    /\ refreshTokens = InitialRefreshTokens
    /\ resetTokens = InitialResetTokens
    /\ windows = [n \in Username |-> NoWindow]
    /\ organizations = {}
    /\ keys = {}

Next ==
    \/ \E q \in Request :
          \/ SessionRequest(q) /\ UNCHANGED idempotencyVars
          \/ Middleware(q) /\ UNCHANGED sessionVars
          \/ Breaks(q) /\ UNCHANGED <<now, event, sessionVars, idempotencyVars>>
    \/ Tick /\ UNCHANGED <<request, event, sessionVars, idempotencyVars>>
    \/ GC /\ UNCHANGED idempotencyVars
    \/ Reap /\ UNCHANGED sessionVars

Spec == Init /\ [][Next]_vars

-----------------------------------------------------------------------------
(* Properties.                                                              *)

\* The rows of each table, and one row for a username and for a key of a
\* caller.
TypeOK ==
    /\ now \in 0..MaxTime /\ DOMAIN request = Request
    /\ users \subseteq User /\ organizations \subseteq Username
    /\ \A u, v \in users : u.name = v.name => u = v
    /\ refreshTokens \subseteq RefreshToken
    /\ resetTokens \subseteq PasswordResetToken
    /\ windows \in [Username -> LimiterWindow \cup {NoWindow}]
    /\ keys \subseteq CachedResponse
    /\ \A x, y \in keys : x \in Rows(y.caller, y.key) => x = y

\* A refresh token or password reset token that has been used cannot be used
\* by a later request (refresh_token.go:43, password_reset.go:73): two
\* requests succeed with one token only if the second began before the first
\* had ended.
TokensAreSpentOnceInSequence ==
    \A e, f \in {x \in event : x.what \in {"refresh", "reset"}} :
        e.what = f.what /\ e.token = f.token /\ e # f => e.by \notin f.after

\* POST /users without a token is open for the very first user only
\* (auth_middleware.go:108, "this window closes itself"): a request without
\* one creates a user only if no other request that did so had ended before.
BootstrapClosesItself ==
    \A e, f \in {x \in event : x.what = "user"} :
        e # f /\ ~f.authenticated => e.by \notin f.after

\* The limiter lets through at most twice its limit in any time as long as a
\* window, which is what its comment grants the boundary between two windows
\* (ratelimit.go:24), whatever the GC loop evicts meanwhile.
LimiterBoundsAttempts ==
    \A n \in Username, t \in 0..MaxTime :
        Cardinality({e \in event : /\ e.what = "attempt" /\ e.user = n
                                   /\ t <= e.at /\ e.at <= t + Interval}) <= 2 * Limit

\* Once a response has been saved, no later request of the same caller with
\* the same key has an effect until the window has passed (store.go:20): the
\* reaper and Get agree on when that is.
SavedKeyHasNoSecondEffect ==
    \A e, f \in {x \in event : x.what = "effect"} :
        e.caller = f.caller /\ e.key = f.key /\ e.by \in f.after =>
            \A s \in event : s.what = "save" /\ s.by = e.by => f.at >= s.at + Window

\* What is replayed is the answer to a request of the same caller with the
\* same key that did have its effect, saved at most a window before.
ReplayIsOwnAndRecent ==
    \A r \in {x \in event : x.what = "replay"} :
        /\ \E e \in event : /\ e.what = "effect" /\ e.by = r.of
                            /\ e.caller = r.caller /\ e.key = r.key
        /\ \E s \in event : /\ s.what = "save" /\ s.by = r.of
                            /\ s.at <= r.at /\ r.at < s.at + Window

=============================================================================
