--------------------------- MODULE GatewayProofs ---------------------------
(***************************************************************************)
(* Proofs about Gateway, for any number of requests, users and keys, any   *)
(* times to live and any limit, and whatever an earlier day has left.      *)
(***************************************************************************)
EXTENDS Gateway, FiniteSetTheorems, TLAPS

-----------------------------------------------------------------------------
(* The requests that are under way.                                         *)

Op(q) == request[q].op

LoginRequest == [op : {"authenticate"}, name : Username, password : Password]
NamedRequest == [op : {"issue", "createReset", "bootstrapOrg"}, name : Username]
RefreshRequest == [op : {"revoke", "reissue"}, token : RefreshToken, after : SUBSET Request]
ResetRequest == [op : {"setPassword", "markUsed"}, token : PasswordResetToken,
                 password : Password, after : SUBSET Request]
UserRequest == [op : {"countUsers", "insertUser"}, name : Username, password : Password,
                first : BOOLEAN, authenticated : BOOLEAN, after : SUBSET Request]
TriggerRequest == [op : {"next", "save"}, caller : Caller, key : Key, at : Nat,
                   after : SUBSET Request]

\* What a request goes on with is what its next step needs.
RequestOK(r) ==
    /\ r.op = "ended" => r = Ended
    /\ r.op = "authenticate" => r \in LoginRequest
    /\ r.op \in {"issue", "createReset", "bootstrapOrg"} => r \in NamedRequest
    /\ r.op \in {"revoke", "reissue"} => r \in RefreshRequest
    /\ r.op \in {"setPassword", "markUsed"} => r \in ResetRequest
    /\ r.op \in {"countUsers", "insertUser"} => r \in UserRequest
    /\ r.op \in {"next", "save"} => r \in TriggerRequest

RequestsOK == DOMAIN request = Request /\ \A q \in Request : RequestOK(request[q])

UsersOK ==
    /\ users \subseteq User /\ organizations \subseteq Username
    /\ \A u, v \in users : u.name = v.name => u = v

TokensOK == refreshTokens \subseteq RefreshToken /\ resetTokens \subseteq PasswordResetToken

WindowsOK == windows \in [Username -> LimiterWindow \cup {NoWindow}]

KeysOK ==
    /\ keys \subseteq CachedResponse
    /\ \A x, y \in keys : x \in Rows(y.caller, y.key) => x = y

TypeInv ==
    now \in 0..MaxTime /\ RequestsOK /\ UsersOK /\ TokensOK /\ WindowsOK /\ KeysOK

\* The inductive invariant contains TypeOK.
LEMMA TypeInvTypes == TypeInv => TypeOK
BY DEF TypeInv, TypeOK, RequestsOK, UsersOK, TokensOK, WindowsOK, KeysOK

-----------------------------------------------------------------------------
(* What a step of a request may touch.                                      *)

\* A step of request q leaves the other ones where they are; q was not over.
Moves(q, r) ==
    /\ DOMAIN request' = Request
    /\ Op(q) # "ended"
    /\ request'[q] = r
    /\ \A p \in Request : p # q => request'[p] = request[p]

\* A request that begins moves from idle.
LEMMA BeginsMoves ==
    ASSUME RequestsOK, NEW q \in Request, NEW kind, NEW r, Begins(q, kind, r)
    PROVE  Moves(q, r) /\ Op(q) = "idle"
BY DEF RequestsOK, Begins, Moves, Op

\* A request that goes on moves from the stage it was in.
LEMMA GoesMoves ==
    ASSUME RequestsOK, NEW q \in Request, NEW op, op # "ended", NEW r, Goes(q, op, r)
    PROVE  Moves(q, r) /\ Op(q) = op
BY DEF RequestsOK, Goes, Moves, Op

\* A request that moves to where it knows what it needs.
LEMMA MoveKeepsRequestsOK ==
    ASSUME RequestsOK, NEW q \in Request, NEW r, Moves(q, r), RequestOK(r)
    PROVE  RequestsOK'
BY DEF RequestsOK, Moves, RequestOK

\* A request that is over needs nothing.
LEMMA EndedIsOK == RequestOK(Ended)
BY DEF RequestOK, Ended

\* A step of login.
LEMMA LoginMoves ==
    ASSUME TypeInv, NEW q \in Request, Login(q)
    PROVE  /\ RequestsOK' /\ Moves(q, request'[q])
           /\ request'[q].op \in {"authenticate", "issue", "ended"}
           /\ UNCHANGED <<now, users, resetTokens, organizations>>
<1>a. RequestsOK
  BY DEF TypeInv
<1>1. CASE CountAttempt(q)
  <2>1. PICK n \in Username, p \in Password :
          Begins(q, "login", IF Allow(n) THEN [op |-> "authenticate", name |-> n,
                                               password |-> p] ELSE Ended)
    BY <1>1 DEF CountAttempt
  <2> DEFINE r == IF Allow(n) THEN [op |-> "authenticate", name |-> n, password |-> p]
                  ELSE Ended
  <2>2. RequestOK(r) /\ r.op \in {"authenticate", "issue", "ended"}
    BY EndedIsOK DEF RequestOK, LoginRequest, Ended
  <2> HIDE DEF r
  <2>3. Moves(q, r)
    BY <1>a, <2>1, BeginsMoves DEF r
  <2>4. request'[q] = r
    BY <2>3 DEF Moves
  <2> QED
    BY <1>a, <1>1, <2>2, <2>3, <2>4, MoveKeepsRequestsOK DEF CountAttempt
<1>2. CASE Authenticate(q)
  <2> DEFINE r == IF Authenticates(request[q].name, request[q].password)
                  THEN [op |-> "issue", name |-> request[q].name] ELSE Ended
  <2>1. Goes(q, "authenticate", r)
    BY <1>2 DEF Authenticate
  <2>2. request[q].name \in Username
    BY <1>a, <2>1 DEF Goes, RequestsOK, RequestOK, LoginRequest
  <2>3. RequestOK(r) /\ r.op \in {"authenticate", "issue", "ended"}
    BY <2>2, EndedIsOK DEF RequestOK, NamedRequest, Ended
  <2> HIDE DEF r
  <2>4. Moves(q, r)
    BY <1>a, <2>1, GoesMoves
  <2>5. request'[q] = r
    BY <2>4 DEF Moves
  <2> QED
    BY <1>a, <1>2, <2>3, <2>4, <2>5, MoveKeepsRequestsOK DEF Authenticate, sessionVars
<1>3. CASE IssueFirst(q)
  <2>1. Moves(q, Ended)
    BY <1>a, <1>3, GoesMoves DEF IssueFirst
  <2>2. request'[q] = Ended
    BY <2>1 DEF Moves
  <2> QED
    BY <1>a, <1>3, <2>1, <2>2, MoveKeepsRequestsOK, EndedIsOK DEF IssueFirst, Ended
<1> QED
  BY <1>1, <1>2, <1>3 DEF Login

\* A step of the rotation of a refresh token.
LEMMA RefreshMoves ==
    ASSUME TypeInv, NEW q \in Request, Refresh(q)
    PROVE  /\ RequestsOK' /\ Moves(q, request'[q])
           /\ request'[q].op \in {"revoke", "reissue", "ended"}
           /\ UNCHANGED <<now, users, resetTokens, windows, organizations>>
<1>a. RequestsOK /\ TokensOK
  BY DEF TypeInv
<1>1. CASE FindRefreshToken(q)
  <2>1. PICK t \in ValidRefreshTokens :
          Begins(q, "refresh", [op |-> "revoke", token |-> t, after |-> Finished])
    BY <1>1 DEF FindRefreshToken
  <2> DEFINE r == [op |-> "revoke", token |-> t, after |-> Finished]
  <2>2. t \in RefreshToken /\ Finished \in SUBSET Request
    BY <1>a DEF ValidRefreshTokens, TokensOK, Finished
  <2>3. RequestOK(r) /\ r.op = "revoke"
    BY <2>2 DEF RequestOK, RefreshRequest
  <2> HIDE DEF r
  <2>4. Moves(q, r)
    BY <1>a, <2>1, BeginsMoves DEF r
  <2>5. request'[q] = r
    BY <2>4 DEF Moves
  <2> QED
    BY <1>a, <1>1, <2>3, <2>4, <2>5, MoveKeepsRequestsOK DEF FindRefreshToken, sessionVars
<1>2. CASE RevokeFound(q)
  <2> DEFINE r == [request[q] EXCEPT !.op = "reissue"]
  <2>1. request[q] \in RefreshRequest
    BY <1>a, <1>2 DEF RevokeFound, Goes, RequestsOK, RequestOK
  <2>2. RequestOK(r) /\ r.op = "reissue"
    BY <2>1 DEF RequestOK, RefreshRequest
  <2> HIDE DEF r
  <2>3. Moves(q, r)
    BY <1>a, <1>2, GoesMoves DEF RevokeFound, r
  <2>4. request'[q] = r
    BY <2>3 DEF Moves
  <2> QED
    BY <1>a, <1>2, <2>2, <2>3, <2>4, MoveKeepsRequestsOK DEF RevokeFound
<1>3. CASE IssueNext(q)
  <2>1. Moves(q, Ended)
    BY <1>a, <1>3, GoesMoves DEF IssueNext
  <2>2. request'[q] = Ended
    BY <2>1 DEF Moves
  <2> QED
    BY <1>a, <1>3, <2>1, <2>2, MoveKeepsRequestsOK, EndedIsOK DEF IssueNext, Ended
<1> QED
  BY <1>1, <1>2, <1>3 DEF Refresh

\* A step of a request for a password reset.
LEMMA RequestResetMoves ==
    ASSUME TypeInv, NEW q \in Request, RequestReset(q)
    PROVE  /\ RequestsOK' /\ Moves(q, request'[q])
           /\ request'[q].op \in {"createReset", "ended"}
           /\ UNCHANGED <<now, event, users, refreshTokens, windows, organizations>>
<1>a. RequestsOK /\ UsersOK
  BY DEF TypeInv
<1>1. CASE FindUser(q)
  <2>1. PICK u \in users : Begins(q, "requestReset", [op |-> "createReset", name |-> u.name])
    BY <1>1 DEF FindUser
  <2> DEFINE r == [op |-> "createReset", name |-> u.name]
  <2>2. RequestOK(r) /\ r.op = "createReset"
    BY <1>a DEF RequestOK, NamedRequest, UsersOK, User
  <2> HIDE DEF r
  <2>3. Moves(q, r)
    BY <1>a, <2>1, BeginsMoves DEF r
  <2>4. request'[q] = r
    BY <2>3 DEF Moves
  <2> QED
    BY <1>a, <1>1, <2>2, <2>3, <2>4, MoveKeepsRequestsOK DEF FindUser, sessionVars
<1>2. CASE CreateResetToken(q)
  <2>1. Moves(q, Ended)
    BY <1>a, <1>2, GoesMoves DEF CreateResetToken
  <2>2. request'[q] = Ended
    BY <2>1 DEF Moves
  <2> QED
    BY <1>a, <1>2, <2>1, <2>2, MoveKeepsRequestsOK, EndedIsOK DEF CreateResetToken, Ended
<1> QED
  BY <1>1, <1>2 DEF RequestReset

\* A step of a password reset.
LEMMA ConfirmResetMoves ==
    ASSUME TypeInv, NEW q \in Request, ConfirmReset(q)
    PROVE  /\ RequestsOK' /\ Moves(q, request'[q])
           /\ request'[q].op \in {"setPassword", "markUsed", "ended"}
           /\ UNCHANGED <<now, refreshTokens, windows, organizations>>
<1>a. RequestsOK /\ TokensOK
  BY DEF TypeInv
<1>1. CASE FindResetToken(q)
  <2>1. PICK t \in ValidResetTokens, p \in Password :
          Begins(q, "confirmReset", [op |-> "setPassword", token |-> t, password |-> p,
                                     after |-> Finished])
    BY <1>1 DEF FindResetToken
  <2> DEFINE r == [op |-> "setPassword", token |-> t, password |-> p, after |-> Finished]
  <2>2. t \in PasswordResetToken /\ Finished \in SUBSET Request
    BY <1>a DEF ValidResetTokens, TokensOK, Finished
  <2>3. RequestOK(r) /\ r.op = "setPassword"
    BY <2>2 DEF RequestOK, ResetRequest
  <2> HIDE DEF r
  <2>4. Moves(q, r)
    BY <1>a, <2>1, BeginsMoves DEF r
  <2>5. request'[q] = r
    BY <2>4 DEF Moves
  <2> QED
    BY <1>a, <1>1, <2>3, <2>4, <2>5, MoveKeepsRequestsOK DEF FindResetToken, sessionVars
<1>2. CASE SetPassword(q)
  <2> DEFINE r == [request[q] EXCEPT !.op = "markUsed"]
  <2>1. request[q] \in ResetRequest
    BY <1>a, <1>2 DEF SetPassword, Goes, RequestsOK, RequestOK
  <2>2. RequestOK(r) /\ r.op = "markUsed"
    BY <2>1 DEF RequestOK, ResetRequest
  <2> HIDE DEF r
  <2>3. Moves(q, r)
    BY <1>a, <1>2, GoesMoves DEF SetPassword, r
  <2>4. request'[q] = r
    BY <2>3 DEF Moves
  <2> QED
    BY <1>a, <1>2, <2>2, <2>3, <2>4, MoveKeepsRequestsOK DEF SetPassword
<1>3. CASE MarkFound(q)
  <2>1. Moves(q, Ended)
    BY <1>a, <1>3, GoesMoves DEF MarkFound
  <2>2. request'[q] = Ended
    BY <2>1 DEF Moves
  <2> QED
    BY <1>a, <1>3, <2>1, <2>2, MoveKeepsRequestsOK, EndedIsOK DEF MarkFound, Ended
<1> QED
  BY <1>1, <1>2, <1>3 DEF ConfirmReset

\* A step of the creation of a user.
LEMMA CreateUserMoves ==
    ASSUME TypeInv, NEW q \in Request, CreateUser(q)
    PROVE  /\ RequestsOK' /\ Moves(q, request'[q])
           /\ request'[q].op \in {"countUsers", "insertUser", "bootstrapOrg", "ended"}
           /\ UNCHANGED <<now, refreshTokens, resetTokens, windows>>
<1>a. RequestsOK /\ UsersOK
  BY DEF TypeInv
<1>1. CASE AdmitCreateUser(q)
  <2>1. PICK n \in Username, p \in Password, authenticated \in RequireAuthOrFirstUserBootstrap :
          Begins(q, "createUser",
                 [op |-> "countUsers", name |-> n, password |-> p, first |-> FALSE,
                  authenticated |-> authenticated, after |-> Finished])
    BY <1>1 DEF AdmitCreateUser
  <2> DEFINE r == [op |-> "countUsers", name |-> n, password |-> p, first |-> FALSE,
                   authenticated |-> authenticated, after |-> Finished]
  <2>2. Finished \in SUBSET Request /\ authenticated \in BOOLEAN
    BY DEF Finished, RequireAuthOrFirstUserBootstrap
  <2>3. RequestOK(r) /\ r.op = "countUsers"
    BY <2>2 DEF RequestOK, UserRequest
  <2> HIDE DEF r
  <2>4. Moves(q, r)
    BY <1>a, <2>1, BeginsMoves DEF r
  <2>5. request'[q] = r
    BY <2>4 DEF Moves
  <2> QED
    BY <1>a, <1>1, <2>3, <2>4, <2>5, MoveKeepsRequestsOK DEF AdmitCreateUser, sessionVars
<1>2. CASE CountUsers(q)
  <2> DEFINE r == [request[q] EXCEPT !.op = "insertUser", !.first = users = {}]
  <2>1. request[q] \in UserRequest
    BY <1>a, <1>2 DEF CountUsers, Goes, RequestsOK, RequestOK
  <2>2. r \in UserRequest /\ r.op = "insertUser"
    BY <2>1 DEF UserRequest
  <2>3. RequestOK(r)
    BY <2>2 DEF RequestOK
  <2> HIDE DEF r
  <2>4. Moves(q, r)
    BY <1>a, <1>2, GoesMoves DEF CountUsers, r
  <2>5. request'[q] = r
    BY <2>4 DEF Moves
  <2> QED
    BY <1>a, <1>2, <2>2, <2>3, <2>4, <2>5, MoveKeepsRequestsOK DEF CountUsers, sessionVars
<1>3. CASE StoreUser(q)
  <2> DEFINE r == request'[q]
  <2>1. request[q] \in UserRequest
    BY <1>a, <1>3 DEF StoreUser, Goes, RequestsOK, RequestOK
  <2>2. PICK x : /\ x = Ended \/ x = [op |-> "bootstrapOrg", name |-> request[q].name]
                 /\ Goes(q, "insertUser", x)
    BY <1>3 DEF StoreUser
  <2>3. RequestOK(x) /\ x.op \in {"bootstrapOrg", "ended"}
    BY <2>1, <2>2, EndedIsOK DEF RequestOK, UserRequest, NamedRequest, Ended
  <2>4. Moves(q, x)
    BY <1>a, <2>2, GoesMoves
  <2>5. request'[q] = x
    BY <2>4 DEF Moves
  <2> QED
    BY <1>a, <1>3, <2>3, <2>4, <2>5, MoveKeepsRequestsOK DEF StoreUser
<1>4. CASE BootstrapOrganization(q)
  <2>1. Moves(q, Ended)
    BY <1>a, <1>4, GoesMoves DEF BootstrapOrganization
  <2>2. request'[q] = Ended
    BY <2>1 DEF Moves
  <2> QED
    BY <1>a, <1>4, <2>1, <2>2, MoveKeepsRequestsOK, EndedIsOK DEF BootstrapOrganization, Ended
<1> QED
  BY <1>1, <1>2, <1>3, <1>4 DEF CreateUser

\* A step of the middleware of idempotency keys.
LEMMA MiddlewareMoves ==
    ASSUME TypeInv, NEW q \in Request, Middleware(q)
    PROVE  /\ RequestsOK' /\ Moves(q, request'[q])
           /\ request'[q].op \in {"next", "save", "ended"}
           /\ UNCHANGED now
<1>a. RequestsOK /\ now \in Nat
  BY RequestAssumption DEF TypeInv
<1>1. CASE LookUpKey(q)
  <2>1. PICK c \in Caller, k \in Key :
          Begins(q, "trigger", IF Get(c, k) # {} THEN Ended
                               ELSE [op |-> "next", caller |-> c, key |-> k, at |-> now,
                                     after |-> Finished])
    BY <1>1 DEF LookUpKey
  <2> DEFINE r == IF Get(c, k) # {} THEN Ended
                  ELSE [op |-> "next", caller |-> c, key |-> k, at |-> now,
                        after |-> Finished]
  <2>2. Finished \in SUBSET Request
    BY DEF Finished
  <2>3. RequestOK(r) /\ r.op \in {"next", "ended"}
    BY <1>a, <2>2, EndedIsOK DEF RequestOK, TriggerRequest, Ended
  <2> HIDE DEF r
  <2>4. Moves(q, r)
    BY <1>a, <2>1, BeginsMoves DEF r
  <2>5. request'[q] = r
    BY <2>4 DEF Moves
  <2> QED
    BY <1>a, <1>1, <2>3, <2>4, <2>5, MoveKeepsRequestsOK DEF LookUpKey
<1>2. CASE CallNext(q)
  <2> DEFINE r == [request[q] EXCEPT !.op = "save"]
  <2>1. request[q] \in TriggerRequest
    BY <1>a, <1>2 DEF CallNext, Goes, RequestsOK, RequestOK
  <2>2. RequestOK(r) /\ r.op = "save"
    BY <2>1 DEF RequestOK, TriggerRequest
  <2> HIDE DEF r
  <2>3. Moves(q, r)
    BY <1>a, <1>2, GoesMoves DEF CallNext, r
  <2>4. request'[q] = r
    BY <2>3 DEF Moves
  <2> QED
    BY <1>a, <1>2, <2>2, <2>3, <2>4, MoveKeepsRequestsOK DEF CallNext
<1>3. CASE SaveResponse(q)
  <2>1. Moves(q, Ended)
    BY <1>a, <1>3, GoesMoves DEF SaveResponse
  <2>2. request'[q] = Ended
    BY <2>1 DEF Moves
  <2> QED
    BY <1>a, <1>3, <2>1, <2>2, MoveKeepsRequestsOK, EndedIsOK DEF SaveResponse, Ended
<1> QED
  BY <1>1, <1>2, <1>3 DEF Middleware

\* A request that breaks off.
LEMMA BreaksMoves ==
    ASSUME TypeInv, NEW q \in Request, Breaks(q)
    PROVE  RequestsOK' /\ Moves(q, request'[q]) /\ request'[q] = Ended
<1>1. Moves(q, Ended) /\ request'[q] = Ended
  BY DEF Breaks, TypeInv, RequestsOK, Moves, Op
<1> QED
  BY <1>1, MoveKeepsRequestsOK, EndedIsOK DEF TypeInv

-----------------------------------------------------------------------------
(* Type correctness.                                                        *)

\* The initial states are type correct.
LEMMA TypeInit == Init => TypeInv
<1> SUFFICES ASSUME Init PROVE TypeInv
  OBVIOUS
<1> USE RequestAssumption, SessionsAssumption, IdempotencyAssumption, InitialAssumption
<1>1. now \in 0..MaxTime
  BY DEF Init
<1>2. RequestsOK
  BY DEF Init, RequestsOK, RequestOK
<1>3. UsersOK
  <2>1. users = {} \/ users = InitialUsers
    BY DEF Init
  <2> QED
    BY <2>1 DEF Init, UsersOK
<1>4. TokensOK /\ WindowsOK /\ KeysOK
  BY DEF Init, TokensOK, WindowsOK, KeysOK
<1> QED
  BY <1>1, <1>2, <1>3, <1>4 DEF TypeInv

\* A new token is one.
LEMMA IssueKeepsTypes ==
    ASSUME now \in 0..MaxTime, TokensOK, NEW q \in Request, NEW u \in Username,
           NEW parent \in Nat, Issue(q, u, parent), UNCHANGED resetTokens
    PROVE  TokensOK'
<1>1. q \in Nat /\ now + RefreshTokenTTL \in Nat
  BY RequestAssumption, SessionsAssumption
<1>2. [by |-> q, user |-> u, parent |-> parent, expires |-> now + RefreshTokenTTL,
       revoked |-> FALSE] \in RefreshToken
  BY <1>1 DEF RefreshToken
<1> QED
  BY <1>2 DEF Issue, TokensOK

\* A refresh token that is revoked is still one.
LEMMA RevokeKeepsTypes ==
    ASSUME TokensOK, NEW i, Revoke(i), UNCHANGED resetTokens
    PROVE  TokensOK'
BY DEF TokensOK, Revoke, RefreshToken

\* A password reset token that is marked is still one.
LEMMA MarkUsedKeepsTypes ==
    ASSUME TokensOK, NEW i, MarkUsed(i), UNCHANGED refreshTokens
    PROVE  TokensOK'
BY DEF TokensOK, MarkUsed, PasswordResetToken

\* A change of password keeps usernames unique.
LEMMA UsersKeepTheirNames ==
    ASSUME UsersOK, NEW n, NEW p \in Password, UpdatePasswordHash(n, p), UNCHANGED organizations
    PROVE  UsersOK'
<1> DEFINE f(u) == IF u.name = n THEN [u EXCEPT !.password = p] ELSE u
<1>1. \A u \in users : f(u) \in User /\ f(u).name = u.name
  BY DEF UsersOK, User
<1>2. users' = {f(u) : u \in users}
  BY DEF UpdatePasswordHash
<1> HIDE DEF f
<1> QED
  BY <1>1, <1>2 DEF UsersOK

\* An insert keeps usernames unique.
LEMMA InsertUserKeepsTypes ==
    ASSUME UsersOK, NEW n \in Username, NEW p \in Password, InsertUser(n, p),
           UNCHANGED organizations
    PROVE  UsersOK'
<1>1. CASE \E u \in users : u.name = n
  BY <1>1 DEF InsertUser, UsersOK
<1>2. CASE ~\E u \in users : u.name = n
  <2> DEFINE x == [name |-> n, password |-> p]
  <2>1. users' = users \cup {x} /\ x \in User /\ x.name = n
    BY <1>2 DEF InsertUser, User
  <2> HIDE DEF x
  <2> QED
    BY <1>2, <2>1 DEF UsersOK
<1> QED
  BY <1>1, <1>2

\* The window that an attempt counts in is one.
LEMMA WindowsKeepTypes ==
    ASSUME now \in 0..MaxTime, WindowsOK, NEW n \in Username
    PROVE  CurrentWindow(n) \in LimiterWindow
<1>1. windows[n] \in LimiterWindow \cup {NoWindow} /\ now \in Nat /\ Interval \in Nat
  BY RequestAssumption, SessionsAssumption DEF WindowsOK
<1>2. CASE windows[n] = NoWindow \/ now > windows[n].resetAt
  BY <1>1, <1>2 DEF CurrentWindow, LimiterWindow
<1>3. CASE ~(windows[n] = NoWindow \/ now > windows[n].resetAt)
  BY <1>1, <1>3 DEF CurrentWindow, LimiterWindow
<1> QED
  BY <1>2, <1>3

\* Every step is type correct.
LEMMA TypeStep == TypeInv /\ [Next]_vars => TypeInv'
<1> SUFFICES ASSUME TypeInv, [Next]_vars PROVE TypeInv'
  OBVIOUS
<1> USE RequestAssumption
<1>a. now \in 0..MaxTime /\ RequestsOK /\ UsersOK /\ TokensOK /\ WindowsOK /\ KeysOK
  BY DEF TypeInv
<1>u. /\ UNCHANGED <<users, organizations>> => UsersOK'
      /\ UNCHANGED <<refreshTokens, resetTokens>> => TokensOK'
      /\ UNCHANGED windows => WindowsOK'
      /\ UNCHANGED keys => KeysOK'
      /\ UNCHANGED request => RequestsOK'
  BY <1>a DEF UsersOK, TokensOK, WindowsOK, KeysOK, RequestsOK, Rows
<1>1. ASSUME NEW q \in Request, Login(q), UNCHANGED keys
      PROVE  TypeInv'
  <2>1. RequestsOK' /\ UNCHANGED <<now, users, resetTokens, organizations>>
    BY <1>1, LoginMoves
  <2>2. WindowsOK'
    <3>1. CASE CountAttempt(q)
      BY <1>a, <3>1, WindowsKeepTypes DEF CountAttempt, WindowsOK
    <3> QED
      BY <1>u, <1>1, <3>1 DEF Login, Authenticate, IssueFirst, sessionVars
  <2>3. TokensOK'
    <3>1. CASE IssueFirst(q)
      <4>1. request[q].name \in Username
        BY <1>a, <3>1 DEF IssueFirst, Goes, RequestsOK, RequestOK, NamedRequest
      <4> QED
        BY <1>a, <3>1, <4>1, IssueKeepsTypes DEF IssueFirst
    <3> QED
      BY <1>u, <1>1, <3>1 DEF Login, Authenticate, CountAttempt, sessionVars
  <2> QED
    BY <1>a, <1>u, <1>1, <2>1, <2>2, <2>3 DEF TypeInv
<1>2. ASSUME NEW q \in Request, Refresh(q), UNCHANGED keys
      PROVE  TypeInv'
  <2>1. RequestsOK' /\ UNCHANGED <<now, users, resetTokens, windows, organizations>>
    BY <1>2, RefreshMoves
  <2>2. TokensOK'
    <3>1. CASE RevokeFound(q)
      BY <1>a, <2>1, <3>1, RevokeKeepsTypes DEF RevokeFound
    <3>2. CASE IssueNext(q)
      <4>1. request[q].token.user \in Username /\ request[q].token.by \in Nat
        BY <1>a, <3>2 DEF IssueNext, Goes, RequestsOK, RequestOK, RefreshRequest, RefreshToken
      <4> QED
        BY <1>a, <3>2, <4>1, IssueKeepsTypes DEF IssueNext
    <3> QED
      BY <1>u, <1>2, <3>1, <3>2 DEF Refresh, FindRefreshToken, sessionVars
  <2> QED
    BY <1>a, <1>u, <1>2, <2>1, <2>2 DEF TypeInv
<1>3. ASSUME NEW q \in Request, RequestReset(q), UNCHANGED keys
      PROVE  TypeInv'
  <2>1. RequestsOK' /\ UNCHANGED <<now, users, refreshTokens, windows, organizations>>
    BY <1>3, RequestResetMoves
  <2>2. TokensOK'
    <3>1. CASE CreateResetToken(q)
      <4>1. /\ request[q].name \in Username /\ q \in Nat
            /\ now + PasswordResetTokenTTL \in Nat
        BY <1>a, <3>1, SessionsAssumption
           DEF CreateResetToken, Goes, RequestsOK, RequestOK, NamedRequest
      <4>2. [by |-> q, user |-> request[q].name, expires |-> now + PasswordResetTokenTTL,
             used |-> FALSE] \in PasswordResetToken
        BY <4>1 DEF PasswordResetToken
      <4> QED
        BY <1>a, <3>1, <4>2 DEF CreateResetToken, InsertResetToken, TokensOK
    <3> QED
      BY <1>u, <1>3, <3>1 DEF RequestReset, FindUser, sessionVars
  <2> QED
    BY <1>a, <1>u, <1>3, <2>1, <2>2 DEF TypeInv
<1>4. ASSUME NEW q \in Request, ConfirmReset(q), UNCHANGED keys
      PROVE  TypeInv'
  <2>1. RequestsOK' /\ UNCHANGED <<now, refreshTokens, windows, organizations>>
    BY <1>4, ConfirmResetMoves
  <2>2. UsersOK'
    <3>1. CASE SetPassword(q)
      <4>1. request[q].password \in Password
        BY <1>a, <3>1 DEF SetPassword, Goes, RequestsOK, RequestOK, ResetRequest
      <4> QED
        BY <1>a, <3>1, <4>1, UsersKeepTheirNames DEF SetPassword
    <3> QED
      BY <1>u, <1>4, <3>1 DEF ConfirmReset, FindResetToken, MarkFound, sessionVars
  <2>3. TokensOK'
    <3>1. CASE MarkFound(q)
      BY <1>a, <3>1, MarkUsedKeepsTypes DEF MarkFound
    <3> QED
      BY <1>u, <1>4, <3>1 DEF ConfirmReset, FindResetToken, SetPassword, sessionVars
  <2> QED
    BY <1>a, <1>u, <1>4, <2>1, <2>2, <2>3 DEF TypeInv
<1>5. ASSUME NEW q \in Request, CreateUser(q), UNCHANGED keys
      PROVE  TypeInv'
  <2>1. RequestsOK' /\ UNCHANGED <<now, refreshTokens, resetTokens, windows>>
    BY <1>5, CreateUserMoves
  <2>2. UsersOK'
    <3>1. CASE StoreUser(q)
      <4>1. request[q].name \in Username /\ request[q].password \in Password
        BY <1>a, <3>1 DEF StoreUser, Goes, RequestsOK, RequestOK, UserRequest
      <4> QED
        BY <1>a, <3>1, <4>1, InsertUserKeepsTypes DEF StoreUser
    <3>2. CASE BootstrapOrganization(q)
      <4>1. request[q].name \in Username
        BY <1>a, <3>2 DEF BootstrapOrganization, Goes, RequestsOK, RequestOK, NamedRequest
      <4> QED
        BY <1>a, <3>2, <4>1 DEF BootstrapOrganization, UsersOK
    <3> QED
      BY <1>u, <1>5, <3>1, <3>2 DEF CreateUser, AdmitCreateUser, CountUsers, sessionVars
  <2> QED
    BY <1>a, <1>u, <1>5, <2>1, <2>2 DEF TypeInv
<1>6. ASSUME NEW q \in Request, Middleware(q), UNCHANGED sessionVars
      PROVE  TypeInv'
  <2>1. RequestsOK' /\ UNCHANGED now
    BY <1>6, MiddlewareMoves
  <2>2. KeysOK'
    <3>1. CASE SaveResponse(q)
      <4> DEFINE c == request[q].caller
                 k == request[q].key
                 x == [caller |-> c, key |-> k, by |-> q, createdAt |-> now]
      <4>1. c \in Caller /\ k \in Key
        BY <1>a, <3>1 DEF SaveResponse, Goes, RequestsOK, RequestOK, TriggerRequest
      <4>2. CASE Rows(c, k) # {}
        BY <1>u, <3>1, <4>2 DEF SaveResponse, Save
      <4>3. CASE Rows(c, k) = {}
        <5>1. keys' = keys \cup {x}
          BY <3>1, <4>3 DEF SaveResponse, Save
        <5>2. x \in CachedResponse /\ x.caller = c /\ x.key = k
          BY <1>a, <4>1 DEF CachedResponse
        <5>3. \A y \in keys : ~(y.caller = c /\ y.key = k)
          BY <4>3 DEF Rows
        <5> HIDE DEF x, c, k
        <5> QED
          BY <1>a, <5>1, <5>2, <5>3 DEF KeysOK, Rows
      <4> QED
        BY <4>2, <4>3
    <3> QED
      BY <1>u, <1>6, <3>1 DEF Middleware, LookUpKey, CallNext
  <2> QED
    BY <1>a, <1>u, <1>6, <2>1, <2>2 DEF TypeInv, sessionVars
<1>7. ASSUME NEW q \in Request, Breaks(q), UNCHANGED <<now, sessionVars, idempotencyVars>>
      PROVE  TypeInv'
  BY <1>a, <1>u, <1>7, BreaksMoves DEF TypeInv, sessionVars, idempotencyVars
<1>8. CASE Tick /\ UNCHANGED <<request, event, sessionVars, idempotencyVars>>
  BY <1>a, <1>u, <1>8 DEF Tick, TypeInv, sessionVars, idempotencyVars
<1>9. CASE GC /\ UNCHANGED idempotencyVars
  <2>1. WindowsOK'
    BY <1>a, <1>9 DEF GC, Evict, WindowsOK
  <2> QED
    BY <1>a, <1>u, <1>9, <2>1 DEF GC, TypeInv, idempotencyVars
<1>10. CASE Reap /\ UNCHANGED sessionVars
  <2>1. KeysOK'
    BY <1>a, <1>10 DEF Reap, KeysOK, Rows
  <2> QED
    BY <1>a, <1>u, <1>10, <2>1 DEF Reap, TypeInv, sessionVars
<1>11. CASE UNCHANGED vars
  BY <1>a, <1>u, <1>11 DEF vars, TypeInv, sessionVars, idempotencyVars
<1> QED
  BY <1>1, <1>2, <1>3, <1>4, <1>5, <1>6, <1>7, <1>8, <1>9, <1>10, <1>11
     DEF Next, SessionRequest, idempotencyVars

\* TypeInv is an invariant.
LEMMA TypeInvariant == Spec => []TypeInv
BY TypeInit, TypeStep, PTL DEF Spec

\* Every table of the identity context and of the idempotency store keeps to
\* its schema, with one row for a username and for a key of a caller (the
\* UNIQUE constraints, which Create and Save rely on).
THEOREM GatewayIsTypeCorrect == Spec => []TypeOK
BY TypeInvariant, TypeInvTypes, PTL

-----------------------------------------------------------------------------
(* Steps that do not concern some part of the state.                        *)

\* No request enters one of the stages, and what was over remains so.
StaysOut(ops) ==
    \A p \in Request : \/ request'[p] = request[p]
                       \/ Op(p) # "ended" /\ request'[p].op \notin ops

\* The step adds no event of that kind.
NoNew(what) == \A e \in event' : e.what = what => e \in event

\* A move to some other stage keeps out of these.
LEMMA MoveStaysOut ==
    ASSUME NEW q \in Request, NEW ops, Moves(q, request'[q]), request'[q].op \notin ops
    PROVE  StaysOut(ops)
BY DEF Moves, StaysOut, Op

\* A step that is nobody's is no new event either.
LEMMA SameStaysOut ==
    ASSUME UNCHANGED <<request, event>>, NEW ops, NEW what
    PROVE  StaysOut(ops) /\ NoNew(what)
BY DEF StaysOut, NoNew

\* Which handler records what.
LEMMA EventKinds ==
    ASSUME NEW q \in Request
    PROVE  /\ Login(q) => \A e \in event' : e \in event \/ e.what = "attempt"
           /\ Refresh(q) => \A e \in event' : e \in event \/ e.what = "refresh"
           /\ ConfirmReset(q) => \A e \in event' : e \in event \/ e.what = "reset"
           /\ CreateUser(q) => \A e \in event' : e \in event \/ e.what = "user"
           /\ Middleware(q) =>
                \A e \in event' : e \in event \/ e.what \in {"replay", "effect", "save"}
<1>1. Login(q) => \A e \in event' : e \in event \/ e.what = "attempt"
  <2>1. ASSUME CountAttempt(q), NEW e \in event', e \notin event
        PROVE  e.what = "attempt"
    <3>1. \E n \in Username : e = [what |-> "attempt", by |-> q, user |-> n, at |-> now]
      BY <2>1 DEF CountAttempt
    <3> QED
      BY <3>1
  <2> QED
    BY <2>1 DEF Login, Authenticate, IssueFirst
<1>2. Refresh(q) => \A e \in event' : e \in event \/ e.what = "refresh"
  <2>1. ASSUME IssueNext(q), NEW e \in event', e \notin event
        PROVE  e.what = "refresh"
    BY <2>1 DEF IssueNext
  <2> QED
    BY <2>1 DEF Refresh, FindRefreshToken, RevokeFound
<1>3. ConfirmReset(q) => \A e \in event' : e \in event \/ e.what = "reset"
  <2>1. ASSUME MarkFound(q), NEW e \in event', e \notin event
        PROVE  e.what = "reset"
    BY <2>1 DEF MarkFound
  <2> QED
    BY <2>1 DEF ConfirmReset, FindResetToken, SetPassword
<1>4. CreateUser(q) => \A e \in event' : e \in event \/ e.what = "user"
  <2>1. CASE StoreUser(q)
    BY <2>1 DEF StoreUser
  <2> QED
    BY <2>1 DEF CreateUser, AdmitCreateUser, CountUsers, BootstrapOrganization
<1>5. Middleware(q) =>
        \A e \in event' : e \in event \/ e.what \in {"replay", "effect", "save"}
  <2>1. ASSUME LookUpKey(q), NEW e \in event', e \notin event
        PROVE  e.what = "replay"
    <3>1. \E c \in Caller, k \in Key : \E x \in Get(c, k) :
            e = [what |-> "replay", by |-> q, caller |-> c, key |-> k, of |-> x.by, at |-> now]
      BY <2>1 DEF LookUpKey
    <3> QED
      BY <3>1
  <2>2. ASSUME CallNext(q), NEW e \in event', e \notin event
        PROVE  e.what = "effect"
    BY <2>2 DEF CallNext
  <2>3. ASSUME SaveResponse(q), NEW e \in event', e \notin event
        PROVE  e.what = "save"
    BY <2>3 DEF SaveResponse
  <2> QED
    BY <2>1, <2>2, <2>3 DEF Middleware
<1> QED
  BY <1>1, <1>2, <1>3, <1>4, <1>5

-----------------------------------------------------------------------------
(* What a request saw finished when it began is finished.                   *)

Recalling == {"revoke", "reissue", "setPassword", "markUsed", "countUsers", "insertUser",
              "next", "save"}

AfterIsOver ==
    /\ \A q \in Request : Op(q) \in Recalling => \A p \in request[q].after : Op(p) = "ended"
    /\ \A e \in event : e.what \in {"refresh", "reset", "user", "effect"} =>
         \A p \in e.after : p \in Request /\ Op(p) = "ended"

\* A step that takes a request out of them, or leaves them alone.
LEMMA AfterKept ==
    ASSUME TypeInv, AfterIsOver, StaysOut({}),
           \A q \in Request : request'[q].op \in Recalling =>
               \/ Op(q) \in Recalling /\ request'[q].after = request[q].after
               \/ request'[q].after \subseteq Finished,
           \A e \in event' : e.what \in {"refresh", "reset", "user", "effect"} =>
               \/ e \in event
               \/ \E q \in Request : Op(q) \in Recalling /\ e.after = request[q].after
    PROVE  AfterIsOver'
<1>1. \A p \in Request : Op(p) = "ended" => request'[p].op = "ended"
  BY DEF StaysOut, Op
<1>2. \A p \in Finished : p \in Request /\ Op(p) = "ended"
  BY DEF Finished, Op, Ended
<1>3. \A q \in Request : Op(q) \in Recalling => request[q].after \subseteq Request
  BY DEF TypeInv, RequestsOK, RequestOK, Op, Recalling, RefreshRequest, ResetRequest,
         UserRequest, TriggerRequest
<1>4. ASSUME NEW q \in Request, request'[q].op \in Recalling, NEW p \in request'[q].after
      PROVE  request'[p].op = "ended"
  <2>1. p \in Request /\ Op(p) = "ended"
    BY <1>2, <1>3, <1>4 DEF AfterIsOver
  <2> QED
    BY <1>1, <2>1
<1>5. ASSUME NEW e \in event', e.what \in {"refresh", "reset", "user", "effect"},
             NEW p \in e.after
      PROVE  p \in Request /\ request'[p].op = "ended"
  <2>1. p \in Request /\ Op(p) = "ended"
    BY <1>3, <1>5 DEF AfterIsOver
  <2> QED
    BY <1>1, <2>1
<1> QED
  BY <1>4, <1>5 DEF AfterIsOver, Op

\* Every step preserves AfterIsOver.
LEMMA AfterStep ==
    ASSUME TypeInv, AfterIsOver, [Next]_vars
    PROVE  AfterIsOver'
<1>a. RequestsOK
  BY DEF TypeInv
<1>0. ASSUME NEW q \in Request, Moves(q, request'[q]),
             request'[q].op \in Recalling =>
               \/ Op(q) \in Recalling /\ request'[q].after = request[q].after
               \/ request'[q].after \subseteq Finished,
             \A e \in event' : e.what \in {"refresh", "reset", "user", "effect"} =>
               e \in event \/ (Op(q) \in Recalling /\ e.after = request[q].after)
      PROVE  AfterIsOver'
  <2>1. StaysOut({})
    BY <1>0, MoveStaysOut
  <2>2. \A p \in Request : p # q => request'[p] = request[p]
    BY <1>0 DEF Moves
  <2>3. ASSUME NEW p \in Request, request'[p].op \in Recalling
        PROVE  \/ Op(p) \in Recalling /\ request'[p].after = request[p].after
               \/ request'[p].after \subseteq Finished
    BY <1>0, <2>2, <2>3 DEF Op
  <2>4. \A e \in event' : e.what \in {"refresh", "reset", "user", "effect"} =>
           \/ e \in event
           \/ \E p \in Request : Op(p) \in Recalling /\ e.after = request[p].after
    BY <1>0
  <2> QED
    BY <2>1, <2>3, <2>4, AfterKept
<1>1. ASSUME NEW q \in Request, Moves(q, request'[q]), request'[q].op \notin Recalling,
             \A e \in event' : e.what \in {"refresh", "reset", "user", "effect"} => e \in event
      PROVE  AfterIsOver'
  BY <1>0, <1>1
<1>2. ASSUME NEW q \in Request, Login(q)
      PROVE  AfterIsOver'
  <2>1. request'[q].op \notin Recalling /\ Moves(q, request'[q])
    BY <1>2, LoginMoves DEF Recalling
  <2> QED
    BY <1>1, <1>2, <2>1, EventKinds
<1>3. ASSUME NEW q \in Request, Refresh(q)
      PROVE  AfterIsOver'
  <2>0. Moves(q, request'[q])
    BY <1>3, RefreshMoves
  <2>1. CASE FindRefreshToken(q)
    <3>1. PICK t \in ValidRefreshTokens :
            Begins(q, "refresh", [op |-> "revoke", token |-> t, after |-> Finished])
      BY <2>1 DEF FindRefreshToken
    <3>2. request'[q].after = Finished
      BY <1>a, <3>1, BeginsMoves DEF Moves
    <3> QED
      BY <1>0, <2>0, <2>1, <3>2 DEF FindRefreshToken
  <2>2. CASE RevokeFound(q)
    <3>1. request[q] \in RefreshRequest /\ Op(q) \in Recalling
      BY <1>a, <2>2 DEF RevokeFound, Goes, RequestsOK, RequestOK, Op, Recalling
    <3>2. request'[q].after = request[q].after
      BY <1>a, <2>2, <3>1, GoesMoves DEF RevokeFound, Moves, RefreshRequest
    <3> QED
      BY <1>0, <2>0, <2>2, <3>1, <3>2 DEF RevokeFound
  <2>3. CASE IssueNext(q)
    <3>1. request'[q].op \notin Recalling /\ Op(q) \in Recalling
      BY <1>a, <2>3, GoesMoves DEF IssueNext, Moves, Ended, Recalling
    <3>2. \A e \in event' : e \in event \/ e.after = request[q].after
      BY <2>3 DEF IssueNext
    <3> QED
      BY <1>0, <2>0, <3>1, <3>2
  <2> QED
    BY <1>3, <2>1, <2>2, <2>3 DEF Refresh
<1>4. ASSUME NEW q \in Request, RequestReset(q)
      PROVE  AfterIsOver'
  <2>1. request'[q].op \notin Recalling /\ Moves(q, request'[q]) /\ UNCHANGED event
    BY <1>4, RequestResetMoves DEF Recalling
  <2> QED
    BY <1>1, <2>1
<1>5. ASSUME NEW q \in Request, ConfirmReset(q)
      PROVE  AfterIsOver'
  <2>0. Moves(q, request'[q])
    BY <1>5, ConfirmResetMoves
  <2>1. CASE FindResetToken(q)
    <3>1. PICK t \in ValidResetTokens, p \in Password :
            Begins(q, "confirmReset", [op |-> "setPassword", token |-> t, password |-> p,
                                       after |-> Finished])
      BY <2>1 DEF FindResetToken
    <3>2. request'[q].after = Finished
      BY <1>a, <3>1, BeginsMoves DEF Moves
    <3> QED
      BY <1>0, <2>0, <2>1, <3>2 DEF FindResetToken
  <2>2. CASE SetPassword(q)
    <3>1. request[q] \in ResetRequest /\ Op(q) \in Recalling
      BY <1>a, <2>2 DEF SetPassword, Goes, RequestsOK, RequestOK, Op, Recalling
    <3>2. request'[q].after = request[q].after
      <4>1. Moves(q, [request[q] EXCEPT !.op = "markUsed"])
        BY <1>a, <2>2, GoesMoves DEF SetPassword
      <4> QED
        BY <3>1, <4>1 DEF Moves, ResetRequest
    <3> QED
      BY <1>0, <2>0, <2>2, <3>1, <3>2 DEF SetPassword
  <2>3. CASE MarkFound(q)
    <3>1. request'[q].op \notin Recalling /\ Op(q) \in Recalling
      BY <1>a, <2>3, GoesMoves DEF MarkFound, Moves, Ended, Recalling
    <3>2. \A e \in event' : e \in event \/ e.after = request[q].after
      BY <2>3 DEF MarkFound
    <3> QED
      BY <1>0, <2>0, <3>1, <3>2
  <2> QED
    BY <1>5, <2>1, <2>2, <2>3 DEF ConfirmReset
<1>6. ASSUME NEW q \in Request, CreateUser(q)
      PROVE  AfterIsOver'
  <2>0. Moves(q, request'[q])
    BY <1>6, CreateUserMoves
  <2>1. CASE AdmitCreateUser(q)
    <3>1. PICK n \in Username, p \in Password,
               authenticated \in RequireAuthOrFirstUserBootstrap :
            Begins(q, "createUser",
                   [op |-> "countUsers", name |-> n, password |-> p, first |-> FALSE,
                    authenticated |-> authenticated, after |-> Finished])
      BY <2>1 DEF AdmitCreateUser
    <3>2. request'[q].after = Finished
      BY <1>a, <3>1, BeginsMoves DEF Moves
    <3> QED
      BY <1>0, <2>0, <2>1, <3>2 DEF AdmitCreateUser
  <2>2. CASE CountUsers(q)
    <3>1. request[q] \in UserRequest /\ Op(q) \in Recalling
      BY <1>a, <2>2 DEF CountUsers, Goes, RequestsOK, RequestOK, Op, Recalling
    <3>2. request'[q].after = request[q].after
      <4>1. Moves(q, [request[q] EXCEPT !.op = "insertUser", !.first = users = {}])
        BY <1>a, <2>2, GoesMoves DEF CountUsers
      <4> QED
        BY <3>1, <4>1 DEF Moves, UserRequest
    <3> QED
      BY <1>0, <2>0, <2>2, <3>1, <3>2 DEF CountUsers
  <2>3. CASE StoreUser(q)
    <3>1. Op(q) \in Recalling
      BY <2>3 DEF StoreUser, Goes, Op, Recalling
    <3>2. request'[q].op \notin Recalling
      <4>1. PICK x : /\ x = Ended \/ x = [op |-> "bootstrapOrg", name |-> request[q].name]
                     /\ Goes(q, "insertUser", x)
        BY <2>3 DEF StoreUser
      <4>2. request'[q] = x
        BY <1>a, <4>1, GoesMoves DEF Moves
      <4> QED
        BY <4>1, <4>2 DEF Ended, Recalling
    <3>3. \A e \in event' : e \in event \/ e.after = request[q].after
      BY <2>3 DEF StoreUser
    <3> QED
      BY <1>0, <2>0, <3>1, <3>2, <3>3
  <2>4. CASE BootstrapOrganization(q)
    <3>1. request'[q].op \notin Recalling
      <4>1. request'[q] = Ended
        BY <1>a, <2>4, GoesMoves DEF BootstrapOrganization, Moves
      <4> QED
        BY <4>1 DEF Ended, Recalling
    <3> QED
      BY <1>1, <2>0, <2>4, <3>1 DEF BootstrapOrganization
  <2> QED
    BY <1>6, <2>1, <2>2, <2>3, <2>4 DEF CreateUser
<1>7. ASSUME NEW q \in Request, Middleware(q)
      PROVE  AfterIsOver'
  <2>0. Moves(q, request'[q])
    BY <1>7, MiddlewareMoves
  <2>1. CASE LookUpKey(q)
    <3>1. PICK c \in Caller, k \in Key :
            Begins(q, "trigger", IF Get(c, k) # {} THEN Ended
                                 ELSE [op |-> "next", caller |-> c, key |-> k, at |-> now,
                                       after |-> Finished])
      BY <2>1 DEF LookUpKey
    <3>2. request'[q] = Ended \/ request'[q].after = Finished
      BY <1>a, <3>1, BeginsMoves DEF Moves
    <3>3. \A e \in event' : e \in event \/ e.what = "replay"
      <4>1. ASSUME NEW e \in event', e \notin event
            PROVE  \E c1 \in Caller, k1 \in Key : \E x \in Get(c1, k1) :
                     e = [what |-> "replay", by |-> q, caller |-> c1, key |-> k1,
                          of |-> x.by, at |-> now]
        BY <2>1, <4>1 DEF LookUpKey
      <4> QED
        BY <4>1
    <3> QED
      BY <1>0, <2>0, <3>2, <3>3 DEF Ended, Recalling
  <2>2. CASE CallNext(q)
    <3>1. request[q] \in TriggerRequest /\ Op(q) \in Recalling
      BY <1>a, <2>2 DEF CallNext, Goes, RequestsOK, RequestOK, Op, Recalling
    <3>2. request'[q].after = request[q].after
      BY <1>a, <2>2, <3>1, GoesMoves DEF CallNext, Moves, TriggerRequest
    <3>3. \A e \in event' : e \in event \/ e.after = request[q].after
      BY <2>2 DEF CallNext
    <3> QED
      BY <1>0, <2>0, <3>1, <3>2, <3>3
  <2>3. CASE SaveResponse(q)
    <3>1. request'[q].op \notin Recalling
      <4>1. request'[q] = Ended
        BY <1>a, <2>3, GoesMoves DEF SaveResponse, Moves
      <4> QED
        BY <4>1 DEF Ended, Recalling
    <3>2. \A e \in event' : e \in event \/ e.what = "save"
      BY <2>3 DEF SaveResponse
    <3> QED
      BY <1>1, <2>0, <3>1, <3>2
  <2> QED
    BY <1>7, <2>1, <2>2, <2>3 DEF Middleware
<1>8. ASSUME NEW q \in Request, Breaks(q), UNCHANGED event
      PROVE  AfterIsOver'
  BY <1>1, <1>8, BreaksMoves DEF Ended, Recalling
<1>9. CASE UNCHANGED <<request, event>>
  BY <1>9 DEF AfterIsOver, Op
<1> QED
  BY <1>2, <1>3, <1>4, <1>5, <1>6, <1>7, <1>8, <1>9 DEF Next, SessionRequest, GC, Reap, vars

-----------------------------------------------------------------------------
(* The invariants about what the requests have done.                        *)

Over(i) == i \in Request => Op(i) = "ended"

\* A refresh token is known once its request is over; one that was used up is
\* revoked; and whoever goes on with a token began before anybody used it up.
RefreshInv ==
    /\ \A t \in refreshTokens : Over(t.by)
    /\ \A e \in event : e.what = "refresh" =>
         Over(e.token) /\ \A t \in refreshTokens : t.by = e.token => t.revoked
    /\ \A q \in Request : Op(q) \in {"revoke", "reissue"} =>
         /\ Over(request[q].token.by)
         /\ \A e \in event : e.what = "refresh" /\ e.token = request[q].token.by =>
              e.by \notin request[q].after
         /\ Op(q) = "reissue" =>
              \A t \in refreshTokens : t.by = request[q].token.by => t.revoked
    /\ \A e, f \in event : e.what = "refresh" /\ f.what = "refresh" =>
         (e.token = f.token /\ e # f => e.by \notin f.after)

\* The same of password reset tokens.
ResetInv ==
    /\ \A t \in resetTokens : Over(t.by)
    /\ \A e \in event : e.what = "reset" =>
         Over(e.token) /\ \A t \in resetTokens : t.by = e.token => t.used
    /\ \A q \in Request : Op(q) \in {"setPassword", "markUsed"} =>
         /\ Over(request[q].token.by)
         /\ \A e \in event : e.what = "reset" /\ e.token = request[q].token.by =>
              e.by \notin request[q].after
    /\ \A e, f \in event : e.what = "reset" /\ f.what = "reset" =>
         (e.token = f.token /\ e # f => e.by \notin f.after)

\* Once a user was created there is one, and whoever was let in without a
\* token began before that.
UserInv ==
    /\ \A e \in event : e.what = "user" => users # {}
    /\ \A q \in Request : Op(q) \in {"countUsers", "insertUser"} /\ ~request[q].authenticated =>
         \A e \in event : e.what = "user" => e.by \notin request[q].after
    /\ \A e, f \in event : e.what = "user" /\ f.what = "user" =>
         (e # f /\ ~f.authenticated => e.by \notin f.after)

\* A request has its effect between CallNext and SaveResponse.
EffectInv ==
    /\ \A e \in event : e.what = "effect" =>
         /\ e.by \in Request /\ Op(e.by) \in {"save", "ended"}
         /\ Op(e.by) = "save" => e.caller = request[e.by].caller /\ e.key = request[e.by].key
    /\ \A q \in Request : Op(q) = "save" =>
         \E e \in event : /\ e.what = "effect" /\ e.by = q
                          /\ e.caller = request[q].caller /\ e.key = request[q].key

\* A row is the answer to a request that had its effect and saved it, and it
\* stays until its window has passed.
RowInv ==
    /\ \A x \in keys :
         /\ x.createdAt <= now
         /\ \E e \in event : /\ e.what = "effect" /\ e.by = x.by
                             /\ e.caller = x.caller /\ e.key = x.key
         /\ \E s \in event : s.what = "save" /\ s.by = x.by /\ s.at = x.createdAt
    /\ \A s \in event : s.what = "save" =>
         /\ s.at \in Nat /\ s.by \in Request /\ Op(s.by) = "ended"
         /\ \A e \in event : e.what = "effect" /\ e.by = s.by =>
              \/ s.at + Window <= now
              \/ \E x \in keys : x.caller = e.caller /\ x.key = e.key /\ x.createdAt = s.at

\* A request that found no fresh row was late, or early, for every answer.
WaitInv ==
    /\ \A q \in Request : Op(q) \in {"next", "save"} =>
         \A e, s \in event :
             /\ e.what = "effect" /\ e.caller = request[q].caller /\ e.key = request[q].key
             /\ e.by \in request[q].after
             /\ s.what = "save" /\ s.by = e.by
             => request[q].at >= s.at + Window
    /\ SavedKeyHasNoSecondEffect
    /\ ReplayIsOwnAndRecent

Attempts(n) == {e \in event : e.what = "attempt" /\ e.user = n}
AttemptsIn(n, s) == {e \in Attempts(n) : s <= e.at /\ e.at <= s + Interval}

\* Windows that began at the times in W, one after the other, account for all
\* attempts that were let through; the last one is the limiter's, unless its
\* time is over.
Accounts(n, W) ==
    /\ \A s, t \in W : s < t => s + Interval < t
    /\ \A e \in Attempts(n) : e.at \in Nat /\ \E s \in W : s <= e.at /\ e.at <= s + Interval
    /\ \A s \in W : s <= now /\ Cardinality(AttemptsIn(n, s)) <= Limit
    /\ windows[n] = NoWindow => \A s \in W : s + Interval < now
    /\ windows[n] # NoWindow =>
         \E s \in W : /\ windows[n].resetAt = s + Interval
                      /\ \A t \in W : t <= s
                      /\ Cardinality(AttemptsIn(n, s)) <= windows[n].count

\* The attempts of one user are finitely many, and accounted for.
LimiterInvOf(n) ==
    /\ IsFiniteSet(Attempts(n))
    /\ \E W \in SUBSET (0..MaxTime) : Accounts(n, W)

LimiterInv == \A n \in Username : LimiterInvOf(n)

-----------------------------------------------------------------------------
(* Refresh tokens.                                                          *)

\* What is over stays over in a step that moves nobody who had ended,
LEMMA OverStays ==
    ASSUME NEW ops, StaysOut(ops)
    PROVE  \A i : Over(i) => Over(i)'
BY DEF StaysOut, Over, Op

\* and who moves was not over.
LEMMA MoveKeepsOver ==
    ASSUME NEW q \in Request, NEW r, Moves(q, r)
    PROVE  \A i : Over(i) => Over(i)' /\ i # q
BY DEF Moves, Over, Op

\* A step without a refresh in it leaves RefreshInv as it is.
LEMMA RefreshKept ==
    ASSUME RefreshInv, StaysOut({"revoke", "reissue"}), UNCHANGED refreshTokens,
           NoNew("refresh")
    PROVE  RefreshInv'
<1>1. \A i : Over(i) => Over(i)'
  BY OverStays
<1>2. \A e \in event' : e.what = "refresh" => e \in event
  BY DEF NoNew
<1>3. ASSUME NEW q \in Request, request'[q].op \in {"revoke", "reissue"}
      PROVE  request'[q] = request[q] /\ Op(q) \in {"revoke", "reissue"}
  BY <1>3 DEF StaysOut, Op
<1>4. (\A t \in refreshTokens : Over(t.by))'
  BY <1>1 DEF RefreshInv
<1>5. ASSUME NEW e \in event', e.what = "refresh"
      PROVE  Over(e.token)' /\ \A t \in refreshTokens' : t.by = e.token => t.revoked
  BY <1>1, <1>2, <1>5 DEF RefreshInv
<1>6. ASSUME NEW q \in Request, request'[q].op \in {"revoke", "reissue"}
      PROVE  /\ Over(request[q].token.by)' /\ request'[q] = request[q]
             /\ \A e \in event' : e.what = "refresh" /\ e.token = request[q].token.by =>
                  e.by \notin request[q].after
             /\ request'[q].op = "reissue" =>
                  \A t \in refreshTokens' : t.by = request[q].token.by => t.revoked
  <2>1. request'[q] = request[q] /\ Op(q) \in {"revoke", "reissue"}
    BY <1>3, <1>6
  <2>2. /\ Over(request[q].token.by)
        /\ \A e \in event : e.what = "refresh" /\ e.token = request[q].token.by =>
             e.by \notin request[q].after
        /\ Op(q) = "reissue" =>
             \A t \in refreshTokens : t.by = request[q].token.by => t.revoked
    BY <2>1 DEF RefreshInv
  <2>3. Over(request[q].token.by)'
    BY <1>1, <2>1, <2>2 DEF Over
  <2> QED
    BY <1>2, <2>1, <2>2, <2>3 DEF Op
<1>7. \A e, f \in event' : e.what = "refresh" /\ f.what = "refresh" =>
         (e.token = f.token /\ e # f => e.by \notin f.after)
  BY <1>2 DEF RefreshInv
<1> QED
  BY <1>4, <1>5, <1>6, <1>7 DEF RefreshInv, Op, Over

\* A token that was found valid has not been used up.
LEMMA FindRefreshTokenStep ==
    ASSUME TypeInv, RefreshInv, NEW q \in Request, FindRefreshToken(q)
    PROVE  RefreshInv'
<1>a. RequestsOK
  BY DEF TypeInv
<1>1. PICK t \in ValidRefreshTokens :
        Begins(q, "refresh", [op |-> "revoke", token |-> t, after |-> Finished])
  BY DEF FindRefreshToken
<1>2. UNCHANGED <<event, refreshTokens>>
  BY DEF FindRefreshToken, sessionVars
<1>3. Moves(q, [op |-> "revoke", token |-> t, after |-> Finished])
  BY <1>a, <1>1, BeginsMoves
<1>4. \A i : Over(i) => Over(i)'
  BY <1>3, MoveKeepsOver
<1>5. request'[q] = [op |-> "revoke", token |-> t, after |-> Finished]
      /\ \A p \in Request : p # q => request'[p] = request[p]
  BY <1>3 DEF Moves
<1>6. t \in refreshTokens /\ ~t.revoked
  BY DEF ValidRefreshTokens
<1>7. Over(t.by)' /\ \A e \in event : e.what = "refresh" => e.token # t.by
  <2>1. Over(t.by)
    BY <1>6 DEF RefreshInv
  <2>2. \A e \in event : e.what = "refresh" => e.token # t.by
    BY <1>6 DEF RefreshInv
  <2> QED
    BY <1>4, <2>1, <2>2
<1>8. ASSUME NEW p \in Request, request'[p].op \in {"revoke", "reissue"}
      PROVE  /\ Over(request[p].token.by)'
             /\ \A e \in event : e.what = "refresh" /\ e.token = request'[p].token.by =>
                  e.by \notin request'[p].after
             /\ request'[p].op = "reissue" =>
                  \A u \in refreshTokens : u.by = request'[p].token.by => u.revoked
  <2>1. CASE p = q
    BY <1>5, <1>7, <2>1
  <2>2. CASE p # q
    <3>1. request'[p] = request[p] /\ Op(p) \in {"revoke", "reissue"}
      BY <1>5, <1>8, <2>2 DEF Op
    <3>2. Over(request[p].token.by)
      BY <3>1 DEF RefreshInv
    <3>3. Over(request[p].token.by)'
      BY <1>4, <3>1, <3>2 DEF Over
    <3> QED
      BY <3>1, <3>3 DEF RefreshInv, Op
  <2> QED
    BY <2>1, <2>2
<1>9. \A u \in refreshTokens : Over(u.by)'
  BY <1>4 DEF RefreshInv
<1>10. \A e \in event : e.what = "refresh" => Over(e.token)'
  BY <1>4 DEF RefreshInv
<1> QED
  BY <1>2, <1>8, <1>9, <1>10 DEF RefreshInv, Op

\* What Revoke makes of the rows.
LEMMA RevokeResult ==
    ASSUME TokensOK, NEW i, Revoke(i)
    PROVE  \A u \in refreshTokens' : \E t \in refreshTokens :
             u.by = t.by /\ (t.by = i => u.revoked) /\ (t.revoked => u.revoked)
<1> SUFFICES ASSUME NEW u \in refreshTokens'
             PROVE  \E t \in refreshTokens :
                      u.by = t.by /\ (t.by = i => u.revoked) /\ (t.revoked => u.revoked)
  OBVIOUS
<1>1. PICK t \in refreshTokens : u = IF t.by = i THEN [t EXCEPT !.revoked = TRUE] ELSE t
  BY DEF Revoke
<1>2. t \in RefreshToken
  BY DEF TokensOK
<1> QED
  BY <1>1, <1>2 DEF RefreshToken

\* Revoke leaves the token known, and revoked.
LEMMA RevokeFoundStep ==
    ASSUME TypeInv, RefreshInv, NEW q \in Request, RevokeFound(q)
    PROVE  RefreshInv'
<1>a. RequestsOK /\ TokensOK
  BY DEF TypeInv
<1>b. request[q] \in RefreshRequest /\ Op(q) = "revoke"
  BY <1>a DEF RevokeFound, Goes, RequestsOK, RequestOK, Op
<1>1. Moves(q, [request[q] EXCEPT !.op = "reissue"]) /\ UNCHANGED event
  BY <1>a, GoesMoves DEF RevokeFound
<1>2. /\ request'[q].op = "reissue" /\ request'[q].token = request[q].token
      /\ request'[q].after = request[q].after
      /\ \A p \in Request : p # q => request'[p] = request[p]
  BY <1>b, <1>1 DEF Moves, RefreshRequest
<1>3. \A i : Over(i) => Over(i)'
  BY <1>1, MoveKeepsOver
<1>4. \A u \in refreshTokens' : \E t \in refreshTokens :
        u.by = t.by /\ (t.by = request[q].token.by => u.revoked) /\ (t.revoked => u.revoked)
  BY <1>a, RevokeResult DEF RevokeFound
<1>5. \A u \in refreshTokens' : Over(u.by)'
  BY <1>3, <1>4 DEF RefreshInv
<1>6. \A e \in event : e.what = "refresh" =>
         Over(e.token)' /\ \A u \in refreshTokens' : u.by = e.token => u.revoked
  BY <1>3, <1>4 DEF RefreshInv
<1>7. ASSUME NEW p \in Request, request'[p].op \in {"revoke", "reissue"}
      PROVE  /\ Over(request[p].token.by)'
             /\ \A e \in event : e.what = "refresh" /\ e.token = request'[p].token.by =>
                  e.by \notin request'[p].after
             /\ request'[p].op = "reissue" =>
                  \A u \in refreshTokens' : u.by = request'[p].token.by => u.revoked
  <2>1. /\ Op(p) \in {"revoke", "reissue"} /\ request'[p].token = request[p].token
        /\ request'[p].after = request[p].after
        /\ p # q => request'[p].op = Op(p)
    BY <1>b, <1>2, <1>7 DEF Op
  <2>2. /\ Over(request[p].token.by)
        /\ \A e \in event : e.what = "refresh" /\ e.token = request[p].token.by =>
             e.by \notin request[p].after
        /\ Op(p) = "reissue" =>
             \A t \in refreshTokens : t.by = request[p].token.by => t.revoked
    BY <2>1 DEF RefreshInv
  <2>3. Over(request[p].token.by)'
    BY <1>3, <2>1, <2>2 DEF Over
  <2>4. request'[p].op = "reissue" =>
           \A u \in refreshTokens' : u.by = request[p].token.by => u.revoked
    BY <1>4, <2>1, <2>2
  <2> QED
    BY <2>1, <2>2, <2>3, <2>4
<1> QED
  BY <1>1, <1>5, <1>6, <1>7 DEF RefreshInv, Op

\* A request that ends adds its token, and says whose place it takes if any.
LEMMA IssueStep ==
    ASSUME RefreshInv, AfterIsOver, NEW q \in Request, Moves(q, Ended),
           NEW x, x.by = q, refreshTokens' = refreshTokens \cup {x},
           \/ NoNew("refresh")
           \/ /\ Op(q) = "reissue"
              /\ \A e \in event' : e.what = "refresh" =>
                   \/ e \in event
                   \/ e = [what |-> "refresh", by |-> q, token |-> request[q].token.by,
                           after |-> request[q].after]
    PROVE  RefreshInv'
<1> DEFINE i == request[q].token.by
           f == [what |-> "refresh", by |-> q, token |-> i, after |-> request[q].after]
           Mine(e) == Op(q) = "reissue" /\ e = f
<1>1. \A e \in event' : e.what = "refresh" => e \in event \/ Mine(e)
  BY DEF NoNew
<1>2. \A j : Over(j) => Over(j)' /\ j # q
  BY MoveKeepsOver
<1>3. /\ request'[q] = Ended /\ Op(q) # "ended"
      /\ \A p \in Request : p # q => request'[p] = request[p]
  BY DEF Moves
<1>4. \A e : Mine(e) => e.by = q /\ e.token = i /\ e.after = request[q].after
  OBVIOUS
<1>5. Op(q) = "reissue" =>
        /\ Over(i)
        /\ \A e \in event : e.what = "refresh" /\ e.token = i => e.by \notin request[q].after
        /\ \A t \in refreshTokens : t.by = i => t.revoked
  BY DEF RefreshInv
<1>m. \A e : Mine(e) => Op(q) = "reissue"
  OBVIOUS
<1>n. \A d, e : Mine(d) /\ Mine(e) => d = e
  OBVIOUS
<1> HIDE DEF Mine, f
<1>6. \A t \in refreshTokens' : Over(t.by)'
  <2>1. Over(q)'
    BY <1>3 DEF Over, Op, Ended
  <2> QED
    BY <1>2, <2>1 DEF RefreshInv
<1>7. ASSUME NEW e \in event', e.what = "refresh"
      PROVE  Over(e.token)' /\ \A t \in refreshTokens' : t.by = e.token => t.revoked
  <2>1. CASE e \in event
    BY <1>2, <1>7, <2>1 DEF RefreshInv
  <2>2. CASE Mine(e)
    <3>1. e.token = i /\ Over(i) /\ \A t \in refreshTokens : t.by = i => t.revoked
      BY <1>4, <1>5, <1>m, <2>2
    <3> HIDE DEF i
    <3> QED
      BY <1>2, <3>1
  <2> QED
    BY <1>1, <1>7, <2>1, <2>2
<1>8. ASSUME NEW p \in Request, request'[p].op \in {"revoke", "reissue"}
      PROVE  /\ Over(request[p].token.by)' /\ request'[p] = request[p]
             /\ \A e \in event' : e.what = "refresh" /\ e.token = request[p].token.by =>
                  e.by \notin request[p].after
             /\ request'[p].op = "reissue" =>
                  \A t \in refreshTokens' : t.by = request[p].token.by => t.revoked
  <2>1. request'[p] = request[p] /\ Op(p) \in {"revoke", "reissue"} /\ p # q
    BY <1>3, <1>8 DEF Op, Ended
  <2>2. /\ Over(request[p].token.by)
        /\ \A e \in event : e.what = "refresh" /\ e.token = request[p].token.by =>
             e.by \notin request[p].after
        /\ Op(p) = "reissue" =>
             \A t \in refreshTokens : t.by = request[p].token.by => t.revoked
    BY <2>1 DEF RefreshInv
  <2>3. q \notin request[p].after
    BY <1>3, <2>1 DEF AfterIsOver, Recalling
  <2>4. Over(request[p].token.by)' /\ request[p].token.by # q
    BY <1>2, <2>1, <2>2 DEF Over
  <2>5. \A e \in event' : e.what = "refresh" /\ e.token = request[p].token.by =>
           e.by \notin request[p].after
    BY <1>1, <1>4, <2>2, <2>3
  <2>6. Op(p) = "reissue" =>
           \A t \in refreshTokens' : t.by = request[p].token.by => t.revoked
    BY <2>2, <2>4
  <2> QED
    BY <2>1, <2>4, <2>5, <2>6 DEF Op
<1>9. ASSUME NEW d \in event', NEW e \in event', d.what = "refresh", e.what = "refresh",
             d.token = e.token, d # e
      PROVE  d.by \notin e.after
  <2>1. CASE d \in event /\ e \in event
    BY <1>9, <2>1 DEF RefreshInv
  <2>2. CASE Mine(d) /\ e \in event
    BY <1>3, <1>4, <1>9, <2>2 DEF AfterIsOver
  <2>3. CASE d \in event /\ Mine(e)
    <3>1. e.token = i /\ e.after = request[q].after /\ Op(q) = "reissue"
      BY <1>4, <1>m, <2>3
    <3> QED
      BY <1>5, <1>9, <2>3, <3>1
  <2> QED
    BY <1>1, <1>9, <1>n, <2>1, <2>2, <2>3
<1> QED
  BY <1>6, <1>7, <1>8, <1>9 DEF RefreshInv, Op, Over

\* Every step preserves RefreshInv.
LEMMA RefreshStep ==
    ASSUME TypeInv, AfterIsOver, RefreshInv, [Next]_vars
    PROVE  RefreshInv'
<1>a. RequestsOK
  BY DEF TypeInv
<1>1. ASSUME NEW q \in Request, Login(q)
      PROVE  RefreshInv'
  <2>0. NoNew("refresh")
    BY <1>1, EventKinds DEF NoNew
  <2>1. CASE IssueFirst(q)
    <3>1. Moves(q, Ended)
      BY <1>a, <2>1, GoesMoves DEF IssueFirst
    <3>2. PICK x : x.by = q /\ refreshTokens' = refreshTokens \cup {x}
      BY <2>1 DEF IssueFirst, Issue
    <3> QED
      BY <2>0, <3>1, <3>2, IssueStep
  <2>2. CASE ~IssueFirst(q)
    <3>1. UNCHANGED refreshTokens
      BY <1>1, <2>2 DEF Login, CountAttempt, Authenticate, sessionVars
    <3>2. StaysOut({"revoke", "reissue"})
      BY <1>1, LoginMoves, MoveStaysOut
    <3> QED
      BY <2>0, <3>1, <3>2, RefreshKept
  <2> QED
    BY <2>1, <2>2
<1>2. ASSUME NEW q \in Request, IssueNext(q)
      PROVE  RefreshInv'
  <2>1. Moves(q, Ended) /\ Op(q) = "reissue"
    BY <1>a, <1>2, GoesMoves DEF IssueNext
  <2>2. PICK x : x.by = q /\ refreshTokens' = refreshTokens \cup {x}
    BY <1>2 DEF IssueNext, Issue
  <2>3. \A e \in event' : e.what = "refresh" =>
          \/ e \in event
          \/ e = [what |-> "refresh", by |-> q, token |-> request[q].token.by,
                  after |-> request[q].after]
    BY <1>2 DEF IssueNext
  <2> QED
    BY <2>1, <2>2, <2>3, IssueStep
<1>3. ASSUME NEW q \in Request, RequestReset(q)
      PROVE  RefreshInv'
  <2>1. NoNew("refresh") /\ UNCHANGED refreshTokens
    BY <1>3, RequestResetMoves DEF NoNew
  <2>2. StaysOut({"revoke", "reissue"})
    BY <1>3, RequestResetMoves, MoveStaysOut
  <2> QED
    BY <2>1, <2>2, RefreshKept
<1>4. ASSUME NEW q \in Request, ConfirmReset(q)
      PROVE  RefreshInv'
  <2>1. NoNew("refresh") /\ UNCHANGED refreshTokens
    BY <1>4, ConfirmResetMoves, EventKinds DEF NoNew
  <2>2. StaysOut({"revoke", "reissue"})
    BY <1>4, ConfirmResetMoves, MoveStaysOut
  <2> QED
    BY <2>1, <2>2, RefreshKept
<1>5. ASSUME NEW q \in Request, CreateUser(q)
      PROVE  RefreshInv'
  <2>1. NoNew("refresh") /\ UNCHANGED refreshTokens
    BY <1>5, CreateUserMoves, EventKinds DEF NoNew
  <2>2. StaysOut({"revoke", "reissue"})
    BY <1>5, CreateUserMoves, MoveStaysOut
  <2> QED
    BY <2>1, <2>2, RefreshKept
<1>6. ASSUME NEW q \in Request, Middleware(q), UNCHANGED sessionVars
      PROVE  RefreshInv'
  <2>1. NoNew("refresh") /\ UNCHANGED refreshTokens
    BY <1>6, EventKinds DEF NoNew, sessionVars
  <2>2. StaysOut({"revoke", "reissue"})
    BY <1>6, MiddlewareMoves, MoveStaysOut
  <2> QED
    BY <2>1, <2>2, RefreshKept
<1>7. ASSUME NEW q \in Request, Breaks(q), UNCHANGED <<event, sessionVars>>
      PROVE  RefreshInv'
  <2>1. NoNew("refresh") /\ UNCHANGED refreshTokens
    BY <1>7 DEF NoNew, sessionVars
  <2>2. StaysOut({"revoke", "reissue"})
    BY <1>7, BreaksMoves, MoveStaysOut DEF Ended
  <2> QED
    BY <2>1, <2>2, RefreshKept
<1>8. CASE UNCHANGED <<request, event, refreshTokens>>
  BY <1>8, SameStaysOut, RefreshKept
<1> QED
  BY <1>1, <1>2, <1>3, <1>4, <1>5, <1>6, <1>7, <1>8, FindRefreshTokenStep, RevokeFoundStep
     DEF Next, SessionRequest, Refresh, GC, Reap, vars, sessionVars

-----------------------------------------------------------------------------
(* Password reset tokens.                                                   *)

\* A step without a reset in it leaves ResetInv as it is.
LEMMA ResetKept ==
    ASSUME ResetInv, StaysOut({"setPassword", "markUsed"}), UNCHANGED resetTokens,
           NoNew("reset")
    PROVE  ResetInv'
<1>1. \A i : Over(i) => Over(i)'
  BY OverStays
<1>2. \A e \in event' : e.what = "reset" => e \in event
  BY DEF NoNew
<1>4. (\A t \in resetTokens : Over(t.by))'
  BY <1>1 DEF ResetInv
<1>5. ASSUME NEW e \in event', e.what = "reset"
      PROVE  Over(e.token)' /\ \A t \in resetTokens' : t.by = e.token => t.used
  BY <1>1, <1>2, <1>5 DEF ResetInv
<1>6. ASSUME NEW q \in Request, request'[q].op \in {"setPassword", "markUsed"}
      PROVE  /\ Over(request[q].token.by)' /\ request'[q] = request[q]
             /\ \A e \in event' : e.what = "reset" /\ e.token = request[q].token.by =>
                  e.by \notin request[q].after
  <2>1. request'[q] = request[q] /\ Op(q) \in {"setPassword", "markUsed"}
    BY <1>6 DEF StaysOut, Op
  <2>2. /\ Over(request[q].token.by)
        /\ \A e \in event : e.what = "reset" /\ e.token = request[q].token.by =>
             e.by \notin request[q].after
    BY <2>1 DEF ResetInv
  <2>3. Over(request[q].token.by)'
    BY <1>1, <2>1, <2>2 DEF Over
  <2> QED
    BY <1>2, <2>1, <2>2, <2>3
<1>7. \A e, f \in event' : e.what = "reset" /\ f.what = "reset" =>
         (e.token = f.token /\ e # f => e.by \notin f.after)
  BY <1>2 DEF ResetInv
<1> QED
  BY <1>4, <1>5, <1>6, <1>7 DEF ResetInv, Op, Over

\* A token that was found valid has not been used up.
LEMMA FindResetTokenStep ==
    ASSUME TypeInv, ResetInv, NEW q \in Request, FindResetToken(q)
    PROVE  ResetInv'
<1>a. RequestsOK
  BY DEF TypeInv
<1>1. PICK t \in ValidResetTokens, pw \in Password :
        Begins(q, "confirmReset", [op |-> "setPassword", token |-> t, password |-> pw,
                                   after |-> Finished])
  BY DEF FindResetToken
<1>2. UNCHANGED <<event, resetTokens>>
  BY DEF FindResetToken, sessionVars
<1>3. Moves(q, [op |-> "setPassword", token |-> t, password |-> pw, after |-> Finished])
  BY <1>a, <1>1, BeginsMoves
<1>4. \A i : Over(i) => Over(i)'
  BY <1>3, MoveKeepsOver
<1>5. request'[q] = [op |-> "setPassword", token |-> t, password |-> pw, after |-> Finished]
      /\ \A p \in Request : p # q => request'[p] = request[p]
  BY <1>3 DEF Moves
<1>6. t \in resetTokens /\ ~t.used
  BY DEF ValidResetTokens
<1>7. Over(t.by)' /\ \A e \in event : e.what = "reset" => e.token # t.by
  <2>1. Over(t.by)
    BY <1>6 DEF ResetInv
  <2>2. \A e \in event : e.what = "reset" => e.token # t.by
    BY <1>6 DEF ResetInv
  <2> QED
    BY <1>4, <2>1, <2>2
<1>8. ASSUME NEW p \in Request, request'[p].op \in {"setPassword", "markUsed"}
      PROVE  /\ Over(request[p].token.by)'
             /\ \A e \in event : e.what = "reset" /\ e.token = request'[p].token.by =>
                  e.by \notin request'[p].after
  <2>1. CASE p = q
    BY <1>5, <1>7, <2>1
  <2>2. CASE p # q
    <3>1. request'[p] = request[p] /\ Op(p) \in {"setPassword", "markUsed"}
      BY <1>5, <1>8, <2>2 DEF Op
    <3>2. Over(request[p].token.by)
      BY <3>1 DEF ResetInv
    <3>3. Over(request[p].token.by)'
      BY <1>4, <3>1, <3>2 DEF Over
    <3> QED
      BY <3>1, <3>3 DEF ResetInv, Op
  <2> QED
    BY <2>1, <2>2
<1>9. \A u \in resetTokens : Over(u.by)'
  BY <1>4 DEF ResetInv
<1>10. \A e \in event : e.what = "reset" => Over(e.token)'
  BY <1>4 DEF ResetInv
<1> QED
  BY <1>2, <1>8, <1>9, <1>10 DEF ResetInv, Op

\* The password changes while the token is still valid.
LEMMA SetPasswordStep ==
    ASSUME TypeInv, ResetInv, NEW q \in Request, SetPassword(q)
    PROVE  ResetInv'
<1>a. RequestsOK
  BY DEF TypeInv
<1>b. request[q] \in ResetRequest /\ Op(q) = "setPassword"
  BY <1>a DEF SetPassword, Goes, RequestsOK, RequestOK, Op
<1>1. Moves(q, [request[q] EXCEPT !.op = "markUsed"]) /\ UNCHANGED <<event, resetTokens>>
  BY <1>a, GoesMoves DEF SetPassword
<1>2. /\ request'[q].op = "markUsed" /\ request'[q].token = request[q].token
      /\ request'[q].after = request[q].after
      /\ \A p \in Request : p # q => request'[p] = request[p]
  BY <1>b, <1>1 DEF Moves, ResetRequest
<1>3. \A i : Over(i) => Over(i)'
  BY <1>1, MoveKeepsOver
<1>4. /\ \A u \in resetTokens : Over(u.by)'
      /\ \A e \in event : e.what = "reset" => Over(e.token)'
  BY <1>3 DEF ResetInv
<1>5. ASSUME NEW p \in Request, request'[p].op \in {"setPassword", "markUsed"}
      PROVE  /\ Over(request[p].token.by)'
             /\ \A e \in event : e.what = "reset" /\ e.token = request'[p].token.by =>
                  e.by \notin request'[p].after
  <2>1. /\ Op(p) \in {"setPassword", "markUsed"} /\ request'[p].token = request[p].token
        /\ request'[p].after = request[p].after
    BY <1>b, <1>2, <1>5 DEF Op
  <2>2. /\ Over(request[p].token.by)
        /\ \A e \in event : e.what = "reset" /\ e.token = request[p].token.by =>
             e.by \notin request[p].after
    BY <2>1 DEF ResetInv
  <2>3. Over(request[p].token.by)'
    BY <1>3, <2>1, <2>2 DEF Over
  <2> QED
    BY <2>1, <2>2, <2>3
<1> QED
  BY <1>1, <1>4, <1>5 DEF ResetInv, Op

\* What MarkUsed makes of the rows.
LEMMA MarkUsedResult ==
    ASSUME TokensOK, NEW i, MarkUsed(i)
    PROVE  \A u \in resetTokens' : \E t \in resetTokens :
             u.by = t.by /\ (t.by = i => u.used) /\ (t.used => u.used)
<1> SUFFICES ASSUME NEW u \in resetTokens'
             PROVE  \E t \in resetTokens :
                      u.by = t.by /\ (t.by = i => u.used) /\ (t.used => u.used)
  OBVIOUS
<1>1. PICK t \in resetTokens : u = IF t.by = i THEN [t EXCEPT !.used = TRUE] ELSE t
  BY DEF MarkUsed
<1>2. t \in PasswordResetToken
  BY DEF TokensOK
<1> QED
  BY <1>1, <1>2 DEF PasswordResetToken

\* A request that ends with a token marked, and says so; whoever still has
\* the token in hand began before that.
LEMMA MarkFoundStep ==
    ASSUME TypeInv, AfterIsOver, ResetInv, NEW q \in Request, MarkFound(q)
    PROVE  ResetInv'
<1> DEFINE i == request[q].token.by
           f == [what |-> "reset", by |-> q, token |-> i, after |-> request[q].after]
<1>a. RequestsOK /\ TokensOK
  BY DEF TypeInv
<1>0. Moves(q, Ended) /\ Op(q) = "markUsed"
  BY <1>a, GoesMoves DEF MarkFound
<1>1. event' = event \cup {f}
  BY DEF MarkFound
<1>2. \A j : Over(j) => Over(j)' /\ j # q
  BY <1>0, MoveKeepsOver
<1>3. /\ request'[q] = Ended /\ Op(q) # "ended"
      /\ \A p \in Request : p # q => request'[p] = request[p]
  BY <1>0 DEF Moves
<1>4. f.what = "reset" /\ f.by = q /\ f.token = i /\ f.after = request[q].after
  OBVIOUS
<1>5. Over(i) /\ \A e \in event : e.what = "reset" /\ e.token = i => e.by \notin request[q].after
  BY <1>0 DEF ResetInv
<1>6. \A u \in resetTokens' : \E t \in resetTokens :
        u.by = t.by /\ (t.by = i => u.used) /\ (t.used => u.used)
  BY <1>a, MarkUsedResult DEF MarkFound
<1> HIDE DEF f, i
<1>7. \A u \in resetTokens' : Over(u.by)'
  BY <1>2, <1>6 DEF ResetInv
<1>8. ASSUME NEW e \in event', e.what = "reset"
      PROVE  Over(e.token)' /\ \A u \in resetTokens' : u.by = e.token => u.used
  <2>1. CASE e \in event
    BY <1>2, <1>6, <1>8, <2>1 DEF ResetInv
  <2>2. CASE e = f
    BY <1>2, <1>4, <1>5, <1>6, <2>2
  <2> QED
    BY <1>1, <2>1, <2>2
<1>9. ASSUME NEW p \in Request, request'[p].op \in {"setPassword", "markUsed"}
      PROVE  /\ Over(request[p].token.by)' /\ request'[p] = request[p]
             /\ \A e \in event' : e.what = "reset" /\ e.token = request[p].token.by =>
                  e.by \notin request[p].after
  <2>1. request'[p] = request[p] /\ Op(p) \in {"setPassword", "markUsed"} /\ p # q
    BY <1>3, <1>9 DEF Op, Ended
  <2>2. /\ Over(request[p].token.by)
        /\ \A e \in event : e.what = "reset" /\ e.token = request[p].token.by =>
             e.by \notin request[p].after
    BY <2>1 DEF ResetInv
  <2>3. q \notin request[p].after
    BY <1>3, <2>1 DEF AfterIsOver, Recalling
  <2>4. Over(request[p].token.by)'
    BY <1>2, <2>1, <2>2 DEF Over
  <2> QED
    BY <1>1, <1>4, <2>1, <2>2, <2>3, <2>4
<1>10. ASSUME NEW d \in event', NEW e \in event', d.what = "reset", e.what = "reset",
              d.token = e.token, d # e
       PROVE  d.by \notin e.after
  <2>1. CASE d \in event /\ e \in event
    BY <1>10, <2>1 DEF ResetInv
  <2>2. CASE d = f /\ e \in event
    BY <1>3, <1>4, <1>10, <2>2 DEF AfterIsOver
  <2>3. CASE d \in event /\ e = f
    BY <1>4, <1>5, <1>10, <2>3
  <2> QED
    BY <1>1, <1>10, <2>1, <2>2, <2>3
<1> QED
  BY <1>7, <1>8, <1>9, <1>10 DEF ResetInv, Op, Over

\* A new token is nobody's yet.
LEMMA CreateResetTokenStep ==
    ASSUME TypeInv, ResetInv, NEW q \in Request, CreateResetToken(q)
    PROVE  ResetInv'
<1>a. RequestsOK
  BY DEF TypeInv
<1>1. Moves(q, Ended) /\ UNCHANGED event
  BY <1>a, GoesMoves DEF CreateResetToken
<1>2. PICK x : x.by = q /\ resetTokens' = resetTokens \cup {x}
  BY DEF CreateResetToken, InsertResetToken
<1>3. \A j : Over(j) => Over(j)' /\ j # q
  BY <1>1, MoveKeepsOver
<1>4. request'[q] = Ended /\ \A p \in Request : p # q => request'[p] = request[p]
  BY <1>1 DEF Moves
<1>5. \A t \in resetTokens' : Over(t.by)'
  <2>1. Over(q)'
    BY <1>4 DEF Over, Op, Ended
  <2> QED
    BY <1>2, <1>3, <2>1 DEF ResetInv
<1>6. ASSUME NEW e \in event, e.what = "reset"
      PROVE  Over(e.token)' /\ \A t \in resetTokens' : t.by = e.token => t.used
  BY <1>2, <1>3, <1>6 DEF ResetInv
<1>7. ASSUME NEW p \in Request, request'[p].op \in {"setPassword", "markUsed"}
      PROVE  /\ Over(request[p].token.by)' /\ request'[p] = request[p]
             /\ \A e \in event : e.what = "reset" /\ e.token = request[p].token.by =>
                  e.by \notin request[p].after
  <2>1. request'[p] = request[p] /\ Op(p) \in {"setPassword", "markUsed"}
    BY <1>4, <1>7 DEF Op, Ended
  <2>2. /\ Over(request[p].token.by)
        /\ \A e \in event : e.what = "reset" /\ e.token = request[p].token.by =>
             e.by \notin request[p].after
    BY <2>1 DEF ResetInv
  <2>3. Over(request[p].token.by)'
    BY <1>3, <2>1, <2>2 DEF Over
  <2> QED
    BY <2>1, <2>2, <2>3
<1> QED
  BY <1>1, <1>5, <1>6, <1>7 DEF ResetInv, Op, Over

\* Every step preserves ResetInv.
LEMMA ResetStep ==
    ASSUME TypeInv, AfterIsOver, ResetInv, [Next]_vars
    PROVE  ResetInv'
<1>a. RequestsOK
  BY DEF TypeInv
<1>1. ASSUME NEW q \in Request, Login(q)
      PROVE  ResetInv'
  <2>1. NoNew("reset") /\ UNCHANGED resetTokens
    BY <1>1, LoginMoves, EventKinds DEF NoNew
  <2>2. StaysOut({"setPassword", "markUsed"})
    BY <1>1, LoginMoves, MoveStaysOut
  <2> QED
    BY <2>1, <2>2, ResetKept
<1>2. ASSUME NEW q \in Request, Refresh(q)
      PROVE  ResetInv'
  <2>1. NoNew("reset") /\ UNCHANGED resetTokens
    BY <1>2, RefreshMoves, EventKinds DEF NoNew
  <2>2. StaysOut({"setPassword", "markUsed"})
    BY <1>2, RefreshMoves, MoveStaysOut
  <2> QED
    BY <2>1, <2>2, ResetKept
<1>3. ASSUME NEW q \in Request, FindUser(q)
      PROVE  ResetInv'
  <2>1. NoNew("reset") /\ UNCHANGED resetTokens
    BY <1>3 DEF NoNew, FindUser, sessionVars
  <2>2. StaysOut({"setPassword", "markUsed"})
    BY <1>3, RequestResetMoves, MoveStaysOut DEF RequestReset
  <2> QED
    BY <2>1, <2>2, ResetKept
<1>5. ASSUME NEW q \in Request, CreateUser(q)
      PROVE  ResetInv'
  <2>1. NoNew("reset") /\ UNCHANGED resetTokens
    BY <1>5, CreateUserMoves, EventKinds DEF NoNew
  <2>2. StaysOut({"setPassword", "markUsed"})
    BY <1>5, CreateUserMoves, MoveStaysOut
  <2> QED
    BY <2>1, <2>2, ResetKept
<1>6. ASSUME NEW q \in Request, Middleware(q), UNCHANGED sessionVars
      PROVE  ResetInv'
  <2>1. NoNew("reset") /\ UNCHANGED resetTokens
    BY <1>6, EventKinds DEF NoNew, sessionVars
  <2>2. StaysOut({"setPassword", "markUsed"})
    BY <1>6, MiddlewareMoves, MoveStaysOut
  <2> QED
    BY <2>1, <2>2, ResetKept
<1>7. ASSUME NEW q \in Request, Breaks(q), UNCHANGED <<event, sessionVars>>
      PROVE  ResetInv'
  <2>1. NoNew("reset") /\ UNCHANGED resetTokens
    BY <1>7 DEF NoNew, sessionVars
  <2>2. StaysOut({"setPassword", "markUsed"})
    BY <1>7, BreaksMoves, MoveStaysOut DEF Ended
  <2> QED
    BY <2>1, <2>2, ResetKept
<1>8. CASE UNCHANGED <<request, event, resetTokens>>
  BY <1>8, SameStaysOut, ResetKept
<1> QED
  BY <1>1, <1>2, <1>3, <1>5, <1>6, <1>7, <1>8, FindResetTokenStep, SetPasswordStep,
     MarkFoundStep, CreateResetTokenStep
     DEF Next, SessionRequest, RequestReset, ConfirmReset, GC, Reap, vars, sessionVars

-----------------------------------------------------------------------------
(* Users, and the bootstrap of the first one.                               *)

\* A step that creates no user leaves UserInv as it is.
LEMMA UserKept ==
    ASSUME UserInv, StaysOut({"countUsers", "insertUser"}), users # {} => users' # {},
           NoNew("user")
    PROVE  UserInv'
<1>1. \A e \in event' : e.what = "user" => e \in event
  BY DEF NoNew
<1>2. \A e \in event' : e.what = "user" => users' # {}
  BY <1>1 DEF UserInv
<1>3. ASSUME NEW q \in Request, request'[q].op \in {"countUsers", "insertUser"},
             ~request'[q].authenticated
      PROVE  \A e \in event' : e.what = "user" => e.by \notin request'[q].after
  <2>1. request'[q] = request[q] /\ Op(q) \in {"countUsers", "insertUser"}
    BY <1>3 DEF StaysOut, Op
  <2> QED
    BY <1>1, <1>3, <2>1 DEF UserInv
<1>4. \A e, f \in event' : e.what = "user" /\ f.what = "user" =>
         (e # f /\ ~f.authenticated => e.by \notin f.after)
  BY <1>1 DEF UserInv
<1> QED
  BY <1>2, <1>3, <1>4 DEF UserInv, Op

\* The middleware lets a request without a token in only while there is no
\* user, and so before anybody has created one.
LEMMA AdmitCreateUserStep ==
    ASSUME TypeInv, UserInv, NEW q \in Request, AdmitCreateUser(q)
    PROVE  UserInv'
<1>a. RequestsOK
  BY DEF TypeInv
<1>1. PICK n \in Username, pw \in Password, a \in RequireAuthOrFirstUserBootstrap :
        Begins(q, "createUser", [op |-> "countUsers", name |-> n, password |-> pw,
                                 first |-> FALSE, authenticated |-> a, after |-> Finished])
  BY DEF AdmitCreateUser
<1>2. UNCHANGED <<event, users>>
  BY DEF AdmitCreateUser, sessionVars
<1>3. Moves(q, [op |-> "countUsers", name |-> n, password |-> pw, first |-> FALSE,
                authenticated |-> a, after |-> Finished])
  BY <1>a, <1>1, BeginsMoves
<1>4. /\ request'[q].authenticated = a
      /\ \A p \in Request : p # q => request'[p] = request[p]
  BY <1>3 DEF Moves
<1>5. ~a => users = {}
  BY DEF RequireAuthOrFirstUserBootstrap
<1>6. ASSUME NEW p \in Request, request'[p].op \in {"countUsers", "insertUser"},
             ~request'[p].authenticated
      PROVE  \A e \in event : e.what = "user" => e.by \notin request'[p].after
  <2>1. CASE p = q
    BY <1>4, <1>5, <1>6, <2>1 DEF UserInv
  <2>2. CASE p # q
    <3>1. request'[p] = request[p] /\ Op(p) \in {"countUsers", "insertUser"}
      BY <1>4, <1>6, <2>2 DEF Op
    <3> QED
      BY <1>6, <3>1 DEF UserInv
  <2> QED
    BY <2>1, <2>2
<1> QED
  BY <1>2, <1>6 DEF UserInv, Op

\* The count of the service does not change who was let in, and when.
LEMMA CountUsersStep ==
    ASSUME TypeInv, UserInv, NEW q \in Request, CountUsers(q)
    PROVE  UserInv'
<1>a. RequestsOK
  BY DEF TypeInv
<1>b. request[q] \in UserRequest /\ Op(q) = "countUsers"
  BY <1>a DEF CountUsers, Goes, RequestsOK, RequestOK, Op
<1>1. /\ Moves(q, [request[q] EXCEPT !.op = "insertUser", !.first = users = {}])
      /\ UNCHANGED <<event, users>>
  BY <1>a, GoesMoves DEF CountUsers, sessionVars
<1>2. /\ request'[q].authenticated = request[q].authenticated
      /\ request'[q].after = request[q].after
      /\ \A p \in Request : p # q => request'[p] = request[p]
  BY <1>b, <1>1 DEF Moves, UserRequest
<1>3. ASSUME NEW p \in Request, request'[p].op \in {"countUsers", "insertUser"},
             ~request'[p].authenticated
      PROVE  \A e \in event : e.what = "user" => e.by \notin request'[p].after
  <2>1. /\ Op(p) \in {"countUsers", "insertUser"} /\ ~request[p].authenticated
        /\ request'[p].after = request[p].after
    BY <1>b, <1>2, <1>3 DEF Op
  <2> QED
    BY <2>1 DEF UserInv
<1> QED
  BY <1>1, <1>3 DEF UserInv, Op

\* A user is stored: whoever was let in without a token did not begin after
\* that, and neither did this request if it was.
LEMMA StoreUserStep ==
    ASSUME TypeInv, AfterIsOver, UserInv, NEW q \in Request, StoreUser(q)
    PROVE  UserInv'
<1> DEFINE f == [what |-> "user", by |-> q, first |-> request[q].first,
                 authenticated |-> request[q].authenticated, after |-> request[q].after]
<1>a. RequestsOK
  BY DEF TypeInv
<1>b. Op(q) = "insertUser"
  BY DEF StoreUser, Goes, Op
<1>1. Moves(q, request'[q]) /\ request'[q].op \notin {"countUsers", "insertUser"}
  <2>1. PICK x : /\ x = Ended \/ x = [op |-> "bootstrapOrg", name |-> request[q].name]
                 /\ Goes(q, "insertUser", x)
    BY DEF StoreUser
  <2>2. Moves(q, x)
    BY <1>a, <2>1, GoesMoves
  <2>3. request'[q] = x
    BY <2>2 DEF Moves
  <2> QED
    BY <2>1, <2>2, <2>3 DEF Ended
<1>2. users' # {}
  <2>1. CASE \E u \in users : u.name = request[q].name
    BY <2>1 DEF StoreUser, InsertUser
  <2>2. CASE ~\E u \in users : u.name = request[q].name
    BY <2>2 DEF StoreUser, InsertUser
  <2> QED
    BY <2>1, <2>2
<1>3. \A e \in event' : e \in event \/ e = f
  BY DEF StoreUser
<1>4. /\ f.by = q /\ f.authenticated = request[q].authenticated
      /\ f.after = request[q].after
  OBVIOUS
<1>5. ~request[q].authenticated =>
        \A e \in event : e.what = "user" => e.by \notin request[q].after
  BY <1>b DEF UserInv
<1>6. Op(q) # "ended" /\ \A p \in Request : p # q => request'[p] = request[p]
  BY <1>1 DEF Moves
<1> HIDE DEF f
<1>7. ASSUME NEW p \in Request, request'[p].op \in {"countUsers", "insertUser"},
             ~request'[p].authenticated
      PROVE  \A e \in event' : e.what = "user" => e.by \notin request'[p].after
  <2>1. request'[p] = request[p] /\ Op(p) \in {"countUsers", "insertUser"}
    BY <1>1, <1>6, <1>7 DEF Op
  <2>2. q \notin request[p].after
    BY <1>6, <2>1 DEF AfterIsOver, Recalling
  <2>3. \A e \in event : e.what = "user" => e.by \notin request[p].after
    BY <1>7, <2>1 DEF UserInv
  <2> QED
    BY <1>3, <1>4, <2>1, <2>2, <2>3
<1>8. ASSUME NEW d \in event', NEW e \in event', d.what = "user", e.what = "user",
             d # e, ~e.authenticated
      PROVE  d.by \notin e.after
  <2>1. CASE d \in event /\ e \in event
    BY <1>8, <2>1 DEF UserInv
  <2>2. CASE d = f /\ e \in event
    BY <1>4, <1>6, <1>8, <2>2 DEF AfterIsOver
  <2>3. CASE d \in event /\ e = f
    BY <1>4, <1>5, <1>8, <2>3
  <2> QED
    BY <1>3, <1>8, <2>1, <2>2, <2>3
<1> QED
  BY <1>2, <1>7, <1>8 DEF UserInv, Op

\* Every step preserves UserInv.
LEMMA UserStep ==
    ASSUME TypeInv, AfterIsOver, UserInv, [Next]_vars
    PROVE  UserInv'
<1>a. RequestsOK
  BY DEF TypeInv
<1>1. ASSUME NEW q \in Request, Login(q)
      PROVE  UserInv'
  <2>1. NoNew("user") /\ UNCHANGED users
    BY <1>1, LoginMoves, EventKinds DEF NoNew
  <2>2. StaysOut({"countUsers", "insertUser"})
    BY <1>1, LoginMoves, MoveStaysOut
  <2> QED
    BY <2>1, <2>2, UserKept
<1>2. ASSUME NEW q \in Request, Refresh(q)
      PROVE  UserInv'
  <2>1. NoNew("user") /\ UNCHANGED users
    BY <1>2, RefreshMoves, EventKinds DEF NoNew
  <2>2. StaysOut({"countUsers", "insertUser"})
    BY <1>2, RefreshMoves, MoveStaysOut
  <2> QED
    BY <2>1, <2>2, UserKept
<1>3. ASSUME NEW q \in Request, RequestReset(q)
      PROVE  UserInv'
  <2>1. NoNew("user") /\ UNCHANGED users
    BY <1>3, RequestResetMoves DEF NoNew
  <2>2. StaysOut({"countUsers", "insertUser"})
    BY <1>3, RequestResetMoves, MoveStaysOut
  <2> QED
    BY <2>1, <2>2, UserKept
<1>4. ASSUME NEW q \in Request, ConfirmReset(q)
      PROVE  UserInv'
  <2>1. NoNew("user")
    BY <1>4, EventKinds DEF NoNew
  <2>2. users # {} => users' # {}
    <3>1. CASE SetPassword(q)
      BY <3>1 DEF SetPassword, UpdatePasswordHash
    <3> QED
      BY <1>4, <3>1 DEF ConfirmReset, FindResetToken, MarkFound, sessionVars
  <2>3. StaysOut({"countUsers", "insertUser"})
    BY <1>4, ConfirmResetMoves, MoveStaysOut
  <2> QED
    BY <2>1, <2>2, <2>3, UserKept
<1>5. ASSUME NEW q \in Request, BootstrapOrganization(q)
      PROVE  UserInv'
  <2>1. NoNew("user") /\ UNCHANGED users
    BY <1>5 DEF NoNew, BootstrapOrganization
  <2>2. Moves(q, Ended)
    BY <1>a, <1>5, GoesMoves DEF BootstrapOrganization
  <2>3. StaysOut({"countUsers", "insertUser"})
    BY <2>2, MoveStaysOut DEF Moves, Ended
  <2> QED
    BY <2>1, <2>3, UserKept
<1>6. ASSUME NEW q \in Request, Middleware(q), UNCHANGED sessionVars
      PROVE  UserInv'
  <2>1. NoNew("user") /\ UNCHANGED users
    BY <1>6, EventKinds DEF NoNew, sessionVars
  <2>2. StaysOut({"countUsers", "insertUser"})
    BY <1>6, MiddlewareMoves, MoveStaysOut
  <2> QED
    BY <2>1, <2>2, UserKept
<1>7. ASSUME NEW q \in Request, Breaks(q), UNCHANGED <<event, sessionVars>>
      PROVE  UserInv'
  <2>1. NoNew("user") /\ UNCHANGED users
    BY <1>7 DEF NoNew, sessionVars
  <2>2. StaysOut({"countUsers", "insertUser"})
    BY <1>7, BreaksMoves, MoveStaysOut DEF Ended
  <2> QED
    BY <2>1, <2>2, UserKept
<1>8. CASE UNCHANGED <<request, event, users>>
  BY <1>8, SameStaysOut, UserKept
<1> QED
  BY <1>1, <1>2, <1>3, <1>4, <1>5, <1>6, <1>7, <1>8, AdmitCreateUserStep, CountUsersStep,
     StoreUserStep
     DEF Next, SessionRequest, CreateUser, GC, Reap, vars, sessionVars

-----------------------------------------------------------------------------
(* Idempotency keys.                                                        *)

KeyKinds == {"effect", "save", "replay"}

\* A step that is none of the middleware's: at most a request breaks off,
\* time passes or rows are deleted whose window is over.
KeyQuiet ==
    /\ \A p \in Request :
         \/ request'[p] = request[p]
         \/ /\ Op(p) # "ended" /\ request'[p].op \notin {"next", "save"}
            /\ Op(p) = "save" => request'[p].op = "ended"
    /\ event \subseteq event'
    /\ \A e \in event' : e.what \in KeyKinds => e \in event
    /\ keys' \subseteq keys
    /\ \A x \in keys : x \in keys' \/ x.createdAt + Window <= now
    /\ now' \in Nat /\ now <= now'

\* Such a step leaves the invariants of the keys as they are.
LEMMA KeysKept ==
    ASSUME TypeInv, EffectInv, RowInv, WaitInv, KeyQuiet
    PROVE  EffectInv' /\ RowInv' /\ WaitInv'
<1> USE RequestAssumption, IdempotencyAssumption
<1>a. now \in Nat /\ now' \in Nat /\ now <= now' /\ Window \in Nat
  BY DEF TypeInv, KeyQuiet
<1>b. \A x \in keys : x.createdAt \in Nat
  BY DEF TypeInv, KeysOK, CachedResponse
<1>1. \A e \in event' : e.what \in KeyKinds => e \in event
  BY DEF KeyQuiet
<1>2. event \subseteq event'
  BY DEF KeyQuiet
<1>3. ASSUME NEW p \in Request
      PROVE  /\ request'[p].op \in {"next", "save"} => request'[p] = request[p]
             /\ Op(p) = "ended" => request'[p].op = "ended"
             /\ Op(p) \in {"save", "ended"} => request'[p].op \in {"save", "ended"}
  BY DEF KeyQuiet, Op
<1>4. EffectInv'
  <2>1. ASSUME NEW e \in event', e.what = "effect"
        PROVE  /\ e.by \in Request /\ request'[e.by].op \in {"save", "ended"}
               /\ request'[e.by].op = "save" =>
                    e.caller = request'[e.by].caller /\ e.key = request'[e.by].key
    <3>1. e \in event /\ e.by \in Request /\ Op(e.by) \in {"save", "ended"}
      BY <1>1, <2>1 DEF KeyKinds, EffectInv
    <3>2. Op(e.by) = "save" => e.caller = request[e.by].caller /\ e.key = request[e.by].key
      BY <2>1, <3>1 DEF EffectInv
    <3> QED
      BY <1>3, <3>1, <3>2 DEF Op
  <2>2. ASSUME NEW p \in Request, request'[p].op = "save"
        PROVE  \E e \in event' : /\ e.what = "effect" /\ e.by = p
                                 /\ e.caller = request'[p].caller /\ e.key = request'[p].key
    <3>1. request'[p] = request[p] /\ Op(p) = "save"
      BY <1>3, <2>2 DEF Op
    <3> QED
      BY <1>2, <3>1 DEF EffectInv
  <2> QED
    BY <2>1, <2>2 DEF EffectInv, Op
<1>5. RowInv'
  <2>1. ASSUME NEW x \in keys'
        PROVE  /\ x.createdAt <= now'
               /\ \E e \in event' : /\ e.what = "effect" /\ e.by = x.by
                                    /\ e.caller = x.caller /\ e.key = x.key
               /\ \E s \in event' : s.what = "save" /\ s.by = x.by /\ s.at = x.createdAt
    <3>1. x \in keys
      BY <2>1 DEF KeyQuiet
    <3>2. x.createdAt <= now'
      BY <1>a, <1>b, <3>1 DEF RowInv
    <3> QED
      BY <1>2, <3>1, <3>2 DEF RowInv
  <2>2. ASSUME NEW s \in event', s.what = "save"
        PROVE  /\ s.at \in Nat /\ s.by \in Request /\ request'[s.by].op = "ended"
               /\ \A e \in event' : e.what = "effect" /\ e.by = s.by =>
                    \/ s.at + Window <= now'
                    \/ \E x \in keys' : /\ x.caller = e.caller /\ x.key = e.key
                                        /\ x.createdAt = s.at
    <3>1. s \in event /\ s.at \in Nat /\ s.by \in Request /\ Op(s.by) = "ended"
      BY <1>1, <2>2 DEF KeyKinds, RowInv
    <3>2. request'[s.by].op = "ended"
      BY <1>3, <3>1
    <3>3. ASSUME NEW e \in event', e.what = "effect", e.by = s.by, ~(s.at + Window <= now')
          PROVE  \E x \in keys' : x.caller = e.caller /\ x.key = e.key /\ x.createdAt = s.at
      <4>1. e \in event /\ ~(s.at + Window <= now)
        BY <1>1, <1>a, <3>1, <3>3 DEF KeyKinds
      <4>2. PICK x \in keys : x.caller = e.caller /\ x.key = e.key /\ x.createdAt = s.at
        BY <2>2, <3>1, <3>3, <4>1 DEF RowInv
      <4>3. x \in keys'
        BY <4>1, <4>2 DEF KeyQuiet
      <4> QED
        BY <4>2, <4>3
    <3> QED
      BY <3>1, <3>2, <3>3
  <2> QED
    BY <2>1, <2>2 DEF RowInv, Op
<1>6. WaitInv'
  <2>1. ASSUME NEW p \in Request, request'[p].op \in {"next", "save"},
               NEW e \in event', NEW s \in event', e.what = "effect",
               e.caller = request'[p].caller, e.key = request'[p].key,
               e.by \in request'[p].after, s.what = "save", s.by = e.by
        PROVE  request'[p].at >= s.at + Window
    <3>1. request'[p] = request[p] /\ Op(p) \in {"next", "save"}
      BY <1>3, <2>1 DEF Op
    <3>2. e \in event /\ s \in event
      BY <1>1, <2>1 DEF KeyKinds
    <3> QED
      BY <2>1, <3>1, <3>2 DEF WaitInv
  <2>2. SavedKeyHasNoSecondEffect'
    BY <1>1 DEF WaitInv, SavedKeyHasNoSecondEffect, KeyKinds
  <2>3. ReplayIsOwnAndRecent'
    BY <1>1, <1>2 DEF WaitInv, ReplayIsOwnAndRecent, KeyKinds
  <2> QED
    BY <2>1, <2>2, <2>3 DEF WaitInv, Op
<1> QED
  BY <1>4, <1>5, <1>6

\* The lookup found a fresh row, and replays it, or none: then the window of
\* every answer that was saved before has passed.
LEMMA LookUpKeyStep ==
    ASSUME TypeInv, EffectInv, RowInv, WaitInv, NEW q \in Request, LookUpKey(q)
    PROVE  EffectInv' /\ RowInv' /\ WaitInv'
<1> USE RequestAssumption, IdempotencyAssumption
<1>a. RequestsOK /\ now \in Nat /\ Window \in Nat
  BY DEF TypeInv
<1>b. \A x \in keys : x.createdAt \in Nat
  BY DEF TypeInv, KeysOK, CachedResponse
<1>1. PICK c \in Caller, k \in Key :
        /\ Begins(q, "trigger", IF Get(c, k) # {} THEN Ended
                                ELSE [op |-> "next", caller |-> c, key |-> k, at |-> now,
                                      after |-> Finished])
        /\ event' = event \cup {[what |-> "replay", by |-> q, caller |-> c, key |-> k,
                                 of |-> x.by, at |-> now] : x \in Get(c, k)}
  BY DEF LookUpKey
<1>2. UNCHANGED <<now, keys>>
  BY DEF LookUpKey
<1>3. Moves(q, IF Get(c, k) # {} THEN Ended
               ELSE [op |-> "next", caller |-> c, key |-> k, at |-> now,
                     after |-> Finished]) /\ Op(q) = "idle"
  BY <1>a, <1>1, BeginsMoves
<1>4. /\ request'[q] = IF Get(c, k) # {} THEN Ended
                       ELSE [op |-> "next", caller |-> c, key |-> k, at |-> now,
                             after |-> Finished]
      /\ \A p \in Request : p # q => request'[p] = request[p]
  BY <1>3 DEF Moves
<1>5. ASSUME request'[q].op \in {"next", "save"}
      PROVE  /\ Get(c, k) = {} /\ request'[q].op = "next" /\ request'[q].caller = c
             /\ request'[q].key = k /\ request'[q].at = now
  BY <1>4, <1>5 DEF Ended
<1>6. \A e \in event' :
        \/ e \in event
        \/ \E x \in Get(c, k) : e = [what |-> "replay", by |-> q, caller |-> c, key |-> k,
                                     of |-> x.by, at |-> now]
  BY <1>1
<1>7. \A e \in event' : e.what # "replay" => e \in event
  BY <1>6
<1>8. event \subseteq event'
  BY <1>1
<1>9. EffectInv'
  <2>1. ASSUME NEW e \in event, e.what = "effect"
        PROVE  e.by \in Request /\ Op(e.by) \in {"save", "ended"} /\ request'[e.by] = request[e.by]
    <3>1. e.by \in Request /\ Op(e.by) \in {"save", "ended"}
      BY <2>1 DEF EffectInv
    <3> QED
      BY <1>3, <1>4, <3>1
  <2>2. ASSUME NEW p \in Request, request'[p].op = "save"
        PROVE  \E e \in event' : /\ e.what = "effect" /\ e.by = p
                                 /\ e.caller = request'[p].caller /\ e.key = request'[p].key
    <3>1. request'[p] = request[p] /\ Op(p) = "save"
      BY <1>4, <1>5, <2>2 DEF Op
    <3>2. \E e \in event : /\ e.what = "effect" /\ e.by = p
                           /\ e.caller = request[p].caller /\ e.key = request[p].key
      BY <3>1 DEF EffectInv
    <3> QED
      BY <1>8, <3>1, <3>2
  <2>3. ASSUME NEW e \in event', e.what = "effect"
        PROVE  /\ e.by \in Request /\ request'[e.by].op \in {"save", "ended"}
               /\ request'[e.by].op = "save" =>
                    e.caller = request'[e.by].caller /\ e.key = request'[e.by].key
    BY <1>7, <2>1, <2>3 DEF EffectInv, Op
  <2> QED
    BY <2>2, <2>3 DEF EffectInv, Op
<1>10. RowInv'
  <2>1. ASSUME NEW x \in keys
        PROVE  /\ x.createdAt <= now
               /\ \E e \in event' : /\ e.what = "effect" /\ e.by = x.by
                                    /\ e.caller = x.caller /\ e.key = x.key
               /\ \E s \in event' : s.what = "save" /\ s.by = x.by /\ s.at = x.createdAt
    BY <1>8 DEF RowInv
  <2>2. ASSUME NEW s \in event', s.what = "save"
        PROVE  /\ s.at \in Nat /\ s.by \in Request /\ request'[s.by].op = "ended"
               /\ \A e \in event' : e.what = "effect" /\ e.by = s.by =>
                    \/ s.at + Window <= now
                    \/ \E x \in keys : /\ x.caller = e.caller /\ x.key = e.key
                                       /\ x.createdAt = s.at
    <3>1. s \in event /\ s.at \in Nat /\ s.by \in Request /\ Op(s.by) = "ended"
      BY <1>7, <2>2 DEF RowInv
    <3>2. request'[s.by].op = "ended"
      BY <1>3, <1>4, <3>1 DEF Op
    <3>3. \A e \in event : e.what = "effect" /\ e.by = s.by =>
             \/ s.at + Window <= now
             \/ \E x \in keys : /\ x.caller = e.caller /\ x.key = e.key
                                /\ x.createdAt = s.at
      BY <2>2, <3>1 DEF RowInv
    <3> QED
      BY <1>7, <3>1, <3>2, <3>3
  <2> QED
    BY <1>2, <2>1, <2>2 DEF RowInv, Op
<1>11. WaitInv'
  <2>1. ASSUME NEW p \in Request, request'[p].op \in {"next", "save"},
               NEW e \in event', NEW s \in event', e.what = "effect",
               e.caller = request'[p].caller, e.key = request'[p].key,
               e.by \in request'[p].after, s.what = "save", s.by = e.by
        PROVE  request'[p].at >= s.at + Window
    <3>0. e \in event /\ s \in event
      BY <1>7, <2>1
    <3>1. CASE p = q
      <4>1. e.caller = c /\ e.key = k /\ Get(c, k) = {} /\ request'[p].at = now
        BY <1>5, <2>1, <3>1
      <4>2. \/ s.at + Window <= now
            \/ \E x \in keys : x.caller = c /\ x.key = k /\ x.createdAt = s.at
        BY <2>1, <3>0, <4>1 DEF RowInv
      <4>3. s.at \in Nat
        BY <2>1, <3>0 DEF RowInv
      <4>4. \A x \in keys : x.caller = c /\ x.key = k => ~(x.createdAt + Window > now)
        BY <4>1 DEF Get, Rows, Fresh
      <4>5. s.at + Window <= now
        BY <1>a, <1>b, <4>2, <4>3, <4>4
      <4> QED
        BY <1>a, <4>1, <4>3, <4>5
    <3>2. CASE p # q
      <4>1. request'[p] = request[p] /\ Op(p) \in {"next", "save"}
        BY <1>4, <2>1, <3>2 DEF Op
      <4> QED
        BY <2>1, <3>0, <4>1 DEF WaitInv
    <3> QED
      BY <3>1, <3>2
  <2>2. SavedKeyHasNoSecondEffect'
    BY <1>7 DEF WaitInv, SavedKeyHasNoSecondEffect
  <2>3. ASSUME NEW r \in event', r.what = "replay"
        PROVE  /\ \E e \in event' : /\ e.what = "effect" /\ e.by = r.of
                                    /\ e.caller = r.caller /\ e.key = r.key
               /\ \E s \in event' : /\ s.what = "save" /\ s.by = r.of
                                    /\ s.at <= r.at /\ r.at < s.at + Window
    <3>1. CASE r \in event
      BY <1>8, <2>3, <3>1 DEF WaitInv, ReplayIsOwnAndRecent
    <3>2. CASE r \notin event
      <4>1. PICK x \in Get(c, k) :
              r = [what |-> "replay", by |-> q, caller |-> c, key |-> k, of |-> x.by,
                   at |-> now]
        BY <1>6, <2>3, <3>2
      <4>2. r.caller = c /\ r.key = k /\ r.of = x.by /\ r.at = now
        BY <4>1
      <4>3. x \in keys /\ x.caller = c /\ x.key = k /\ x.createdAt + Window > now
        BY DEF Get, Rows, Fresh
      <4>4. \E e \in event : /\ e.what = "effect" /\ e.by = x.by
                             /\ e.caller = c /\ e.key = k
        BY <4>3 DEF RowInv
      <4>5. \E s \in event : s.what = "save" /\ s.by = x.by /\ s.at = x.createdAt
        BY <4>3 DEF RowInv
      <4>6. x.createdAt <= now /\ now < x.createdAt + Window
        BY <1>a, <1>b, <4>3 DEF RowInv
      <4> QED
        BY <1>8, <4>2, <4>4, <4>5, <4>6
    <3> QED
      BY <3>1, <3>2
  <2> QED
    BY <2>1, <2>2, <2>3 DEF WaitInv, ReplayIsOwnAndRecent, Op
<1> QED
  BY <1>9, <1>10, <1>11

\* The handler has its effect: nobody began after this request had ended.
LEMMA CallNextStep ==
    ASSUME TypeInv, AfterIsOver, EffectInv, RowInv, WaitInv, NEW q \in Request, CallNext(q)
    PROVE  EffectInv' /\ RowInv' /\ WaitInv'
<1> DEFINE f == [what |-> "effect", by |-> q, caller |-> request[q].caller,
                 key |-> request[q].key, at |-> request[q].at, after |-> request[q].after]
<1>a. RequestsOK
  BY DEF TypeInv
<1>b. request[q] \in TriggerRequest /\ Op(q) = "next"
  BY <1>a DEF CallNext, Goes, RequestsOK, RequestOK, Op
<1>1. Moves(q, [request[q] EXCEPT !.op = "save"]) /\ UNCHANGED <<now, keys>>
  BY <1>a, GoesMoves DEF CallNext
<1>2. /\ request'[q].op = "save" /\ request'[q].caller = request[q].caller
      /\ request'[q].key = request[q].key /\ request'[q].at = request[q].at
      /\ request'[q].after = request[q].after
      /\ \A p \in Request : p # q => request'[p] = request[p]
  BY <1>b, <1>1 DEF Moves, TriggerRequest
<1>3. event' = event \cup {f}
  BY DEF CallNext
<1>4. /\ f.what = "effect" /\ f.by = q /\ f.caller = request[q].caller
      /\ f.key = request[q].key /\ f.at = request[q].at /\ f.after = request[q].after
  OBVIOUS
<1> HIDE DEF f
<1>5. EffectInv'
  <2>1. ASSUME NEW e \in event', e.what = "effect"
        PROVE  /\ e.by \in Request /\ request'[e.by].op \in {"save", "ended"}
               /\ request'[e.by].op = "save" =>
                    e.caller = request'[e.by].caller /\ e.key = request'[e.by].key
    <3>1. CASE e \in event
      <4>1. e.by \in Request /\ Op(e.by) \in {"save", "ended"}
        BY <2>1, <3>1 DEF EffectInv
      <4>2. request'[e.by] = request[e.by]
        BY <1>b, <1>2, <4>1
      <4> QED
        BY <2>1, <3>1, <4>1, <4>2 DEF EffectInv, Op
    <3>2. CASE e = f
      BY <1>2, <1>4, <3>2
    <3> QED
      BY <1>3, <3>1, <3>2
  <2>2. ASSUME NEW p \in Request, request'[p].op = "save"
        PROVE  \E e \in event' : /\ e.what = "effect" /\ e.by = p
                                 /\ e.caller = request'[p].caller /\ e.key = request'[p].key
    <3>1. CASE p = q
      BY <1>2, <1>3, <1>4, <3>1
    <3>2. CASE p # q
      BY <1>2, <1>3, <2>2, <3>2 DEF EffectInv, Op
    <3> QED
      BY <3>1, <3>2
  <2> QED
    BY <2>1, <2>2 DEF EffectInv, Op
<1>6. RowInv'
  <2>1. ASSUME NEW x \in keys
        PROVE  /\ x.createdAt <= now
               /\ \E e \in event' : /\ e.what = "effect" /\ e.by = x.by
                                    /\ e.caller = x.caller /\ e.key = x.key
               /\ \E s \in event' : s.what = "save" /\ s.by = x.by /\ s.at = x.createdAt
    BY <1>3 DEF RowInv
  <2>2. ASSUME NEW s \in event', s.what = "save"
        PROVE  /\ s.at \in Nat /\ s.by \in Request /\ request'[s.by].op = "ended"
               /\ \A e \in event' : e.what = "effect" /\ e.by = s.by =>
                    \/ s.at + Window <= now
                    \/ \E x \in keys : /\ x.caller = e.caller /\ x.key = e.key
                                       /\ x.createdAt = s.at
    <3>1. s \in event /\ s.at \in Nat /\ s.by \in Request /\ Op(s.by) = "ended"
      BY <1>3, <1>4, <2>2 DEF RowInv
    <3>2. s.by # q /\ request'[s.by].op = "ended"
      BY <1>b, <1>2, <3>1 DEF Op
    <3>3. \A e \in event : e.what = "effect" /\ e.by = s.by =>
             \/ s.at + Window <= now
             \/ \E x \in keys : /\ x.caller = e.caller /\ x.key = e.key
                                /\ x.createdAt = s.at
      BY <2>2, <3>1 DEF RowInv
    <3> QED
      BY <1>3, <1>4, <3>1, <3>2, <3>3
  <2> QED
    BY <1>1, <2>1, <2>2 DEF RowInv, Op
<1>7. WaitInv'
  <2>0. ASSUME NEW s \in event', s.what = "save"
        PROVE  s \in event
    BY <1>3, <1>4, <2>0
  <2>1. ASSUME NEW p \in Request, request'[p].op \in {"next", "save"},
               NEW e \in event', NEW s \in event', e.what = "effect",
               e.caller = request'[p].caller, e.key = request'[p].key,
               e.by \in request'[p].after, s.what = "save", s.by = e.by
        PROVE  request'[p].at >= s.at + Window
    <3>1. /\ Op(p) \in {"next", "save"} /\ request'[p].caller = request[p].caller
          /\ request'[p].key = request[p].key /\ request'[p].at = request[p].at
          /\ request'[p].after = request[p].after
      BY <1>b, <1>2, <2>1 DEF Op
    <3>2. q \notin request[p].after
      BY <1>b, <3>1 DEF AfterIsOver, Recalling
    <3>3. e \in event /\ s \in event
      BY <1>3, <1>4, <2>0, <2>1, <3>1, <3>2
    <3> QED
      BY <2>1, <3>1, <3>3 DEF WaitInv
  <2>2. ASSUME NEW d \in event', NEW e \in event', NEW s \in event', d.what = "effect",
               e.what = "effect", d.caller = e.caller, d.key = e.key, d.by \in e.after,
               s.what = "save", s.by = d.by
        PROVE  e.at >= s.at + Window
    <3>1. CASE d \in event /\ e \in event
      BY <2>0, <2>2, <3>1 DEF WaitInv, SavedKeyHasNoSecondEffect
    <3>2. CASE d \in event /\ e = f
      BY <1>b, <1>4, <2>0, <2>2, <3>2 DEF WaitInv
    <3>3. CASE d = f /\ e \in event
      BY <1>b, <1>4, <2>2, <3>3 DEF AfterIsOver
    <3>4. CASE d = f /\ e = f
      BY <1>b, <1>4, <2>2, <3>4 DEF AfterIsOver, Recalling
    <3> QED
      BY <1>3, <3>1, <3>2, <3>3, <3>4
  <2>3. SavedKeyHasNoSecondEffect'
    BY <2>2 DEF SavedKeyHasNoSecondEffect
  <2>4. ReplayIsOwnAndRecent'
    <3>1. ASSUME NEW r \in event', r.what = "replay"
          PROVE  r \in event
      BY <1>3, <1>4, <3>1
    <3> QED
      BY <1>3, <3>1 DEF WaitInv, ReplayIsOwnAndRecent
  <2> QED
    BY <2>1, <2>3, <2>4 DEF WaitInv, Op
<1> QED
  BY <1>5, <1>6, <1>7

\* The answer is saved, unless there is a row already: it is the answer to
\* the effect of this request, and nobody began after this request had ended.
LEMMA SaveResponseStep ==
    ASSUME TypeInv, AfterIsOver, EffectInv, RowInv, WaitInv, NEW q \in Request,
           SaveResponse(q)
    PROVE  EffectInv' /\ RowInv' /\ WaitInv'
<1> DEFINE c == request[q].caller
           k == request[q].key
           x == [caller |-> c, key |-> k, by |-> q, createdAt |-> now]
           f == [what |-> "save", by |-> q, at |-> now]
<1>a. RequestsOK /\ now \in Nat
  BY RequestAssumption DEF TypeInv
<1>b. Op(q) = "save"
  BY DEF SaveResponse, Goes, Op
<1>1. Moves(q, Ended) /\ UNCHANGED now
  BY <1>a, GoesMoves DEF SaveResponse
<1>2. request'[q] = Ended /\ \A p \in Request : p # q => request'[p] = request[p]
  BY <1>1 DEF Moves
<1>3. \/ UNCHANGED <<keys, event>>
      \/ keys' = keys \cup {x} /\ event' = event \cup {f}
  <2>1. CASE Rows(c, k) # {}
    BY <2>1 DEF SaveResponse, Save
  <2>2. CASE Rows(c, k) = {}
    <3>1. keys' = keys \cup {x}
      BY <2>2 DEF SaveResponse, Save
    <3>2. x \notin keys
      BY <2>2 DEF Rows
    <3> QED
      BY <3>1, <3>2 DEF SaveResponse
  <2> QED
    BY <2>1, <2>2
<1>4. /\ f.what = "save" /\ f.by = q /\ f.at = now
      /\ x.caller = c /\ x.key = k /\ x.by = q /\ x.createdAt = now
  OBVIOUS
<1>5. \A e \in event : e.what = "effect" /\ e.by = q => e.caller = c /\ e.key = k
  BY <1>b DEF EffectInv
<1>6. \E e \in event : e.what = "effect" /\ e.by = q /\ e.caller = c /\ e.key = k
  BY <1>b DEF EffectInv
<1> HIDE DEF f, x, c, k
<1>7. \A e \in event' : e \in event \/ (e = f /\ event' = event \cup {f} /\ keys' = keys \cup {x})
  BY <1>3
<1>8. event \subseteq event' /\ \A e \in event' : e.what # "save" => e \in event
  BY <1>3, <1>4
<1>9. ASSUME NEW p \in Request
      PROVE  Op(p) = "ended" => p # q /\ request'[p].op = "ended"
  BY <1>b, <1>2 DEF Op
<1>e. request'[q].op = "ended"
  BY <1>2 DEF Ended
<1>10. EffectInv'
  <2>1. ASSUME NEW e \in event', e.what = "effect"
        PROVE  /\ e.by \in Request /\ request'[e.by].op \in {"save", "ended"}
               /\ request'[e.by].op = "save" =>
                    e.caller = request'[e.by].caller /\ e.key = request'[e.by].key
    <3>1. e \in event /\ e.by \in Request /\ Op(e.by) \in {"save", "ended"}
      BY <1>8, <2>1 DEF EffectInv
    <3>2. Op(e.by) = "save" => e.caller = request[e.by].caller /\ e.key = request[e.by].key
      BY <2>1, <3>1 DEF EffectInv
    <3> QED
      BY <1>2, <1>e, <3>1, <3>2 DEF Op
  <2>2. ASSUME NEW p \in Request, request'[p].op = "save"
        PROVE  \E e \in event' : /\ e.what = "effect" /\ e.by = p
                                 /\ e.caller = request'[p].caller /\ e.key = request'[p].key
    BY <1>2, <1>e, <1>8, <2>2 DEF EffectInv, Op
  <2> QED
    BY <2>1, <2>2 DEF EffectInv, Op
<1>11. RowInv'
  <2>1. ASSUME NEW y \in keys'
        PROVE  /\ y.createdAt <= now
               /\ \E e \in event' : /\ e.what = "effect" /\ e.by = y.by
                                    /\ e.caller = y.caller /\ e.key = y.key
               /\ \E s \in event' : s.what = "save" /\ s.by = y.by /\ s.at = y.createdAt
    <3>1. CASE y \in keys
      BY <1>8, <3>1 DEF RowInv
    <3>2. CASE y \notin keys
      <4>1. y = x /\ event' = event \cup {f}
        BY <1>3, <2>1, <3>2
      <4>2. y.createdAt <= now
        BY <1>a, <1>4, <4>1
      <4> QED
        BY <1>4, <1>6, <1>8, <4>1, <4>2
    <3> QED
      BY <3>1, <3>2
  <2>2. ASSUME NEW s \in event', s.what = "save"
        PROVE  /\ s.at \in Nat /\ s.by \in Request /\ request'[s.by].op = "ended"
               /\ \A e \in event' : e.what = "effect" /\ e.by = s.by =>
                    \/ s.at + Window <= now
                    \/ \E y \in keys' : /\ y.caller = e.caller /\ y.key = e.key
                                        /\ y.createdAt = s.at
    <3>1. CASE s \in event
      <4>1. s.at \in Nat /\ s.by \in Request /\ Op(s.by) = "ended"
        BY <2>2, <3>1 DEF RowInv
      <4>2. \A e \in event : e.what = "effect" /\ e.by = s.by =>
               \/ s.at + Window <= now
               \/ \E y \in keys : /\ y.caller = e.caller /\ y.key = e.key
                                  /\ y.createdAt = s.at
        BY <2>2, <3>1 DEF RowInv
      <4>3. keys \subseteq keys'
        BY <1>3
      <4> QED
        BY <1>8, <1>9, <4>1, <4>2, <4>3
    <3>2. CASE s \notin event
      <4>1. s = f /\ keys' = keys \cup {x}
        BY <1>7, <2>2, <3>2
      <4> QED
        BY <1>a, <1>4, <1>5, <1>8, <1>e, <4>1
    <3> QED
      BY <3>1, <3>2
  <2> QED
    BY <1>1, <2>1, <2>2 DEF RowInv, Op
<1>12. WaitInv'
  <2>1. ASSUME NEW p \in Request, request'[p].op \in {"next", "save"},
               NEW e \in event', NEW s \in event', e.what = "effect",
               e.caller = request'[p].caller, e.key = request'[p].key,
               e.by \in request'[p].after, s.what = "save", s.by = e.by
        PROVE  request'[p].at >= s.at + Window
    <3>1. request'[p] = request[p] /\ Op(p) \in {"next", "save"}
      BY <1>2, <1>e, <2>1 DEF Op
    <3>2. q \notin request[p].after
      BY <1>b, <3>1 DEF AfterIsOver, Recalling
    <3>3. e \in event /\ s \in event
      BY <1>4, <1>7, <1>8, <2>1, <3>1, <3>2
    <3> QED
      BY <2>1, <3>1, <3>3 DEF WaitInv
  <2>2. ASSUME NEW d \in event', NEW e \in event', NEW s \in event', d.what = "effect",
               e.what = "effect", d.caller = e.caller, d.key = e.key, d.by \in e.after,
               s.what = "save", s.by = d.by
        PROVE  e.at >= s.at + Window
    <3>1. d \in event /\ e \in event
      BY <1>8, <2>2
    <3>2. d.by # q
      BY <1>b, <2>2, <3>1 DEF AfterIsOver
    <3>3. s \in event
      BY <1>4, <1>7, <2>2, <3>2
    <3> QED
      BY <2>2, <3>1, <3>3 DEF WaitInv, SavedKeyHasNoSecondEffect
  <2>3. SavedKeyHasNoSecondEffect'
    BY <2>2 DEF SavedKeyHasNoSecondEffect
  <2>4. ReplayIsOwnAndRecent'
    BY <1>8 DEF WaitInv, ReplayIsOwnAndRecent
  <2> QED
    BY <2>1, <2>3, <2>4 DEF WaitInv, Op
<1> QED
  BY <1>10, <1>11, <1>12

\* A handler other than the middleware is quiet for the keys.
LEMMA HandlerIsKeyQuiet ==
    ASSUME TypeInv, NEW q \in Request, Moves(q, request'[q]), Op(q) # "save",
           request'[q].op \notin {"next", "save"}, event \subseteq event',
           \A e \in event' : e \in event \/ e.what \notin KeyKinds, UNCHANGED <<now, keys>>
    PROVE  KeyQuiet
<1>1. now \in Nat
  BY RequestAssumption DEF TypeInv
<1> QED
  BY <1>1 DEF KeyQuiet, Moves

\* Every step preserves the invariants of the keys.
LEMMA KeysStep ==
    ASSUME TypeInv, AfterIsOver, EffectInv, RowInv, WaitInv, [Next]_vars
    PROVE  EffectInv' /\ RowInv' /\ WaitInv'
<1>a. RequestsOK /\ now \in Nat /\ Window \in Nat
  BY RequestAssumption, IdempotencyAssumption DEF TypeInv
<1>1. ASSUME NEW q \in Request, Login(q), UNCHANGED keys
      PROVE  KeyQuiet
  <2>1. /\ Moves(q, request'[q]) /\ request'[q].op \notin {"next", "save"}
        /\ UNCHANGED now
    BY <1>1, LoginMoves
  <2>2. Op(q) # "save" /\ event \subseteq event'
    BY <1>1 DEF Login, CountAttempt, Authenticate, IssueFirst, Begins, Goes, Op
  <2>3. \A e \in event' : e \in event \/ e.what \notin KeyKinds
    BY <1>1, EventKinds DEF KeyKinds
  <2> QED
    BY <1>1, <2>1, <2>2, <2>3, HandlerIsKeyQuiet
<1>2. ASSUME NEW q \in Request, Refresh(q), UNCHANGED keys
      PROVE  KeyQuiet
  <2>1. /\ Moves(q, request'[q]) /\ request'[q].op \notin {"next", "save"}
        /\ UNCHANGED now
    BY <1>2, RefreshMoves
  <2>2. Op(q) # "save" /\ event \subseteq event'
    BY <1>2 DEF Refresh, FindRefreshToken, RevokeFound, IssueNext, Begins, Goes, Op
  <2>3. \A e \in event' : e \in event \/ e.what \notin KeyKinds
    BY <1>2, EventKinds DEF KeyKinds
  <2> QED
    BY <1>2, <2>1, <2>2, <2>3, HandlerIsKeyQuiet
<1>3. ASSUME NEW q \in Request, RequestReset(q), UNCHANGED keys
      PROVE  KeyQuiet
  <2>1. /\ Moves(q, request'[q]) /\ request'[q].op \notin {"next", "save"}
        /\ UNCHANGED <<now, event>>
    BY <1>3, RequestResetMoves
  <2>2. Op(q) # "save"
    BY <1>3 DEF RequestReset, FindUser, CreateResetToken, Begins, Goes, Op
  <2> QED
    BY <1>3, <2>1, <2>2, HandlerIsKeyQuiet
<1>4. ASSUME NEW q \in Request, ConfirmReset(q), UNCHANGED keys
      PROVE  KeyQuiet
  <2>1. /\ Moves(q, request'[q]) /\ request'[q].op \notin {"next", "save"}
        /\ UNCHANGED now
    BY <1>4, ConfirmResetMoves
  <2>2. Op(q) # "save" /\ event \subseteq event'
    BY <1>4 DEF ConfirmReset, FindResetToken, SetPassword, MarkFound, Begins, Goes, Op
  <2>3. \A e \in event' : e \in event \/ e.what \notin KeyKinds
    BY <1>4, EventKinds DEF KeyKinds
  <2> QED
    BY <1>4, <2>1, <2>2, <2>3, HandlerIsKeyQuiet
<1>5. ASSUME NEW q \in Request, CreateUser(q), UNCHANGED keys
      PROVE  KeyQuiet
  <2>1. /\ Moves(q, request'[q]) /\ request'[q].op \notin {"next", "save"}
        /\ UNCHANGED now
    BY <1>5, CreateUserMoves
  <2>2. Op(q) # "save" /\ event \subseteq event'
    <3>1. CASE StoreUser(q)
      BY <3>1 DEF StoreUser, Goes, Op
    <3> QED
      BY <1>5, <3>1 DEF CreateUser, AdmitCreateUser, CountUsers, BootstrapOrganization, Begins,
                        Goes, Op
  <2>3. \A e \in event' : e \in event \/ e.what \notin KeyKinds
    BY <1>5, EventKinds DEF KeyKinds
  <2> QED
    BY <1>5, <2>1, <2>2, <2>3, HandlerIsKeyQuiet
<1>6. ASSUME NEW q \in Request, Breaks(q), UNCHANGED <<now, event, keys>>
      PROVE  KeyQuiet
  <2>1. Moves(q, request'[q]) /\ request'[q].op = "ended"
    BY <1>6, BreaksMoves DEF Ended
  <2> QED
    BY <1>a, <1>6, <2>1 DEF KeyQuiet, Moves
<1>7. ASSUME UNCHANGED <<request, event, keys>>, UNCHANGED now \/ Tick
      PROVE  KeyQuiet
  BY <1>a, <1>7 DEF KeyQuiet, Tick
<1>8. ASSUME Reap
      PROVE  KeyQuiet
  BY <1>a, <1>8 DEF Reap, Expired, KeyQuiet
<1>9. KeyQuiet \/ \E q \in Request : Middleware(q)
  BY <1>1, <1>2, <1>3, <1>4, <1>5, <1>6, <1>7, <1>8
     DEF Next, SessionRequest, GC, vars, sessionVars, idempotencyVars
<1> QED
  BY <1>9, KeysKept, LookUpKeyStep, CallNextStep, SaveResponseStep DEF Middleware

-----------------------------------------------------------------------------
(* The rate limiter.                                                        *)

\* The attempts in a window of W are among those of the user.
LEMMA AttemptsAreFinite ==
    ASSUME NEW n, NEW s, IsFiniteSet(Attempts(n))
    PROVE  IsFiniteSet(AttemptsIn(n, s)) /\ Cardinality(AttemptsIn(n, s)) \in Nat
BY FS_Subset, FS_CardinalityType DEF AttemptsIn

\* A step that lets no attempt through: the clock goes on at most, and a
\* window is evicted at most when its time is over.
LEMMA LimiterKept ==
    ASSUME TypeInv, NEW n \in Username, LimiterInvOf(n), UNCHANGED Attempts(n),
           \/ windows'[n] = windows[n]
           \/ windows'[n] = NoWindow /\ windows[n] # NoWindow /\ now > windows[n].resetAt,
           now' \in Nat, now <= now'
    PROVE  LimiterInvOf(n)'
<1>a. now \in Nat /\ Interval \in Nat /\ Limit \in Nat /\ MaxTime \in Nat
  BY RequestAssumption, SessionsAssumption DEF TypeInv
<1>b. windows[n] # NoWindow => windows[n].resetAt \in Nat
  BY DEF TypeInv, WindowsOK, LimiterWindow
<1>1. PICK W \in SUBSET (0..MaxTime) : Accounts(n, W)
  BY DEF LimiterInvOf
<1>2. \A s : UNCHANGED AttemptsIn(n, s)
  BY DEF AttemptsIn
<1>3. \A s \in W : s \in Nat
  BY <1>a
<1>4. \A s, t \in W : s < t => s + Interval < t
  BY <1>1 DEF Accounts
<1>5. \A e \in Attempts(n)' :
        e.at \in Nat /\ \E s \in W : s <= e.at /\ e.at <= s + Interval
  BY <1>1 DEF Accounts
<1>6. \A s \in W : s <= now' /\ Cardinality(AttemptsIn(n, s))' <= Limit
  BY <1>a, <1>1, <1>2, <1>3 DEF Accounts
<1>7. windows'[n] = NoWindow => \A s \in W : s + Interval < now'
  <2>1. CASE windows[n] = NoWindow
    BY <1>a, <1>1, <1>3, <2>1 DEF Accounts
  <2>2. CASE windows[n] # NoWindow /\ windows'[n] = NoWindow
    <3>1. PICK s \in W : windows[n].resetAt = s + Interval /\ \A t \in W : t <= s
      BY <1>1, <2>2 DEF Accounts
    <3>2. now > s + Interval
      BY <2>2, <3>1
    <3>3. ASSUME NEW t \in W
          PROVE  t + Interval < now'
      <4>1. t \in Nat /\ s \in Nat /\ t <= s
        BY <1>3, <3>1
      <4> QED
        BY <1>a, <3>2, <4>1
    <3> QED
      BY <3>3
  <2> QED
    BY <2>1, <2>2
<1>8. windows'[n] # NoWindow =>
        \E s \in W : /\ windows'[n].resetAt = s + Interval
                     /\ \A t \in W : t <= s
                     /\ Cardinality(AttemptsIn(n, s))' <= windows'[n].count
  BY <1>1, <1>2 DEF Accounts
<1>9. Accounts(n, W)'
  BY <1>4, <1>5, <1>6, <1>7, <1>8 DEF Accounts
<1> QED
  BY <1>9 DEF LimiterInvOf

\* The first attempt of a new window, which begins after the others.
LEMMA NewWindowStep ==
    ASSUME TypeInv, NEW n \in Username, LimiterInvOf(n), UNCHANGED now,
           windows[n] = NoWindow \/ now > windows[n].resetAt,
           windows'[n] = [count |-> 1, resetAt |-> now + Interval],
           NEW a, a.at = now,
           UNCHANGED Attempts(n) \/ (1 <= Limit /\ Attempts(n)' = Attempts(n) \cup {a})
    PROVE  LimiterInvOf(n)'
<1>a. now \in Nat /\ now \in 0..MaxTime /\ Interval \in Nat /\ Limit \in Nat /\ MaxTime \in Nat
  BY RequestAssumption, SessionsAssumption DEF TypeInv
<1>b. windows[n] # NoWindow => windows[n].resetAt \in Nat
  BY DEF TypeInv, WindowsOK, LimiterWindow
<1>1. PICK W \in SUBSET (0..MaxTime) : Accounts(n, W)
  BY DEF LimiterInvOf
<1>2. \A s \in W : s \in Nat
  BY <1>a
<1>3. \A s \in W : s + Interval < now
  <2>1. CASE windows[n] = NoWindow
    BY <1>1, <2>1 DEF Accounts
  <2>2. CASE windows[n] # NoWindow
    <3>1. PICK s \in W : windows[n].resetAt = s + Interval /\ \A t \in W : t <= s
      BY <1>1, <2>2 DEF Accounts
    <3>2. now > s + Interval
      BY <2>2, <3>1
    <3>3. ASSUME NEW t \in W
          PROVE  t + Interval < now
      <4>1. t \in Nat /\ s \in Nat /\ t <= s
        BY <1>2, <3>1
      <4> QED
        BY <1>a, <3>2, <4>1
    <3> QED
      BY <3>3
  <2> QED
    BY <2>1, <2>2
<1>c. PICK c : c = now
  OBVIOUS
<1> DEFINE V == W \cup {c}
<1>4. V \in SUBSET (0..MaxTime) /\ \A s \in V : s \in Nat
  BY <1>a, <1>c
<1>5. IsFiniteSet(Attempts(n)')
  BY FS_AddElement DEF LimiterInvOf
<1>6. \A s, t \in V : s < t => s + Interval < t
  <2>1. \A s, t \in W : s < t => s + Interval < t
    BY <1>1 DEF Accounts
  <2>2. ASSUME NEW s \in W
        PROVE  ~(c < s) /\ s + Interval < c
    <3>1. s \in Nat /\ s + Interval < now
      BY <1>2, <1>3
    <3> QED
      BY <1>a, <1>c, <3>1
  <2>3. ~(c < c)
    BY <1>a, <1>c
  <2> QED
    BY <2>1, <2>2, <2>3
<1>7. \A e \in Attempts(n) : e.at \in Nat /\ \E s \in W : s <= e.at /\ e.at <= s + Interval
  BY <1>1 DEF Accounts
<1>8. \A e \in Attempts(n) : e.at < now
  BY <1>a, <1>2, <1>3, <1>7
<1>9. \A e \in Attempts(n)' : e.at \in Nat /\ \E s \in V : s <= e.at /\ e.at <= s + Interval
  <2>1. now <= now /\ now <= now + Interval /\ c = now
    BY <1>a, <1>c
  <2> QED
    BY <1>a, <1>7, <2>1
<1>10. \A s \in W : AttemptsIn(n, s)' = AttemptsIn(n, s)
  <2>1. \A s \in W : ~(now <= s + Interval)
    BY <1>a, <1>2, <1>3
  <2> QED
    BY <2>1 DEF AttemptsIn
<1>11. Cardinality(AttemptsIn(n, c)') <= Limit /\ Cardinality(AttemptsIn(n, c)') <= 1
  <2>0. AttemptsIn(n, c) = {}
    <3>1. \A e \in Attempts(n) : ~(c <= e.at)
      BY <1>a, <1>c, <1>7, <1>8
    <3> QED
      BY <3>1 DEF AttemptsIn
  <2>1. CASE UNCHANGED Attempts(n)
    <3>1. AttemptsIn(n, c)' = {}
      BY <2>0, <2>1 DEF AttemptsIn
    <3> QED
      BY <1>a, <3>1, FS_EmptySet
  <2>2. CASE 1 <= Limit /\ Attempts(n)' = Attempts(n) \cup {a}
    <3>1. AttemptsIn(n, c)' = {a}
      BY <1>a, <1>c, <2>0, <2>2 DEF AttemptsIn
    <3>2. Cardinality({a}) = 1
      BY FS_Singleton
    <3> QED
      BY <1>a, <2>2, <3>1, <3>2
  <2> QED
    BY <2>1, <2>2
<1>12. \A s \in V : s <= now /\ Cardinality(AttemptsIn(n, s)') <= Limit
  BY <1>a, <1>c, <1>1, <1>10, <1>11 DEF Accounts
<1>13. windows'[n] # NoWindow /\ windows'[n].resetAt = now + Interval /\ windows'[n].count = 1
  BY DEF NoWindow
<1>14. \A t \in V : t <= now
  BY <1>12
<1> HIDE DEF V
<1>15. c \in V
  BY DEF V
<1>16. \E s \in V : /\ windows'[n].resetAt = s + Interval
                    /\ \A t \in V : t <= s
                    /\ Cardinality(AttemptsIn(n, s)') <= windows'[n].count
  BY <1>c, <1>11, <1>13, <1>14, <1>15
<1>17. Accounts(n, V)'
  BY <1>6, <1>9, <1>12, <1>13, <1>16 DEF Accounts
<1> QED
  BY <1>4, <1>5, <1>17 DEF LimiterInvOf

\* One more attempt in the window that is open: it counts in that one alone.
LEMMA SameWindowStep ==
    ASSUME TypeInv, NEW n \in Username, LimiterInvOf(n), UNCHANGED now,
           windows[n] # NoWindow, ~(now > windows[n].resetAt),
           windows'[n] # NoWindow, windows'[n].count = windows[n].count + 1,
           windows'[n].resetAt = windows[n].resetAt,
           NEW a, a.at = now,
           \/ UNCHANGED Attempts(n)
           \/ windows[n].count + 1 <= Limit /\ Attempts(n)' = Attempts(n) \cup {a}
    PROVE  LimiterInvOf(n)'
<1>a. now \in Nat /\ Interval \in Nat /\ Limit \in Nat /\ MaxTime \in Nat
  BY RequestAssumption, SessionsAssumption DEF TypeInv
<1>b. windows[n].count \in Nat /\ windows[n].resetAt \in Nat
  BY DEF TypeInv, WindowsOK, LimiterWindow
<1>1. PICK W \in SUBSET (0..MaxTime) : Accounts(n, W)
  BY DEF LimiterInvOf
<1>2. \A s \in W : s \in Nat
  BY <1>a
<1>3. PICK s \in W : /\ windows[n].resetAt = s + Interval
                     /\ \A t \in W : t <= s
                     /\ Cardinality(AttemptsIn(n, s)) <= windows[n].count
  BY <1>1 DEF Accounts
<1>4. s \in Nat /\ s <= now /\ now <= s + Interval
  BY <1>a, <1>b, <1>1, <1>2, <1>3 DEF Accounts
<1>5. IsFiniteSet(Attempts(n)')
  BY FS_AddElement DEF LimiterInvOf
<1>6. \A d, t \in W : d < t => d + Interval < t
  BY <1>1 DEF Accounts
<1>7. \A e \in Attempts(n)' : e.at \in Nat /\ \E t \in W : t <= e.at /\ e.at <= t + Interval
  BY <1>a, <1>1, <1>4 DEF Accounts
<1>8. \A t \in W : t # s => AttemptsIn(n, t)' = AttemptsIn(n, t)
  <2>1. ASSUME NEW t \in W, t # s
        PROVE  ~(now <= t + Interval)
    <3>1. t \in Nat /\ t <= s
      BY <1>2, <1>3
    <3>2. t + Interval < s
      BY <1>4, <1>6, <2>1, <3>1
    <3> QED
      BY <1>a, <1>4, <3>1, <3>2
  <2> QED
    BY <2>1 DEF AttemptsIn
<1>9. Cardinality(AttemptsIn(n, s)) \in Nat /\ IsFiniteSet(AttemptsIn(n, s))
  BY AttemptsAreFinite DEF LimiterInvOf
<1>10. /\ Cardinality(AttemptsIn(n, s)') <= Limit
       /\ Cardinality(AttemptsIn(n, s)') <= windows[n].count + 1
  <2>1. CASE UNCHANGED Attempts(n)
    <3>1. AttemptsIn(n, s)' = AttemptsIn(n, s)
      BY <2>1 DEF AttemptsIn
    <3> QED
      BY <1>a, <1>b, <1>1, <1>3, <1>9, <3>1 DEF Accounts
  <2>2. CASE windows[n].count + 1 <= Limit /\ Attempts(n)' = Attempts(n) \cup {a}
    <3>1. AttemptsIn(n, s)' = AttemptsIn(n, s) \cup {a}
      BY <1>4, <2>2 DEF AttemptsIn
    <3>2. Cardinality(AttemptsIn(n, s) \cup {a}) <= Cardinality(AttemptsIn(n, s)) + 1
      <4>1. Cardinality(AttemptsIn(n, s) \cup {a}) =
              IF a \in AttemptsIn(n, s) THEN Cardinality(AttemptsIn(n, s))
              ELSE Cardinality(AttemptsIn(n, s)) + 1
        BY <1>9, FS_AddElement
      <4> QED
        BY <1>9, <4>1
    <3>3. Cardinality(AttemptsIn(n, s) \cup {a}) \in Nat
      BY <1>9, FS_AddElement, FS_CardinalityType
    <3> QED
      BY <1>a, <1>b, <1>3, <1>9, <2>2, <3>1, <3>2, <3>3
  <2> QED
    BY <2>1, <2>2
<1>11. ASSUME NEW t \in W
       PROVE  t <= now /\ Cardinality(AttemptsIn(n, t)') <= Limit
  <2>1. CASE t = s
    BY <1>4, <1>10, <2>1
  <2>2. CASE t # s
    BY <1>1, <1>8, <2>2 DEF Accounts
  <2> QED
    BY <2>1, <2>2
<1>12. \E d \in W : /\ windows'[n].resetAt = d + Interval
                    /\ \A t \in W : t <= d
                    /\ Cardinality(AttemptsIn(n, d)') <= windows'[n].count
  BY <1>3, <1>10
<1>13. Accounts(n, W)'
  BY <1>6, <1>7, <1>11, <1>12 DEF Accounts
<1> QED
  BY <1>5, <1>13 DEF LimiterInvOf

\* An attempt, let through or not.
LEMMA CountAttemptStep ==
    ASSUME TypeInv, NEW m \in Username, LimiterInvOf(m), NEW q \in Request, CountAttempt(q)
    PROVE  LimiterInvOf(m)'
<1>a. now \in Nat /\ WindowsOK
  BY RequestAssumption DEF TypeInv
<1>1. PICK n \in Username :
        /\ windows' = [windows EXCEPT ![n] = CurrentWindow(n)]
        /\ event' = IF Allow(n) THEN event \cup {[what |-> "attempt", by |-> q, user |-> n,
                                                  at |-> now]}
                    ELSE event
  BY DEF CountAttempt
<1>2. UNCHANGED now
  BY DEF CountAttempt
<1> DEFINE a == [what |-> "attempt", by |-> q, user |-> n, at |-> now]
<1>3. a.what = "attempt" /\ a.user = n /\ a.at = now
  OBVIOUS
<1>4. \/ event' = event
      \/ CurrentWindow(n).count <= Limit /\ event' = event \cup {a}
  BY <1>1 DEF Allow
<1> HIDE DEF a
<1>5. CASE m # n
  <2>1. windows'[m] = windows[m]
    BY <1>a, <1>1, <1>5 DEF WindowsOK
  <2>2. UNCHANGED Attempts(m)
    BY <1>3, <1>4, <1>5 DEF Attempts
  <2>3. now' \in Nat /\ now <= now'
    BY <1>a, <1>2
  <2> QED
    BY <2>1, <2>2, <2>3, LimiterKept
<1>6. CASE m = n
  <2>1. windows'[n] = CurrentWindow(n)
    BY <1>a, <1>1 DEF WindowsOK
  <2>2. \/ UNCHANGED Attempts(n)
        \/ CurrentWindow(n).count <= Limit /\ Attempts(n)' = Attempts(n) \cup {a}
    BY <1>3, <1>4 DEF Attempts
  <2>3. CASE windows[n] = NoWindow \/ now > windows[n].resetAt
    <3>1. CurrentWindow(n) = [count |-> 1, resetAt |-> now + Interval]
      BY <2>3 DEF CurrentWindow
    <3>2. CurrentWindow(n).count = 1
      BY <3>1
    <3>3. windows'[n] = [count |-> 1, resetAt |-> now + Interval]
      BY <2>1, <3>1
    <3>4. UNCHANGED Attempts(n) \/ (1 <= Limit /\ Attempts(n)' = Attempts(n) \cup {a})
      BY <2>2, <3>2
    <3> QED
      BY <1>2, <1>3, <1>6, <2>3, <3>3, <3>4, NewWindowStep
  <2>4. CASE windows[n] # NoWindow /\ ~(now > windows[n].resetAt)
    <3>1. windows[n] \in LimiterWindow
      BY <1>a, <2>4 DEF WindowsOK
    <3>2. CurrentWindow(n) = [windows[n] EXCEPT !.count = @ + 1]
      BY <2>4 DEF CurrentWindow
    <3>3. /\ windows'[n].count = windows[n].count + 1
          /\ windows'[n].resetAt = windows[n].resetAt
      BY <2>1, <3>1, <3>2 DEF LimiterWindow
    <3>4. windows'[n] # NoWindow
      <4>1. CurrentWindow(n) \in LimiterWindow
        BY <3>1, <3>2 DEF LimiterWindow
      <4>2. NoWindow \notin LimiterWindow
        BY DEF NoWindow, LimiterWindow
      <4> QED
        BY <2>1, <4>1, <4>2
    <3>5. \/ UNCHANGED Attempts(n)
          \/ windows[n].count + 1 <= Limit /\ Attempts(n)' = Attempts(n) \cup {a}
      BY <2>1, <2>2, <3>3
    <3> QED
      BY <1>2, <1>3, <1>6, <2>4, <3>3, <3>4, <3>5, SameWindowStep
  <2> QED
    BY <2>3, <2>4
<1> QED
  BY <1>5, <1>6

\* Every step preserves LimiterInv.
LEMMA LimiterStep ==
    ASSUME TypeInv, LimiterInv, [Next]_vars
    PROVE  LimiterInv'
<1>a. now \in Nat /\ WindowsOK
  BY RequestAssumption DEF TypeInv
<1>0. ASSUME NoNew("attempt"), event \subseteq event', UNCHANGED <<now, windows>>
      PROVE  LimiterInv'
  <2>1. ASSUME NEW n \in Username
        PROVE  LimiterInvOf(n)'
    <3>1. UNCHANGED Attempts(n)
      BY <1>0 DEF Attempts, NoNew
    <3>2. now' \in Nat /\ now <= now' /\ windows'[n] = windows[n]
      BY <1>a, <1>0
    <3>3. LimiterInvOf(n)
      BY DEF LimiterInv
    <3> QED
      BY <3>1, <3>2, <3>3, LimiterKept
  <2> QED
    BY <2>1 DEF LimiterInv
<1>1. ASSUME NEW q \in Request, Login(q)
      PROVE  LimiterInv'
  <2>1. CASE CountAttempt(q)
    BY <2>1, CountAttemptStep DEF LimiterInv
  <2>2. CASE Authenticate(q) \/ IssueFirst(q)
    BY <1>0, <2>2 DEF Authenticate, IssueFirst, NoNew, sessionVars
  <2> QED
    BY <1>1, <2>1, <2>2 DEF Login
<1>2. ASSUME NEW q \in Request, Refresh(q)
      PROVE  LimiterInv'
  <2>1. NoNew("attempt") /\ UNCHANGED <<now, windows>>
    BY <1>2, RefreshMoves, EventKinds DEF NoNew
  <2>2. event \subseteq event'
    BY <1>2 DEF Refresh, FindRefreshToken, RevokeFound, IssueNext
  <2> QED
    BY <1>0, <2>1, <2>2
<1>3. ASSUME NEW q \in Request, RequestReset(q)
      PROVE  LimiterInv'
  BY <1>0, <1>3, RequestResetMoves DEF NoNew
<1>4. ASSUME NEW q \in Request, ConfirmReset(q)
      PROVE  LimiterInv'
  <2>1. NoNew("attempt") /\ UNCHANGED <<now, windows>>
    BY <1>4, ConfirmResetMoves, EventKinds DEF NoNew
  <2>2. event \subseteq event'
    BY <1>4 DEF ConfirmReset, FindResetToken, SetPassword, MarkFound
  <2> QED
    BY <1>0, <2>1, <2>2
<1>5. ASSUME NEW q \in Request, CreateUser(q)
      PROVE  LimiterInv'
  <2>1. NoNew("attempt") /\ UNCHANGED <<now, windows>>
    BY <1>5, CreateUserMoves, EventKinds DEF NoNew
  <2>2. event \subseteq event'
    <3>1. CASE StoreUser(q)
      BY <3>1 DEF StoreUser
    <3> QED
      BY <1>5, <3>1 DEF CreateUser, AdmitCreateUser, CountUsers, BootstrapOrganization
  <2> QED
    BY <1>0, <2>1, <2>2
<1>6. ASSUME NEW q \in Request, Middleware(q), UNCHANGED sessionVars
      PROVE  LimiterInv'
  <2>1. NoNew("attempt") /\ UNCHANGED <<now, windows>>
    BY <1>6, MiddlewareMoves, EventKinds DEF NoNew, sessionVars
  <2>2. event \subseteq event'
    <3>1. CASE SaveResponse(q)
      BY <3>1 DEF SaveResponse
    <3> QED
      BY <1>6, <3>1 DEF Middleware, LookUpKey, CallNext
  <2> QED
    BY <1>0, <2>1, <2>2
<1>7. CASE UNCHANGED <<now, event, windows>>
  BY <1>0, <1>7 DEF NoNew
<1>8. CASE Tick /\ UNCHANGED <<event, windows>>
  <2>1. ASSUME NEW n \in Username
        PROVE  LimiterInvOf(n)'
    <3>1. UNCHANGED Attempts(n) /\ windows'[n] = windows[n]
      BY <1>8 DEF Attempts
    <3>2. now' \in Nat /\ now <= now'
      BY <1>a, <1>8 DEF Tick
    <3>3. LimiterInvOf(n)
      BY DEF LimiterInv
    <3> QED
      BY <3>1, <3>2, <3>3, LimiterKept
  <2> QED
    BY <2>1 DEF LimiterInv
<1>9. CASE GC
  <2>1. ASSUME NEW n \in Username
        PROVE  LimiterInvOf(n)'
    <3>1. UNCHANGED Attempts(n) /\ now' \in Nat /\ now <= now'
      BY <1>a, <1>9 DEF GC, Attempts
    <3>2. windows'[n] = IF windows[n] # NoWindow /\ now > windows[n].resetAt THEN NoWindow
                        ELSE windows[n]
      BY <1>9 DEF GC, Evict
    <3>3. LimiterInvOf(n)
      BY DEF LimiterInv
    <3> QED
      BY <3>1, <3>2, <3>3, LimiterKept
  <2> QED
    BY <2>1 DEF LimiterInv
<1> QED
  BY <1>1, <1>2, <1>3, <1>4, <1>5, <1>6, <1>7, <1>8, <1>9
     DEF Next, SessionRequest, Reap, vars, sessionVars

\* A time as long as a window meets at most two of the windows, which follow
\* on one another, and each let through at most Limit attempts.
LEMMA TwoWindowsBound ==
    ASSUME LimiterInv, NEW n \in Username, NEW t \in 0..MaxTime
    PROVE  Cardinality({e \in event : /\ e.what = "attempt" /\ e.user = n
                                      /\ t <= e.at /\ e.at <= t + Interval}) <= 2 * Limit
<1>a. Interval \in Nat /\ Limit \in Nat /\ MaxTime \in Nat /\ t \in Nat
  BY RequestAssumption, SessionsAssumption
<1>1. IsFiniteSet(Attempts(n))
  BY DEF LimiterInv, LimiterInvOf
<1>2. PICK W \in SUBSET (0..MaxTime) : Accounts(n, W)
  BY DEF LimiterInv, LimiterInvOf
<1> DEFINE A == {e \in event : /\ e.what = "attempt" /\ e.user = n
                               /\ t <= e.at /\ e.at <= t + Interval}
           Meets(s) == s <= t + Interval /\ t <= s + Interval
<1>3. \A s \in W : s \in Nat /\ Cardinality(AttemptsIn(n, s)) <= Limit
  BY <1>a, <1>2 DEF Accounts
<1>4. ASSUME NEW e \in A
      PROVE  \E s \in W : Meets(s) /\ e \in AttemptsIn(n, s)
  <2>1. e \in Attempts(n) /\ t <= e.at /\ e.at <= t + Interval
    BY DEF Attempts
  <2>2. PICK s \in W : e.at \in Nat /\ s <= e.at /\ e.at <= s + Interval
    BY <1>2, <2>1 DEF Accounts
  <2>3. s \in Nat
    BY <1>3
  <2>4. Meets(s)
    BY <1>a, <2>1, <2>2, <2>3
  <2> QED
    BY <2>1, <2>2, <2>4 DEF AttemptsIn
<1>5. ASSUME NEW x \in W, NEW y \in W, NEW z \in W, Meets(x), Meets(y), Meets(z)
      PROVE  x = y \/ y = z \/ x = z
  <2>1. x \in Nat /\ y \in Nat /\ z \in Nat
    BY <1>3
  <2>2. /\ x < y => x + Interval < y
        /\ y < x => y + Interval < x
        /\ y < z => y + Interval < z
        /\ z < y => z + Interval < y
        /\ x < z => x + Interval < z
        /\ z < x => z + Interval < x
    BY <1>2 DEF Accounts
  <2> QED
    BY <1>a, <1>5, <2>1, <2>2
<1> HIDE DEF A, Meets
<1>6. ASSUME NEW x \in W, NEW y \in W, \A s \in W : Meets(s) => s = x \/ s = y
      PROVE  Cardinality(A) <= 2 * Limit
  <2> DEFINE X == AttemptsIn(n, x)
             Y == AttemptsIn(n, y)
  <2>1. A \subseteq X \cup Y
    BY <1>4, <1>6
  <2>2. /\ IsFiniteSet(X) /\ IsFiniteSet(Y)
        /\ Cardinality(X) \in Nat /\ Cardinality(Y) \in Nat
    BY <1>1, AttemptsAreFinite
  <2>3. Cardinality(X) <= Limit /\ Cardinality(Y) <= Limit
    BY <1>3
  <2> HIDE DEF X, Y
  <2>4. IsFiniteSet(X \cup Y) /\ IsFiniteSet(X \cap Y)
    BY <2>2, FS_Union, FS_Subset
  <2>5. Cardinality(X \cup Y) = Cardinality(X) + Cardinality(Y) - Cardinality(X \cap Y)
    BY <2>2, FS_Union
  <2>6. Cardinality(X \cap Y) \in Nat /\ Cardinality(X \cup Y) \in Nat
    BY <2>4, FS_CardinalityType
  <2>7. Cardinality(A) <= Cardinality(X \cup Y) /\ IsFiniteSet(A)
    BY <2>1, <2>4, FS_Subset
  <2>8. Cardinality(A) \in Nat
    BY <2>7, FS_CardinalityType
  <2> QED
    BY <1>a, <2>2, <2>3, <2>5, <2>6, <2>7, <2>8
<1>7. CASE \E x \in W : Meets(x)
  <2>1. PICK x \in W : Meets(x)
    BY <1>7
  <2>2. CASE \A s \in W : Meets(s) => s = x
    BY <1>6, <2>2 DEF A
  <2>3. CASE \E y \in W : Meets(y) /\ y # x
    <3>1. PICK y \in W : Meets(y) /\ y # x
      BY <2>3
    <3>2. \A s \in W : Meets(s) => s = x \/ s = y
      BY <1>5, <2>1, <3>1
    <3> QED
      BY <1>6, <3>2 DEF A
  <2> QED
    BY <2>2, <2>3
<1>8. CASE ~\E x \in W : Meets(x)
  <2>1. A = {}
    BY <1>4, <1>8
  <2> QED
    BY <1>a, <2>1, FS_EmptySet DEF A
<1> QED
  BY <1>7, <1>8

-----------------------------------------------------------------------------
(* The invariant of the gateway, and what follows from it.                  *)

GatewayInv ==
    /\ TypeInv /\ AfterIsOver
    /\ RefreshInv /\ ResetInv /\ UserInv
    /\ EffectInv /\ RowInv /\ WaitInv
    /\ LimiterInv

\* Nothing has happened yet, and the tokens that are there are not of any
\* request to come.
LEMMA GatewayInit == Init => GatewayInv
<1> SUFFICES ASSUME Init PROVE GatewayInv
  OBVIOUS
<1>1. TypeInv
  BY TypeInit
<1>2. event = {} /\ keys = {} /\ now = 0 /\ \A q \in Request : Op(q) = "idle"
  BY RequestAssumption DEF Init, Op
<1>3. AfterIsOver
  BY <1>2 DEF AfterIsOver, Recalling
<1>4. \A t \in refreshTokens \cup resetTokens : Over(t.by)
  BY InitialAssumption DEF Init, Over
<1>5. RefreshInv /\ ResetInv
  BY <1>2, <1>4 DEF RefreshInv, ResetInv
<1>6. UserInv /\ EffectInv /\ RowInv
  BY <1>2 DEF UserInv, EffectInv, RowInv
<1>7. WaitInv
  BY <1>2 DEF WaitInv, SavedKeyHasNoSecondEffect, ReplayIsOwnAndRecent
<1>8. ASSUME NEW n \in Username
      PROVE  LimiterInvOf(n)
  <2>1. Attempts(n) = {} /\ windows[n] = NoWindow
    BY <1>2 DEF Attempts, Init
  <2>2. Accounts(n, {})
    BY <2>1 DEF Accounts
  <2> QED
    BY <2>1, <2>2, FS_EmptySet DEF LimiterInvOf
<1> QED
  BY <1>1, <1>3, <1>5, <1>6, <1>7, <1>8 DEF GatewayInv, LimiterInv

\* GatewayInv is an invariant.
LEMMA GatewayInvariant == Spec => []GatewayInv
<1>1. GatewayInv /\ [Next]_vars => GatewayInv'
  <2> SUFFICES ASSUME GatewayInv, [Next]_vars PROVE GatewayInv'
    OBVIOUS
  <2> USE DEF GatewayInv
  <2>1. TypeInv' /\ AfterIsOver'
    BY TypeStep, AfterStep
  <2>2. RefreshInv' /\ ResetInv' /\ UserInv'
    BY RefreshStep, ResetStep, UserStep
  <2>3. EffectInv' /\ RowInv' /\ WaitInv'
    BY KeysStep
  <2>4. LimiterInv'
    BY LimiterStep
  <2> QED
    BY <2>1, <2>2, <2>3, <2>4
<1> QED
  BY <1>1, GatewayInit, PTL DEF Spec

\* However many requests present one refresh token or one password reset
\* token, two of them succeed only if they overlapped (refresh_token.go,
\* password_reset.go).
THEOREM UsedTokensStayUsed == Spec => []TokensAreSpentOnceInSequence
<1>1. GatewayInv => TokensAreSpentOnceInSequence
  <2> SUFFICES ASSUME RefreshInv, ResetInv, NEW e \in event, NEW f \in event,
                      e.what \in {"refresh", "reset"}, e.what = f.what, e.token = f.token,
                      e # f
               PROVE  e.by \notin f.after
    BY DEF GatewayInv, TokensAreSpentOnceInSequence
  <2>1. CASE e.what = "refresh"
    BY <2>1 DEF RefreshInv
  <2>2. CASE e.what = "reset"
    BY <2>2 DEF ResetInv
  <2> QED
    BY <2>1, <2>2
<1> QED
  BY <1>1, GatewayInvariant, PTL

\* Once a user exists nobody who begins later is let in without a token
\* (RequireAuthOrFirstUserBootstrap).
THEOREM BootstrapIsForTheFirst == Spec => []BootstrapClosesItself
<1>1. GatewayInv => BootstrapClosesItself
  BY DEF GatewayInv, UserInv, BootstrapClosesItself
<1> QED
  BY <1>1, GatewayInvariant, PTL

\* The fixed windows of the limiter let through at most twice the limit in
\* any time as long as one, for any limit and interval, whenever the GC loop
\* runs (ratelimit.go).
THEOREM LimiterIsBounded == Spec => []LimiterBoundsAttempts
<1>1. GatewayInv => LimiterBoundsAttempts
  BY TwoWindowsBound DEF GatewayInv, LimiterBoundsAttempts
<1> QED
  BY <1>1, GatewayInvariant, PTL

\* A saved answer keeps a later request of the same caller with the same key
\* from having an effect until the window is over, whenever the reaper runs.
THEOREM SavedKeysHold == Spec => []SavedKeyHasNoSecondEffect
<1>1. GatewayInv => SavedKeyHasNoSecondEffect
  BY DEF GatewayInv, WaitInv
<1> QED
  BY <1>1, GatewayInvariant, PTL

\* What is replayed is the caller's own answer, and no older than the window.
THEOREM ReplaysAreOwn == Spec => []ReplayIsOwnAndRecent
<1>1. GatewayInv => ReplayIsOwnAndRecent
  BY DEF GatewayInv, WaitInv
<1> QED
  BY <1>1, GatewayInvariant, PTL

=============================================================================
