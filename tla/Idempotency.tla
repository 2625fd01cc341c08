---------------------------- MODULE Idempotency ----------------------------
(***************************************************************************)
(* Idempotency keys: the middleware around a handler that triggers Runs or *)
(* Operations, its store, and the reaper that deletes expired rows.  The   *)
(* handler itself either has an effect, or fails and has none.             *)
(***************************************************************************)
EXTENDS HTTPRequests

CONSTANTS
    Caller,      \* an Organization and a user in it
    Key,         \* values of the Idempotency-Key header
    Window       \* how long a response is replayed

VARIABLE
    keys         \* rows of idempotency_keys; by is the request that answered

idempotencyVars == <<keys>>

ASSUME IdempotencyAssumption == Window \in Nat

CachedResponse == [caller : Caller, key : Key, by : Nat, createdAt : Nat]

Rows(c, k) == {x \in keys : x.caller = c /\ x.key = k}

\* created_at > now - Window.
Fresh(x) == x.createdAt + Window > now

\* Mutant: a key is everybody's.
GetOfAnyone(c, k) == {x \in keys : x.key = k /\ Fresh(x)}

Get(c, k) == {x \in Rows(c, k) : Fresh(x)}

\* Mutant: no conflict.
SaveAnother(c, k, q) ==
    keys' = keys \cup {[caller |-> c, key |-> k, by |-> q, createdAt |-> now]}

\* ON CONFLICT DO NOTHING, also if the row there has expired.
Save(c, k, q) ==
    keys' = IF Rows(c, k) # {} THEN keys
            ELSE keys \cup {[caller |-> c, key |-> k, by |-> q, createdAt |-> now]}

LookUpKey(q) ==
    \E c \in Caller, k \in Key :
        /\ Begins(q, "trigger",
                  IF Get(c, k) # {} THEN Ended
                  ELSE [op |-> "next", caller |-> c, key |-> k, at |-> now,
                        after |-> Finished])
        /\ event' = event \cup {[what |-> "replay", by |-> q, caller |-> c, key |-> k,
                                 of |-> x.by, at |-> now] : x \in Get(c, k)}
        /\ UNCHANGED <<now, keys>>

CallNext(q) ==
    /\ Goes(q, "next", [request[q] EXCEPT !.op = "save"])
    /\ event' = event \cup {[what |-> "effect", by |-> q, caller |-> request[q].caller,
                             key |-> request[q].key, at |-> request[q].at,
                             after |-> request[q].after]}
    /\ UNCHANGED <<now, keys>>

\* A response that is not a success is not saved, and an error of Save is
\* ignored: both are requests that break off.
SaveResponse(q) ==
    /\ Goes(q, "save", Ended)
    /\ Save(request[q].caller, request[q].key, q)
    /\ event' = IF keys' = keys THEN event
                ELSE event \cup {[what |-> "save", by |-> q, at |-> now]}
    /\ UNCHANGED now

Middleware(q) == LookUpKey(q) \/ CallNext(q) \/ SaveResponse(q)

\* Mutant: the reaper's cutoff is one tick later than that of Get.
ExpiredEarly == {x \in keys : x.createdAt + Window <= now + 1}

\* created_at <= now - Window.
Expired == {x \in keys : x.createdAt + Window <= now}

Reap ==
    /\ Expired # {}
    /\ keys' = keys \ Expired
    /\ UNCHANGED <<now, request, event>>

=============================================================================
