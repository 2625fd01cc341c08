--------------------------- MODULE HTTPRequests ---------------------------
(***************************************************************************)
(* What the requests of Sessions and Idempotency have in common: a clock,  *)
(* and where each request is.  Each transaction of a request is a step,    *)
(* after its first one, and a request may break off between two of them.   *)
(***************************************************************************)
EXTENDS Naturals, FiniteSets

CONSTANTS
    Request,     \* numbers of HTTP requests
    Workloads,   \* what each request asks for
    MaxTime      \* bounds the clock

VARIABLES
    now,
    request,     \* where each request is, and what it goes on with
    event        \* history: what the requests have done

ASSUME RequestAssumption ==
    /\ Request \subseteq Nat
    /\ MaxTime \in Nat
    /\ \A w \in Workloads : DOMAIN w = Request

\* Requests are numbered in the order in which they begin.
Begins(q, kind, r) ==
    /\ request[q] = [op |-> "idle", kind |-> kind]
    /\ \A p \in Request : p < q => request[p].op # "idle"
    /\ request' = [request EXCEPT ![q] = r]

Ended == [op |-> "ended"]
Finished == {p \in Request : request[p] = Ended}

Goes(q, op, r) ==
    /\ request[q].op = op
    /\ request' = [request EXCEPT ![q] = r]

\* An error, or a crash, between two transactions.
Breaks(q) ==
    /\ request[q].op \notin {"idle", "ended"}
    /\ request' = [request EXCEPT ![q] = Ended]

Tick ==
    /\ now < MaxTime
    /\ now' = now + 1

=============================================================================
