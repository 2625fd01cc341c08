------------------------ MODULE OperationLifecycle ------------------------
(***************************************************************************)
(* What Fleet promises of an operation, with requests, executors and       *)
(* streams hidden: it is queued, claimed, carried out on its machine at    *)
(* most once, and finished once, with an outcome that stays.               *)
(***************************************************************************)
EXTENDS Naturals

CONSTANT OperationId

VARIABLES
    status,     \* operations.status, "none" before the row exists
    executions  \* how often the operation's command was started

vars == <<status, executions>>

Init ==
    /\ status \in [OperationId -> {"none", "queued"}]
    /\ executions = [o \in OperationId |-> 0]

Moves(o, from, to) ==
    /\ status[o] = from
    /\ status' = [status EXCEPT ![o] = to]
    /\ UNCHANGED executions

Queue(o) == Moves(o, "none", "queued")
Claim(o) == Moves(o, "queued", "running")

Execute(o) ==
    /\ status[o] = "running"
    /\ executions[o] = 0
    /\ executions' = [executions EXCEPT ![o] = 1]
    /\ UNCHANGED status

\* Only an operation that was carried out succeeds.
Succeed(o) == executions[o] = 1 /\ Moves(o, "running", "success")
Fail(o) == Moves(o, "running", "failed")

Next ==
    \E o \in OperationId :
        Queue(o) \/ Claim(o) \/ Execute(o) \/ Succeed(o) \/ Fail(o)

Spec == Init /\ [][Next]_vars

=============================================================================
