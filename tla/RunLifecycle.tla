--------------------------- MODULE RunLifecycle ---------------------------
(***************************************************************************)
(* What the Execution context promises about Runs and Workspace locks,     *)
(* with every in-flight handler, message and background loop hidden: a     *)
(* Run is enqueued only under its Workspace's lock, moves between queued   *)
(* and applying, settles in a terminal status and is never active again,   *)
(* and the lock is released only when its holder is not active.            *)
(*                                                                         *)
(* RunExecution, the model of the code, is shown to implement it.          *)
(***************************************************************************)
CONSTANTS
    Run,           \* the Runs that may ever be triggered
    Workspace,     \* the Workspaces of one Organization
    NoRun,         \* what the lock of an unlocked Workspace holds
    WorkspaceOf    \* the Workspace of each Run

VARIABLES
    status,      \* runs.status; "none" before the INSERT, "deleted" after it
    lockedBy,    \* workspaces.locked_by_run_id
    workspaces   \* the Workspaces whose row exists

vars == <<status, lockedBy, workspaces>>

\* RunStatus.IsTerminal of domain/run.go.
TerminalStatus == {"applied", "failed", "errored", "canceled"}

\* The non-terminal statuses this code base's own code ever produces.
ActiveStatus == {"queued", "applying"}

Init ==
    /\ status = [r \in Run |-> "none"]
    /\ lockedBy = [w \in Workspace |-> NoRun]
    /\ workspaces = Workspace

Acquire(r) ==
    /\ status[r] = "none"
    /\ WorkspaceOf[r] \in workspaces
    /\ lockedBy[WorkspaceOf[r]] = NoRun
    /\ lockedBy' = [lockedBy EXCEPT ![WorkspaceOf[r]] = r]
    /\ UNCHANGED <<status, workspaces>>

Enqueue(r) ==
    /\ status[r] = "none"
    /\ WorkspaceOf[r] \in workspaces
    /\ lockedBy[WorkspaceOf[r]] = r
    /\ status' = [status EXCEPT ![r] = "queued"]
    /\ UNCHANGED <<lockedBy, workspaces>>

Start(r) ==
    /\ status[r] = "queued"
    /\ status' = [status EXCEPT ![r] = "applying"]
    /\ UNCHANGED <<lockedBy, workspaces>>

Requeue(r) ==
    /\ status[r] = "applying"
    /\ status' = [status EXCEPT ![r] = "queued"]
    /\ UNCHANGED <<lockedBy, workspaces>>

\* A later writer may replace one terminal status by another, never by an
\* active one.
Settle(r) ==
    /\ status[r] \in ActiveStatus \cup TerminalStatus
    /\ \E s \in TerminalStatus : status' = [status EXCEPT ![r] = s]
    /\ UNCHANGED <<lockedBy, workspaces>>

Release(r) ==
    /\ lockedBy[WorkspaceOf[r]] = r
    /\ status[r] \notin ActiveStatus
    /\ lockedBy' = [lockedBy EXCEPT ![WorkspaceOf[r]] = NoRun]
    /\ UNCHANGED <<status, workspaces>>

Purge(w) ==
    /\ w \in workspaces
    /\ workspaces' = workspaces \ {w}
    /\ lockedBy' = [lockedBy EXCEPT ![w] = NoRun]
    /\ status' = [r \in Run |->
                    IF WorkspaceOf[r] = w /\ status[r] # "none"
                    THEN "deleted" ELSE status[r]]

Next ==
    \/ \E r \in Run : \/ Acquire(r)
                      \/ Enqueue(r)
                      \/ Start(r)
                      \/ Requeue(r)
                      \/ Settle(r)
                      \/ Release(r)
    \/ \E w \in Workspace : Purge(w)

Spec == Init /\ [][Next]_vars

=============================================================================
