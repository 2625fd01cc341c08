--------------------------- MODULE RunExecution ---------------------------
(***************************************************************************)
(* The Execution context: Runs, the Workspace lock they hold, and every    *)
(* handler and background loop that moves them.                            *)
(*                                                                         *)
(*   trigger[r]   the HTTP request that triggers Run r                     *)
(*                (TriggerRunService.Execute)                              *)
(*   relay[n]     the Outbox Relay of Control Plane replica n, handling    *)
(*                one RunQueued event (RunDispatchService.HandleEvent)     *)
(*   cancel[c]    an HTTP cancel request (CancelRunService.Execute)        *)
(*   report[r]    the ReportJobStatus RPC of Run r's Job                   *)
(*                (WorkerReportService.HandleReport)                       *)
(*   reaper[n]    the Stale Run Reaper of replica n                        *)
(*   job[r]       the Job as the Worker sees it                            *)
(*                                                                         *)
(* One action is one database transaction, or one call into the Registry,  *)
(* together with the local code up to the next one.  Handlers interleave   *)
(* between transactions, as they do in the code, which takes no lock that  *)
(* spans two of them.                                                      *)
(*                                                                         *)
(* The Worker Registry is reduced to whether a route from the Run to a     *)
(* Worker is known (route) and whether a CancelJob command is on its way   *)
(* (cancelCommand).  Permissions, archival, the Workspace's engine and its *)
(* Variables belong to other contexts: their answers are free choices.     *)
(***************************************************************************)
EXTENDS FiniteSets

CONSTANTS
    Run,             \* the Runs that may ever be triggered
    Workspace,       \* Workspaces of one Organization
    Replica,         \* Control Plane replicas, each with a Relay and a Reaper
    CancelRequest,   \* concurrent HTTP cancel requests
    NoRun,           \* "no Run": an unlocked Workspace, an idle loop
    WorkspaceOf,     \* the Workspace of each Run
    MayAbort         \* whether a handler may stop between two transactions:
                     \* a crash, a canceled request context, a database error

ASSUME ExecutionAssumption ==
    /\ NoRun \notin Run
    /\ WorkspaceOf \in [Run -> Workspace]
    /\ MayAbort \in BOOLEAN

VARIABLES
    status,          \* runs.status; "none" before INSERT, "deleted" after Purge
    lockedBy,        \* workspaces.locked_by_run_id
    workspaces,      \* the Workspaces whose row exists
    queuedEvent,     \* the RunQueued row of outbox_events
    applyingEvent,   \* the age of the RunApplying rows of outbox_events
    trigger, batch, relay, cancel, report, reaper,
    job,             \* what the Worker does with the Run's JobAssignment
    route,           \* the Registry knows which Worker runs the Run
    cancelCommand    \* a CancelJob command is in the Worker's stream

dbVars == <<status, lockedBy, workspaces>>
eventVars == <<queuedEvent, applyingEvent>>
relayVars == <<batch, relay>>
workerVars == <<job, route, cancelCommand>>
vars == <<dbVars, eventVars, trigger, relayVars, cancel, report, reaper,
          workerVars>>

-----------------------------------------------------------------------------
(* Types.                                                                   *)

TerminalStatus == {"applied", "failed", "errored", "canceled"}
ActiveStatus == {"queued", "applying"}
Status == {"none", "deleted"} \cup ActiveStatus \cup TerminalStatus

\* A RunApplying event is fresh until it is older than staleAfter.  A Run
\* claimed again after RevertToQueued has several; the newest is `current`,
\* `superseded` is the oldest of the others.
EventAge == {"none", "fresh", "stale"}

RelayStep == {"idle", "claimed", "dispatching", "reverting", "failing",
              "unlocking", "publishing"}

\* Where each handler is, and which Run it handles.
RelayState == [step : RelayStep, run : Run \cup {NoRun}]
CancelState == [step : {"idle", "updating", "unlocking", "signalling"},
                run : Run \cup {NoRun}]
ReportState == [step : {"none", "received", "updating", "unlocking", "ended"},
                outcome : {"none", "applied", "failed"}]
ApplyingState == [current : EventAge, superseded : EventAge]

\* The types, among them that a Run only ever has the statuses that the
\* transactions of RunRepository know.
TypeOK ==
    /\ status \in [Run -> Status]
    /\ lockedBy \in [Workspace -> Run \cup {NoRun}]
    /\ workspaces \in SUBSET Workspace
    /\ queuedEvent \in [Run -> {"none", "pending", "published"}]
    /\ applyingEvent \in [Run -> ApplyingState]
    /\ trigger \in [Run -> {"idle", "checked", "locked", "compensating",
                            "ended"}]
    /\ batch \in [Replica -> SUBSET Run]
    /\ relay \in [Replica -> RelayState]
    /\ cancel \in [CancelRequest -> CancelState]
    /\ report \in [Run -> ReportState]
    /\ reaper \in [Replica -> Run \cup {NoRun}]
    /\ job \in [Run -> {"none", "assigned", "running", "finished", "stopped",
                        "lost"}]
    /\ route \in [Run -> BOOLEAN]
    /\ cancelCommand \in [Run -> BOOLEAN]

Idle == [step |-> "idle", run |-> NoRun]

Init ==
    /\ status = [r \in Run |-> "none"]
    /\ lockedBy = [w \in Workspace |-> NoRun]
    /\ workspaces = Workspace
    /\ queuedEvent = [r \in Run |-> "none"]
    /\ applyingEvent = [r \in Run |-> [current |-> "none",
                                       superseded |-> "none"]]
    /\ trigger = [r \in Run |-> "idle"]
    /\ batch = [n \in Replica |-> {}]
    /\ relay = [n \in Replica |-> Idle]
    /\ cancel = [c \in CancelRequest |-> Idle]
    /\ report = [r \in Run |-> [step |-> "none", outcome |-> "none"]]
    /\ reaper = [n \in Replica |-> NoRun]
    /\ job = [r \in Run |-> "none"]
    /\ route = [r \in Run |-> FALSE]
    /\ cancelCommand = [r \in Run |-> FALSE]

-----------------------------------------------------------------------------
(* The transactions of RunRepository and WorkspaceRepository.               *)

RowExists(r) == status[r] \notin {"none", "deleted"}

\* UPDATE runs SET status = ... WHERE id = r, whatever the row's status is
\* by now: the caller decided on a copy it read earlier.
Update(r, s) ==
    status' = IF RowExists(r) THEN [status EXCEPT ![r] = s] ELSE status

\* Mutant: the claim's WHERE clause forgets status = 'queued'.
ClaimActiveRun(r) ==
    /\ status[r] \in ActiveStatus
    /\ status' = [status EXCEPT ![r] = "applying"]
    /\ applyingEvent' = [applyingEvent EXCEPT ![r].current = "fresh"]

\* Mutant: the claim moves the Run to `planning`, the next status of the
\* documented life cycle, which no other transaction knows.
ClaimAsPlanning(r) ==
    /\ status[r] = "queued"
    /\ status' = [status EXCEPT ![r] = "planning"]
    /\ applyingEvent' = [applyingEvent EXCEPT ![r].current = "fresh"]

\* The conditional UPDATE that claims a queued Run, with its RunApplying
\* event in the same transaction.
TryStartApplying(r) ==
    /\ status[r] = "queued"
    /\ status' = [status EXCEPT ![r] = "applying"]
    /\ applyingEvent' =
         [applyingEvent EXCEPT ![r] =
            [current    |-> "fresh",
             superseded |-> IF @.superseded = "none" THEN @.current
                            ELSE @.superseded]]

\* Mutant: the claim is reverted whatever the Run's status is by now.
RevertAnyStatus(r) ==
    status' = [status EXCEPT ![r] = "queued"]

RevertToQueued(r) ==
    status' = IF status[r] = "applying" THEN [status EXCEPT ![r] = "queued"]
              ELSE status

FindStaleApplyingRuns ==
    {r \in Run : "stale" \in {applyingEvent[r].current,
                              applyingEvent[r].superseded}}

\* Mutant: the Reaper's WHERE clause looks for the wrong status.
MarkErroredIfQueued(r) ==
    /\ status[r] = "queued"
    /\ status' = [status EXCEPT ![r] = "errored"]

MarkErroredIfStillApplying(r) ==
    /\ status[r] = "applying"
    /\ status' = [status EXCEPT ![r] = "errored"]

\* Mutant: the lock is taken without AND locked_by_run_id IS NULL.
StealLock(r) ==
    /\ WorkspaceOf[r] \in workspaces
    /\ lockedBy' = [lockedBy EXCEPT ![WorkspaceOf[r]] = r]

TryLock(r) ==
    /\ WorkspaceOf[r] \in workspaces
    /\ lockedBy[WorkspaceOf[r]] = NoRun
    /\ lockedBy' = [lockedBy EXCEPT ![WorkspaceOf[r]] = r]

\* Releases the lock only if r is the Run that holds it.
Unlock(r) ==
    lockedBy' = IF lockedBy[WorkspaceOf[r]] = r
                THEN [lockedBy EXCEPT ![WorkspaceOf[r]] = NoRun]
                ELSE lockedBy

-----------------------------------------------------------------------------
(* TriggerRunService.Execute: check, TryLock, Create, and the best-effort   *)
(* Unlock when Create fails.                                                *)

\* WorkspaceExists, HasPermissionAtScope, IsArchived, then NewRun.
TriggerCheck(r) ==
    /\ trigger[r] = "idle"
    /\ \E allowed \in BOOLEAN :
         trigger' = [trigger EXCEPT ![r] =
            IF WorkspaceOf[r] \in workspaces /\ allowed THEN "checked"
                                                        ELSE "ended"]
    /\ UNCHANGED <<dbVars, eventVars, relayVars, cancel, report, reaper,
                   workerVars>>

TriggerTryLock(r) ==
    /\ trigger[r] = "checked"
    /\ \/ /\ TryLock(r)
          /\ trigger' = [trigger EXCEPT ![r] = "locked"]
       \/ /\ \/ WorkspaceOf[r] \notin workspaces
             \/ lockedBy[WorkspaceOf[r]] # NoRun
          /\ trigger' = [trigger EXCEPT ![r] = "ended"]
          /\ UNCHANGED lockedBy
    /\ UNCHANGED <<status, workspaces, eventVars, relayVars, cancel, report,
                   reaper, workerVars>>

\* The INSERT and its RunQueued event; the foreign key on workspaces rejects
\* it when the Workspace was purged meanwhile.
TriggerCreate(r) ==
    /\ trigger[r] = "locked"
    /\ \/ /\ WorkspaceOf[r] \in workspaces
          /\ status' = [status EXCEPT ![r] = "queued"]
          /\ queuedEvent' = [queuedEvent EXCEPT ![r] = "pending"]
          /\ trigger' = [trigger EXCEPT ![r] = "ended"]
       \/ /\ WorkspaceOf[r] \notin workspaces \/ MayAbort
          /\ trigger' = [trigger EXCEPT ![r] = "compensating"]
          /\ UNCHANGED <<status, queuedEvent>>
    /\ UNCHANGED <<lockedBy, workspaces, applyingEvent, relayVars, cancel,
                   report, reaper, workerVars>>

TriggerCompensate(r) ==
    /\ trigger[r] = "compensating"
    /\ Unlock(r)
    /\ trigger' = [trigger EXCEPT ![r] = "ended"]
    /\ UNCHANGED <<status, workspaces, eventVars, relayVars, cancel, report,
                   reaper, workerVars>>

TriggerAbort(r) ==
    /\ MayAbort
    /\ trigger[r] \in {"checked", "locked", "compensating"}
    /\ trigger' = [trigger EXCEPT ![r] = "ended"]
    /\ UNCHANGED <<dbVars, eventVars, relayVars, cancel, report, reaper,
                   workerVars>>

-----------------------------------------------------------------------------
(* Relay.relayBatch and RunDispatchService.HandleEvent: a batch is the set  *)
(* of RunQueued events unpublished when it was read; an event handled       *)
(* without an error is marked published, any other stays for a later batch. *)

Step(n, s) == relay' = [relay EXCEPT ![n].step = s]

\* Done with the event at hand, published or not.
NextEvent(n) ==
    /\ relay' = [relay EXCEPT ![n] = Idle]
    /\ batch' = [batch EXCEPT ![n] = @ \ {relay[n].run}]

RelayPoll(n) ==
    /\ relay[n].step = "idle"
    /\ batch[n] = {}
    /\ batch' = [batch EXCEPT ![n] = {r \in Run : queuedEvent[r] = "pending"}]
    /\ batch'[n] # {}
    /\ UNCHANGED <<dbVars, eventVars, trigger, relay, cancel, report, reaper,
                   workerVars>>

\* The claim.  A Run that is not queued any more needs no dispatch: the
\* handler returns nil and the event is published.
DispatchClaim(n, r) ==
    /\ relay[n].step = "idle"
    /\ r \in batch[n]
    /\ \/ /\ TryStartApplying(r)
          /\ relay' = [relay EXCEPT ![n] = [step |-> "claimed", run |-> r]]
       \/ /\ status[r] # "queued"
          /\ relay' = [relay EXCEPT ![n] = [step |-> "publishing", run |-> r]]
          /\ UNCHANGED <<status, applyingEvent>>
    /\ UNCHANGED <<lockedBy, workspaces, queuedEvent, trigger, batch, cancel,
                   report, reaper, workerVars>>

\* GetByID, GetExecutionEngine and ResolveValue.  A deleted row is an error.
\* Missing configuration fails the Run, if MarkFailed accepts the status read.
DispatchResolve(n) ==
    LET r == relay[n].run IN
    /\ relay[n].step = "claimed"
    /\ \/ /\ status[r] # "deleted"
          /\ Step(n, "dispatching")
          /\ UNCHANGED batch
       \/ /\ status[r] = "applying"
          /\ Step(n, "failing")
          /\ UNCHANGED batch
       \/ /\ status[r] # "applying"
          /\ NextEvent(n)
    /\ UNCHANGED <<dbVars, eventVars, trigger, cancel, report, reaper,
                   workerVars>>

\* Registry.Dispatch: a Worker with room takes the JobAssignment, or none does.
Dispatch(n) ==
    LET r == relay[n].run IN
    /\ relay[n].step = "dispatching"
    /\ \/ /\ job' = [job EXCEPT ![r] = "assigned"]
          /\ route' = [route EXCEPT ![r] = TRUE]
          /\ Step(n, "publishing")
       \/ /\ Step(n, "reverting")
          /\ UNCHANGED <<job, route>>
    /\ UNCHANGED <<dbVars, eventVars, trigger, batch, cancel, report, reaper,
                   cancelCommand>>

\* Mutant: after reverting the claim the handler returns nil.
RevertAndPublish(n) ==
    /\ relay[n].step = "reverting"
    /\ RevertToQueued(relay[n].run)
    /\ Step(n, "publishing")
    /\ UNCHANGED <<lockedBy, workspaces, eventVars, trigger, batch, cancel,
                   report, reaper, workerVars>>

\* No Worker: revert the claim and return an error, the event stays pending.
DispatchRevert(n) ==
    /\ relay[n].step = "reverting"
    /\ RevertToQueued(relay[n].run)
    /\ NextEvent(n)
    /\ UNCHANGED <<lockedBy, workspaces, eventVars, trigger, cancel, report,
                   reaper, workerVars>>

FailUpdate(n) ==
    /\ relay[n].step = "failing"
    /\ Update(relay[n].run, "failed")
    /\ Step(n, "unlocking")
    /\ UNCHANGED <<lockedBy, workspaces, eventVars, trigger, batch, cancel,
                   report, reaper, workerVars>>

FailUnlock(n) ==
    /\ relay[n].step = "unlocking"
    /\ Unlock(relay[n].run)
    /\ Step(n, "publishing")
    /\ UNCHANGED <<status, workspaces, eventVars, trigger, batch, cancel,
                   report, reaper, workerVars>>

RelayPublish(n) ==
    /\ relay[n].step = "publishing"
    /\ queuedEvent' = [queuedEvent EXCEPT ![relay[n].run] = "published"]
    /\ NextEvent(n)
    /\ UNCHANGED <<dbVars, applyingEvent, trigger, cancel, report, reaper,
                   workerVars>>

\* The handler returns an error between two transactions and the loop goes
\* on with the next event, or the replica restarts and its batch is gone.
RelayAbort(n) ==
    /\ MayAbort
    /\ relay[n].step # "idle"
    /\ relay' = [relay EXCEPT ![n] = Idle]
    /\ \E rest \in {batch[n] \ {relay[n].run}, {}} :
         batch' = [batch EXCEPT ![n] = rest]
    /\ UNCHANGED <<dbVars, eventVars, trigger, cancel, report, reaper,
                   workerVars>>

-----------------------------------------------------------------------------
(* CancelRunService.Execute.                                                *)

\* GetByID, then Run.Cancel on the copy read: rejected if it is terminal.
CancelLoad(c, r) ==
    /\ cancel[c] = Idle
    /\ status[r] \in ActiveStatus
    /\ cancel' = [cancel EXCEPT ![c] = [step |-> "updating", run |-> r]]
    /\ UNCHANGED <<dbVars, eventVars, trigger, relayVars, report, reaper,
                   workerVars>>

CancelUpdate(c) ==
    /\ cancel[c].step = "updating"
    /\ Update(cancel[c].run, "canceled")
    /\ cancel' = [cancel EXCEPT ![c].step = "unlocking"]
    /\ UNCHANGED <<lockedBy, workspaces, eventVars, trigger, relayVars,
                   report, reaper, workerVars>>

CancelUnlock(c) ==
    /\ cancel[c].step = "unlocking"
    /\ Unlock(cancel[c].run)
    /\ cancel' = [cancel EXCEPT ![c].step = "signalling"]
    /\ UNCHANGED <<status, workspaces, eventVars, trigger, relayVars, report,
                   reaper, workerVars>>

\* Registry.CancelJob, best effort: with a route the command is pushed, and
\* the route is forgotten whether or not the Worker's channel had room.
CancelSignal(c) ==
    LET r == cancel[c].run IN
    /\ cancel[c].step = "signalling"
    /\ cancel' = [cancel EXCEPT ![c] = Idle]
    /\ route' = [route EXCEPT ![r] = FALSE]
    /\ \/ cancelCommand' = [cancelCommand EXCEPT ![r] = @ \/ route[r]]
       \/ MayAbort /\ UNCHANGED cancelCommand
    /\ UNCHANGED <<dbVars, eventVars, trigger, relayVars, report, reaper, job>>

CancelAbort(c) ==
    /\ MayAbort
    /\ cancel[c] # Idle
    /\ cancel' = [cancel EXCEPT ![c] = Idle]
    /\ UNCHANGED <<dbVars, eventVars, trigger, relayVars, report, reaper,
                   workerVars>>

-----------------------------------------------------------------------------
(* The Worker: runOnce receives commands in order, handleJob runs the Job   *)
(* and reports it, once and without a retry.                                *)

WorkerReceive(r) ==
    /\ job[r] = "assigned"
    /\ job' = [job EXCEPT ![r] = "running"]
    /\ UNCHANGED <<dbVars, eventVars, trigger, relayVars, cancel, report,
                   reaper, route, cancelCommand>>

\* A CancelJob for a Job that is not running is ignored.
WorkerCancel(r) ==
    /\ cancelCommand[r]
    /\ job[r] # "assigned"
    /\ cancelCommand' = [cancelCommand EXCEPT ![r] = FALSE]
    /\ job' = IF job[r] = "running" THEN [job EXCEPT ![r] = "stopped"] ELSE job
    /\ UNCHANGED <<dbVars, eventVars, trigger, relayVars, cancel, report,
                   reaper, route>>

WorkerFinish(r) ==
    /\ job[r] = "running"
    /\ job' = [job EXCEPT ![r] = "finished"]
    /\ \E outcome \in {"applied", "failed"} :
         report' = [report EXCEPT ![r] = [step |-> "received",
                                          outcome |-> outcome]]
    /\ UNCHANGED <<dbVars, eventVars, trigger, relayVars, cancel, reaper,
                   route, cancelCommand>>

\* The Worker dies, or its stream breaks with the assignment still queued.
WorkerLose(r) ==
    /\ job[r] \in {"assigned", "running"}
    /\ job' = [job EXCEPT ![r] = "lost"]
    /\ UNCHANGED <<dbVars, eventVars, trigger, relayVars, cancel, report,
                   reaper, route, cancelCommand>>

-----------------------------------------------------------------------------
(* WorkerReportService.HandleReport.                                        *)

ReportStep(r, s) == report' = [report EXCEPT ![r].step = s]

ReportEnd(r) ==
    report' = [report EXCEPT ![r] = [step |-> "ended", outcome |-> "none"]]

\* GetByID, then MarkApplied/MarkFailed on the copy read.  A Run that is not
\* applying makes the report a no-op; a deleted one makes it an error.
ReportLoad(r) ==
    /\ report[r].step = "received"
    /\ \/ status[r] = "applying" /\ ReportStep(r, "updating")
       \/ status[r] # "applying" /\ ReportEnd(r)
    /\ UNCHANGED <<dbVars, eventVars, trigger, relayVars, cancel, reaper,
                   workerVars>>

ReportUpdate(r) ==
    /\ report[r].step = "updating"
    /\ Update(r, report[r].outcome)
    /\ ReportStep(r, "unlocking")
    /\ UNCHANGED <<lockedBy, workspaces, eventVars, trigger, relayVars,
                   cancel, reaper, workerVars>>

\* Mutant: a reported Run's Workspace is not unlocked.
ReportWithoutUnlock(r) ==
    /\ report[r].step = "unlocking"
    /\ route' = [route EXCEPT ![r] = FALSE]
    /\ ReportEnd(r)
    /\ UNCHANGED <<dbVars, eventVars, trigger, relayVars, cancel, reaper, job,
                   cancelCommand>>

\* RunTracker.Forget, then Unlock.
ReportUnlock(r) ==
    /\ report[r].step = "unlocking"
    /\ route' = [route EXCEPT ![r] = FALSE]
    /\ Unlock(r)
    /\ ReportEnd(r)
    /\ UNCHANGED <<status, workspaces, eventVars, trigger, relayVars, cancel,
                   reaper, job, cancelCommand>>

ReportAbort(r) ==
    /\ MayAbort
    /\ report[r].step \in {"received", "updating", "unlocking"}
    /\ ReportEnd(r)
    /\ UNCHANGED <<dbVars, eventVars, trigger, relayVars, cancel, reaper,
                   workerVars>>

-----------------------------------------------------------------------------
(* StaleRunReaperService.reapOnce.                                          *)

\* Time passes: the oldest RunApplying event that is still fresh gets older
\* than staleAfter.  The age of a settled Run's events decides nothing.
AgeEvent(r) ==
    /\ status[r] \in ActiveStatus
    /\ \/ /\ applyingEvent[r].superseded = "fresh"
          /\ applyingEvent' = [applyingEvent EXCEPT ![r].superseded = "stale"]
       \/ /\ applyingEvent[r].superseded # "fresh"
          /\ applyingEvent[r].current = "fresh"
          /\ applyingEvent' = [applyingEvent EXCEPT ![r].current = "stale"]
    /\ UNCHANGED <<dbVars, queuedEvent, trigger, relayVars, cancel, report,
                   reaper, workerVars>>

\* A candidate that is not applying any more is skipped.
ReapMark(n, r) ==
    /\ reaper[n] = NoRun
    /\ r \in FindStaleApplyingRuns
    /\ MarkErroredIfStillApplying(r)
    /\ reaper' = [reaper EXCEPT ![n] = r]
    /\ UNCHANGED <<lockedBy, workspaces, eventVars, trigger, relayVars,
                   cancel, report, workerVars>>

\* Unlock, then RunTracker.Forget.
ReapUnlock(n) ==
    /\ reaper[n] # NoRun
    /\ Unlock(reaper[n])
    /\ route' = [route EXCEPT ![reaper[n]] = FALSE]
    /\ reaper' = [reaper EXCEPT ![n] = NoRun]
    /\ UNCHANGED <<status, workspaces, eventVars, trigger, relayVars, cancel,
                   report, job, cancelCommand>>

ReapAbort(n) ==
    /\ MayAbort
    /\ reaper[n] # NoRun
    /\ reaper' = [reaper EXCEPT ![n] = NoRun]
    /\ UNCHANGED <<dbVars, eventVars, trigger, relayVars, cancel, report,
                   workerVars>>

-----------------------------------------------------------------------------
\* DeleteWorkspaceService: the hard delete of a Workspace and its Runs, with
\* no guard on the lock.  outbox_events keeps their events.
PurgeWorkspace(w) ==
    /\ w \in workspaces
    /\ workspaces' = workspaces \ {w}
    /\ lockedBy' = [lockedBy EXCEPT ![w] = NoRun]
    /\ status' = [r \in Run |->
                    IF WorkspaceOf[r] = w /\ status[r] # "none"
                    THEN "deleted" ELSE status[r]]
    /\ UNCHANGED <<eventVars, trigger, relayVars, cancel, report, reaper,
                   workerVars>>

-----------------------------------------------------------------------------
TriggerNext(r) ==
    \/ TriggerCheck(r)
    \/ TriggerTryLock(r)
    \/ TriggerCreate(r)
    \/ TriggerCompensate(r)
    \/ TriggerAbort(r)

RelayNext(n) ==
    \/ RelayPoll(n)
    \/ \E r \in Run : DispatchClaim(n, r)
    \/ DispatchResolve(n)
    \/ Dispatch(n)
    \/ DispatchRevert(n)
    \/ FailUpdate(n)
    \/ FailUnlock(n)
    \/ RelayPublish(n)
    \/ RelayAbort(n)

CancelNext(c) ==
    \/ \E r \in Run : CancelLoad(c, r)
    \/ CancelUpdate(c)
    \/ CancelUnlock(c)
    \/ CancelSignal(c)
    \/ CancelAbort(c)

WorkerNext(r) ==
    \/ WorkerReceive(r)
    \/ WorkerCancel(r)
    \/ WorkerFinish(r)
    \/ WorkerLose(r)

ReportNext(r) ==
    \/ ReportLoad(r)
    \/ ReportUpdate(r)
    \/ ReportUnlock(r)
    \/ ReportAbort(r)

ReaperNext(n) ==
    \/ \E r \in Run : ReapMark(n, r)
    \/ ReapUnlock(n)
    \/ ReapAbort(n)

Next ==
    \/ \E r \in Run : TriggerNext(r)
    \/ \E n \in Replica : RelayNext(n)
    \/ \E c \in CancelRequest : CancelNext(c)
    \/ \E r \in Run : WorkerNext(r)
    \/ \E r \in Run : ReportNext(r)
    \/ \E r \in Run : AgeEvent(r)
    \/ \E n \in Replica : ReaperNext(n)
    \/ \E w \in Workspace : PurgeWorkspace(w)

Spec == Init /\ [][Next]_vars

\* Every goroutine of a running Control Plane goes on: a request, an RPC or a
\* loop that can take its next step takes it, and time passes.  Nothing is
\* assumed of users, of Workers or of what Registry.Dispatch finds.
Fairness ==
    /\ \A r \in Run : /\ WF_vars(TriggerNext(r))
                      /\ WF_vars(ReportNext(r))
                      /\ WF_vars(AgeEvent(r))
    /\ \A n \in Replica : /\ WF_vars(RelayNext(n))
                          /\ WF_vars(ReapUnlock(n))
                          /\ \A r \in Run : WF_vars(ReapMark(n, r))
    /\ \A c \in CancelRequest :
         WF_vars(CancelUpdate(c) \/ CancelUnlock(c) \/ CancelSignal(c))

FairSpec == Spec /\ Fairness

-----------------------------------------------------------------------------
(* What the code promises, as an abstract specification.                    *)

\* The abstract state is part of the concrete one: rows of the database.
Lifecycle ==
    INSTANCE RunLifecycle
    WITH Run <- Run, Workspace <- Workspace, NoRun <- NoRun, WorkspaceOf <- WorkspaceOf,
         status <- status, lockedBy <- lockedBy, workspaces <- workspaces

\* Trigger, dispatch, cancel, report, reaper and purge together implement the
\* atomic life cycle: a Run is created only under its Workspace's lock, a
\* settled Run is never active again, an active Run's lock is never released.
ImplementsLifecycle == Lifecycle!Spec

-----------------------------------------------------------------------------
(* Safety.                                                                  *)

\* "Only one Run may be in a non-terminal status per Workspace at a time"
\* (WorkspaceLocker in application/ports.go).
OneActiveRunPerWorkspace ==
    \A r1, r2 \in Run :
        /\ status[r1] \in ActiveStatus
        /\ status[r2] \in ActiveStatus
        /\ WorkspaceOf[r1] = WorkspaceOf[r2]
        => r1 = r2

\* No Run is pushed to a Worker twice, however often its RunQueued event is
\* redelivered and whichever replicas handle it (TryStartApplying and
\* RevertToQueued): one replica at most is between claim and dispatch, and
\* only while no Worker has the Job.
DispatchedAtMostOnce ==
    \A n \in Replica :
        relay[n].step \in {"claimed", "dispatching", "reverting"} =>
            /\ job[relay[n].run] = "none"
            /\ \A m \in Replica :
                 /\ relay[m].run = relay[n].run
                 /\ relay[m].step \in {"claimed", "dispatching", "reverting"}
                 => m = n

\* Somebody is about to release the lock that r holds.
UnlockPending(r) ==
    \/ trigger[r] \in {"locked", "compensating"}
    \/ \E n \in Replica : \/ /\ relay[n].run = r
                             /\ relay[n].step \in {"failing", "unlocking"}
                          \/ reaper[n] = r
    \/ \E c \in CancelRequest : /\ cancel[c].run = r
                                /\ cancel[c].step \in {"updating", "unlocking"}
    \/ report[r].step \in {"updating", "unlocking"}

\* The lock IS "a non-terminal Run exists" (WorkspaceLocker in ports.go): a
\* Workspace locked by a Run that is not active is about to be unlocked.
LockHasReason ==
    \A w \in Workspace :
        lockedBy[w] # NoRun =>
            \/ status[lockedBy[w]] \in ActiveStatus
            \/ UnlockPending(lockedBy[w])

\* A queued Run still has its RunQueued event to be redelivered: "a later
\* retry naturally has a chance" (Registry.Dispatch in registry.go).
QueuedHasDelivery ==
    \A r \in Run : status[r] = "queued" => queuedEvent[r] = "pending"

\* A terminal status is final: "canceling an already-terminal Run is
\* rejected, not silently accepted" (Run.Cancel in domain/run.go).
TerminalIsFinal ==
    [][\A r \in Run : status[r] \in TerminalStatus
                        => status'[r] \in {status[r], "deleted"}]_vars

\* The Reaper errors out "Runs that have been `applying` longer than
\* staleAfter" (StaleRunReaperService): not one claimed a moment ago.
ReapedOnlyWhenStale ==
    [][\A r \in Run : status[r] = "applying" /\ status'[r] = "errored"
                        => applyingEvent[r].current = "stale"]_vars

\* A cancel is "a real Cancel command reaching the Worker that's actually
\* running the Job, not just a DB status flip" (WorkerCanceler in ports.go).
CanceledJobIsTold ==
    \A r \in Run :
        /\ status[r] = "canceled"
        /\ job[r] \in {"assigned", "running"}
        => \/ cancelCommand[r]
           \/ \E c \in CancelRequest : cancel[c].run = r

-----------------------------------------------------------------------------
(* Liveness.                                                                *)

\* A Run does not stay applying for ever, even if the replica that claimed it
\* stops before it dispatches it, and a dispatched Run settles, even if its
\* Worker dies mid-Job and never reports (what StaleRunReaperService is for).
DispatchedRunSettles ==
    \A r \in Run :
        /\ status[r] = "applying" ~> status[r] # "applying"
        /\ job[r] # "none" ~> status[r] \in TerminalStatus \cup {"deleted"}

\* A queued Run is claimed again and again until something else becomes of it.
QueuedRunIsRetried ==
    \A r \in Run : status[r] = "queued" ~> status[r] # "queued"

=============================================================================
