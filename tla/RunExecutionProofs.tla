------------------------ MODULE RunExecutionProofs ------------------------
(***************************************************************************)
(* Proofs about RunExecution, for any number of Runs, Workspaces, replicas *)
(* and cancel requests, with or without handlers that stop half way:       *)
(* at most one active Run per Workspace, at most one dispatch per Run, and *)
(* the implementation of RunLifecycle.                                     *)
(***************************************************************************)
EXTENDS RunExecution, TLAPS

-----------------------------------------------------------------------------
(* The inductive invariant.  OneActiveRunPerWorkspace alone is not          *)
(* inductive: that no lock is taken from an active Run rests on every       *)
(* Unlock coming from a handler whose Run has already settled.              *)

SettledStatus == TerminalStatus \cup {"deleted"}

\* An active Run holds the lock of its Workspace, which exists.
ActiveHoldsLock ==
    \A r \in Run : status[r] \in ActiveStatus =>
        /\ WorkspaceOf[r] \in workspaces
        /\ lockedBy[WorkspaceOf[r]] = r

\* Until Create the Run has no row; between TryLock and Create it holds the
\* lock unless the Workspace is purged.
TriggerBeforeCreate ==
    \A r \in Run :
        /\ trigger[r] \in {"idle", "checked", "locked", "compensating"}
             => status[r] = "none"
        /\ trigger[r] = "locked" /\ WorkspaceOf[r] \in workspaces
             => lockedBy[WorkspaceOf[r]] = r

\* Whoever handles a Run handles one that was created.
HandledRunExists ==
    /\ \A r \in Run : status[r] = "none" =>
         /\ queuedEvent[r] = "none"
         /\ report[r].step = "none"
         /\ job[r] = "none"
    /\ \A n \in Replica :
         /\ \A r \in batch[n] : status[r] # "none"
         /\ relay[n].step # "idle" =>
              relay[n].run \in Run /\ status[relay[n].run] # "none"
    /\ \A c \in CancelRequest : cancel[c].step # "idle" =>
         cancel[c].run \in Run /\ status[cancel[c].run] # "none"

\* Whoever is about to unlock has seen its Run settle.
SettledBeforeUnlock ==
    /\ \A n \in Replica :
         /\ relay[n].step = "unlocking"
              => status[relay[n].run] \in SettledStatus
         /\ reaper[n] # NoRun => status[reaper[n]] \in SettledStatus
    /\ \A c \in CancelRequest : cancel[c].step \in {"unlocking", "signalling"}
         => status[cancel[c].run] \in SettledStatus
    /\ \A r \in Run : report[r].step = "unlocking"
         => status[r] \in SettledStatus

\* A report that may still be written carries what the Job came to.
ReportHasOutcome ==
    \A r \in Run : report[r].step \in {"received", "updating"}
                     => report[r].outcome \in {"applied", "failed"}

LifecycleInv ==
    /\ TypeOK
    /\ ActiveHoldsLock
    /\ TriggerBeforeCreate
    /\ HandledRunExists
    /\ SettledBeforeUnlock
    /\ ReportHasOutcome

\* Replica n has claimed its Run and may still push it to a Worker.
Claiming(n) == relay[n].step \in {"claimed", "dispatching", "reverting"}

\* A queued Run is nobody's; a claimed one is one replica's, and no Worker's.
ClaimIsExclusive ==
    /\ \A r \in Run : status[r] = "queued" => job[r] = "none"
    /\ \A n \in Replica : Claiming(n) =>
         /\ job[relay[n].run] = "none"
         /\ status[relay[n].run] # "queued"
         /\ \A m \in Replica :
              relay[m].run = relay[n].run /\ Claiming(m) => m = n

-----------------------------------------------------------------------------
(* Type correctness.                                                        *)

\* Every initial state is type correct.
LEMMA TypeInit == Init => TypeOK
  BY ExecutionAssumption DEF Init, TypeOK, Idle, RelayStep, EventAge, Status,
       RelayState, CancelState, ReportState, ApplyingState

\* A handler that moves on to its next step keeps the type of its position.
LEMMA StepType ==
  ASSUME NEW n \in Replica, NEW s \in RelayStep,
         relay \in [Replica -> RelayState], Step(n, s)
  PROVE  relay' \in [Replica -> RelayState]
<1>1. [relay[n] EXCEPT !.step = s] \in RelayState
  BY DEF RelayState
<1>. QED  BY <1>1 DEF Step

\* Leaving the event at hand keeps the types of relay and batch.
LEMMA NextEventType ==
  ASSUME NEW n \in Replica, relay \in [Replica -> RelayState],
         batch \in [Replica -> SUBSET Run], NextEvent(n)
  PROVE  /\ relay' \in [Replica -> RelayState]
         /\ batch' \in [Replica -> SUBSET Run]
<1>1. Idle \in RelayState
  BY DEF Idle, RelayState, RelayStep
<1>. QED  BY <1>1 DEF NextEvent

\* The claim keeps the types of status and of the RunApplying ages.
LEMMA ClaimType ==
  ASSUME NEW r \in Run, TryStartApplying(r), status \in [Run -> Status],
         applyingEvent \in [Run -> ApplyingState]
  PROVE  /\ status' \in [Run -> Status]
         /\ applyingEvent' \in [Run -> ApplyingState]
  BY DEF TryStartApplying, ApplyingState, EventAge, Status, ActiveStatus

\* A cancel request that moves on keeps the type of its position.
LEMMA CancelStepType ==
  ASSUME NEW c \in CancelRequest, NEW s \in {"unlocking", "signalling"},
         cancel \in [CancelRequest -> CancelState]
  PROVE  [cancel EXCEPT ![c].step = s] \in [CancelRequest -> CancelState]
<1>1. [cancel[c] EXCEPT !.step = s] \in CancelState
  BY DEF CancelState
<1>. QED  BY <1>1

\* A report that moves on keeps the type of its position.
LEMMA ReportStepType ==
  ASSUME NEW r \in Run, NEW s \in {"updating", "unlocking"},
         report \in [Run -> ReportState], ReportStep(r, s)
  PROVE  report' \in [Run -> ReportState]
<1>1. [report[r] EXCEPT !.step = s] \in ReportState
  BY DEF ReportState
<1>. QED  BY <1>1 DEF ReportStep

\* A report that ends keeps the type of its position.
LEMMA ReportEndType ==
  ASSUME NEW r \in Run, report \in [Run -> ReportState], ReportEnd(r)
  PROVE  report' \in [Run -> ReportState]
  BY DEF ReportEnd, ReportState

\* Every step, of every handler and loop, preserves type correctness.
LEMMA TypeStep == TypeOK /\ [Next]_vars => TypeOK'
<1>. SUFFICES ASSUME TypeOK, [Next]_vars PROVE TypeOK'
  OBVIOUS
<1>. USE ExecutionAssumption DEF TypeOK, Status, TerminalStatus, ActiveStatus,
       vars, dbVars, eventVars, relayVars, workerVars
<1>1. ASSUME NEW r \in Run, TriggerNext(r) PROVE TypeOK'
  <2>1. CASE TriggerCheck(r)
    BY <2>1 DEF TriggerCheck
  <2>2. CASE TriggerTryLock(r)
    BY <2>2 DEF TriggerTryLock, TryLock
  <2>3. CASE TriggerCreate(r)
    BY <2>3 DEF TriggerCreate
  <2>4. CASE TriggerCompensate(r)
    BY <2>4 DEF TriggerCompensate, Unlock
  <2>5. CASE TriggerAbort(r)
    BY <2>5 DEF TriggerAbort
  <2>. QED  BY <1>1, <2>1, <2>2, <2>3, <2>4, <2>5 DEF TriggerNext
<1>2. ASSUME NEW n \in Replica, RelayNext(n) PROVE TypeOK'
  <2>1. CASE RelayPoll(n)
    BY <2>1 DEF RelayPoll
  <2>2. ASSUME NEW r \in Run, DispatchClaim(n, r) PROVE TypeOK'
    <3>1. relay' \in [Replica -> RelayState]
      BY <2>2 DEF DispatchClaim, RelayState, RelayStep
    <3>. QED  BY <2>2, <3>1, ClaimType DEF DispatchClaim
  <2>3. CASE DispatchResolve(n)
    BY <2>3, StepType, NextEventType DEF DispatchResolve, RelayStep
  <2>4. CASE Dispatch(n)
    BY <2>4, StepType DEF Dispatch, RelayStep
  <2>5. CASE DispatchRevert(n)
    BY <2>5, NextEventType DEF DispatchRevert, RevertToQueued
  <2>6. CASE FailUpdate(n)
    BY <2>6, StepType DEF FailUpdate, Update, RelayStep
  <2>7. CASE FailUnlock(n)
    BY <2>7, StepType DEF FailUnlock, Unlock, RelayStep
  <2>8. CASE RelayPublish(n)
    BY <2>8, NextEventType DEF RelayPublish
  <2>9. CASE RelayAbort(n)
    BY <2>9 DEF RelayAbort, Idle, RelayState, RelayStep
  <2>. QED  BY <1>2, <2>1, <2>2, <2>3, <2>4, <2>5, <2>6, <2>7, <2>8, <2>9
            DEF RelayNext
<1>3. ASSUME NEW c \in CancelRequest, CancelNext(c) PROVE TypeOK'
  <2>1. ASSUME NEW r \in Run, CancelLoad(c, r) PROVE TypeOK'
    BY <2>1 DEF CancelLoad, CancelState
  <2>2. CASE CancelUpdate(c)
    BY <2>2, CancelStepType DEF CancelUpdate, Update
  <2>3. CASE CancelUnlock(c)
    BY <2>3, CancelStepType DEF CancelUnlock, Unlock
  <2>4. CASE CancelSignal(c)
    BY <2>4 DEF CancelSignal, Idle, CancelState
  <2>5. CASE CancelAbort(c)
    BY <2>5 DEF CancelAbort, Idle, CancelState
  <2>. QED  BY <1>3, <2>1, <2>2, <2>3, <2>4, <2>5 DEF CancelNext
<1>4. ASSUME NEW r \in Run, WorkerNext(r) PROVE TypeOK'
  <2>1. CASE WorkerReceive(r)
    BY <2>1 DEF WorkerReceive
  <2>2. CASE WorkerCancel(r)
    BY <2>2 DEF WorkerCancel
  <2>3. CASE WorkerFinish(r)
    BY <2>3 DEF WorkerFinish, ReportState
  <2>4. CASE WorkerLose(r)
    BY <2>4 DEF WorkerLose
  <2>. QED  BY <1>4, <2>1, <2>2, <2>3, <2>4 DEF WorkerNext
<1>5. ASSUME NEW r \in Run, ReportNext(r) PROVE TypeOK'
  <2>1. CASE ReportLoad(r)
    BY <2>1, ReportStepType, ReportEndType DEF ReportLoad
  <2>2. CASE ReportUpdate(r)
    BY <2>2, ReportStepType DEF ReportUpdate, Update, ReportState
  <2>3. CASE ReportUnlock(r)
    BY <2>3, ReportEndType DEF ReportUnlock, Unlock
  <2>4. CASE ReportAbort(r)
    BY <2>4, ReportEndType DEF ReportAbort
  <2>. QED  BY <1>5, <2>1, <2>2, <2>3, <2>4 DEF ReportNext
<1>6. ASSUME NEW r \in Run, AgeEvent(r) PROVE TypeOK'
  BY <1>6 DEF AgeEvent, EventAge, ApplyingState
<1>7. ASSUME NEW n \in Replica, ReaperNext(n) PROVE TypeOK'
  <2>1. ASSUME NEW r \in Run, ReapMark(n, r) PROVE TypeOK'
    BY <2>1 DEF ReapMark, MarkErroredIfStillApplying
  <2>2. CASE ReapUnlock(n)
    BY <2>2 DEF ReapUnlock, Unlock
  <2>3. CASE ReapAbort(n)
    BY <2>3 DEF ReapAbort
  <2>. QED  BY <1>7, <2>1, <2>2, <2>3 DEF ReaperNext
<1>8. ASSUME NEW w \in Workspace, PurgeWorkspace(w) PROVE TypeOK'
  BY <1>8 DEF PurgeWorkspace
<1>9. CASE UNCHANGED vars
  BY <1>9 
<1>. QED  BY <1>1, <1>2, <1>3, <1>4, <1>5, <1>6, <1>7, <1>8, <1>9 DEF Next

\* TypeOK holds throughout: every handler leaves Runs, locks, events and its
\* own position in a state the code has a name for.
THEOREM TypeCorrect == Spec => []TypeOK
  BY TypeInit, TypeStep, PTL DEF Spec

-----------------------------------------------------------------------------
(* What a handler's move changes, and what it leaves alone.                 *)

\* A Relay that moves on keeps its Run; the other Relays do not move.
LEMMA StepEffect ==
  ASSUME NEW n \in Replica, NEW s, relay \in [Replica -> RelayState], Step(n, s)
  PROVE  /\ relay'[n].step = s
         /\ relay'[n].run = relay[n].run
         /\ \A m \in Replica \ {n} : relay'[m] = relay[m]
  BY DEF Step, RelayState

\* A Relay that leaves its event is idle; no batch grows.
LEMMA NextEventEffect ==
  ASSUME NEW n \in Replica, relay \in [Replica -> RelayState],
         batch \in [Replica -> SUBSET Run], NextEvent(n)
  PROVE  /\ relay'[n].step = "idle"
         /\ \A m \in Replica \ {n} : relay'[m] = relay[m]
         /\ \A m \in Replica : batch'[m] \subseteq batch[m]
  BY DEF NextEvent, Idle

\* A cancel request that moves on keeps its Run.
LEMMA CancelStepEffect ==
  ASSUME NEW c \in CancelRequest, NEW s,
         cancel \in [CancelRequest -> CancelState],
         cancel' = [cancel EXCEPT ![c].step = s]
  PROVE  /\ cancel'[c].step = s
         /\ cancel'[c].run = cancel[c].run
         /\ \A d \in CancelRequest \ {c} : cancel'[d] = cancel[d]
  BY DEF CancelState

\* A report that moves on keeps its outcome.
LEMMA ReportStepEffect ==
  ASSUME NEW r \in Run, NEW s, report \in [Run -> ReportState], ReportStep(r, s)
  PROVE  /\ report'[r].step = s
         /\ report'[r].outcome = report[r].outcome
         /\ \A q \in Run \ {r} : report'[q] = report[q]
  BY DEF ReportStep, ReportState

\* An unconditional write of a terminal status never revives a Run.
LEMMA UpdateEffect ==
  ASSUME NEW r \in Run, NEW s \in TerminalStatus, status \in [Run -> Status],
         status[r] # "none", Update(r, s)
  PROVE  /\ status'[r] \in SettledStatus
         /\ \A q \in Run \ {r} : status'[q] = status[q]
         /\ status'[r] = "deleted" <=> status[r] = "deleted"
  BY DEF Update, RowExists, SettledStatus, Status, ActiveStatus, TerminalStatus

\* Unlock(r) frees no lock but r's own.
LEMMA UnlockEffect ==
  ASSUME NEW r \in Run, lockedBy \in [Workspace -> Run \cup {NoRun}], Unlock(r)
  PROVE  \A w \in Workspace : lockedBy[w] # r => lockedBy'[w] = lockedBy[w]
  BY ExecutionAssumption DEF Unlock

-----------------------------------------------------------------------------
\* The inductive invariant holds initially.
LEMMA LifecycleInit == Init => LifecycleInv
<1>. SUFFICES ASSUME Init PROVE LifecycleInv
  OBVIOUS
<1>1. ActiveHoldsLock /\ TriggerBeforeCreate
  BY DEF Init, ActiveHoldsLock, TriggerBeforeCreate, ActiveStatus
<1>2. HandledRunExists /\ SettledBeforeUnlock /\ ReportHasOutcome
  BY DEF Init, HandledRunExists, SettledBeforeUnlock, ReportHasOutcome, Idle
<1>. QED  BY <1>1, <1>2, TypeInit DEF LifecycleInv

\* Every step preserves the inductive invariant: one step per action.
LEMMA LifecycleStep == LifecycleInv /\ [Next]_vars => LifecycleInv'
<1>. DEFINE Rest == ActiveHoldsLock /\ TriggerBeforeCreate /\ HandledRunExists
                      /\ SettledBeforeUnlock /\ ReportHasOutcome
<1>. SUFFICES ASSUME TypeOK, Rest, [Next]_vars PROVE Rest'
  BY TypeStep DEF LifecycleInv
<1>. USE ExecutionAssumption DEF TypeOK, ActiveHoldsLock, TriggerBeforeCreate,
       HandledRunExists, SettledBeforeUnlock, ReportHasOutcome, SettledStatus,
       TerminalStatus, ActiveStatus, Status, vars, dbVars, eventVars, relayVars,
       workerVars
<1>1. ASSUME NEW r \in Run, TriggerNext(r) PROVE Rest'
  <2>1. CASE TriggerCheck(r)
    BY <2>1 DEF TriggerCheck
  <2>2. CASE TriggerTryLock(r)
    BY <2>2 DEF TriggerTryLock, TryLock
  <2>3. CASE TriggerCreate(r)
    <3>. HIDE DEF TypeOK, ActiveHoldsLock, TriggerBeforeCreate,
           HandledRunExists, SettledBeforeUnlock, ReportHasOutcome, Status,
           SettledStatus, TerminalStatus, ActiveStatus
    <3>1. \A q \in Run :
            /\ status[q] \in SettledStatus => status'[q] \in SettledStatus
            /\ status[q] # "none" => status'[q] # "none"
      BY <2>3 DEF TriggerCreate, TriggerBeforeCreate, TypeOK,
           TerminalStatus, ActiveStatus, SettledStatus, Status
    <3>2. ActiveHoldsLock'
      BY <2>3 DEF TriggerCreate, ActiveHoldsLock,
           TriggerBeforeCreate, HandledRunExists, ReportHasOutcome, TypeOK,
           TerminalStatus, ActiveStatus, SettledStatus, Status
    <3>3. TriggerBeforeCreate'
      BY <2>3 DEF TriggerCreate, TriggerBeforeCreate,
           HandledRunExists, ReportHasOutcome, TypeOK, TerminalStatus,
           ActiveStatus, SettledStatus, Status
    <3>4. HandledRunExists'
      BY <2>3, <3>1 DEF TriggerCreate, HandledRunExists, TypeOK
    <3>5. SettledBeforeUnlock'
      BY <2>3, <3>1 DEF TriggerCreate, SettledBeforeUnlock,
           HandledRunExists, ReportHasOutcome, TypeOK, TerminalStatus
    <3>6. ReportHasOutcome'
      BY <2>3 DEF TriggerCreate, ReportHasOutcome, TypeOK
    <3>. QED  BY <3>2, <3>3, <3>4, <3>5, <3>6
  <2>4. CASE TriggerCompensate(r)
    BY <2>4, UnlockEffect DEF TriggerCompensate
  <2>5. CASE TriggerAbort(r)
    BY <2>5 DEF TriggerAbort
  <2>. QED  BY <1>1, <2>1, <2>2, <2>3, <2>4, <2>5 DEF TriggerNext
<1>2. ASSUME NEW n \in Replica, RelayNext(n) PROVE Rest'
  <2>1. CASE RelayPoll(n)
    BY <2>1 DEF RelayPoll
  <2>2. ASSUME NEW r \in Run, DispatchClaim(n, r) PROVE Rest'
    <3>. HIDE DEF TypeOK, ActiveHoldsLock, TriggerBeforeCreate,
           HandledRunExists, SettledBeforeUnlock, ReportHasOutcome, Status,
           SettledStatus, TerminalStatus, ActiveStatus
    <3>1. \A q \in Run :
            /\ status[q] \in SettledStatus => status'[q] \in SettledStatus
            /\ status[q] # "none" => status'[q] # "none"
      BY <2>2 DEF DispatchClaim, TryStartApplying, TypeOK,
           TerminalStatus, ActiveStatus, SettledStatus, Status
    <3>2. ActiveHoldsLock'
      BY <2>2 DEF DispatchClaim, TryStartApplying, ActiveHoldsLock,
           TriggerBeforeCreate, HandledRunExists, ReportHasOutcome, TypeOK,
           TerminalStatus, ActiveStatus, SettledStatus, Status
    <3>3. TriggerBeforeCreate'
      BY <2>2 DEF DispatchClaim, TryStartApplying, TriggerBeforeCreate,
           HandledRunExists, ReportHasOutcome, TypeOK, TerminalStatus,
           ActiveStatus, SettledStatus, Status
    <3>4. HandledRunExists'
      BY <2>2, <3>1
         DEF DispatchClaim, HandledRunExists, TypeOK, TryStartApplying,
             ActiveStatus
    <3>5. SettledBeforeUnlock'
      BY <2>2, <3>1 DEF DispatchClaim, SettledBeforeUnlock,
           HandledRunExists, ReportHasOutcome, TypeOK, TerminalStatus
    <3>6. ReportHasOutcome'
      BY <2>2 DEF DispatchClaim, ReportHasOutcome, TypeOK
    <3>. QED  BY <3>2, <3>3, <3>4, <3>5, <3>6
  <2>3. CASE DispatchResolve(n)
    BY <2>3, StepEffect, NextEventEffect, SMTT(30) DEF DispatchResolve
  <2>4. CASE Dispatch(n)
    BY <2>4, StepEffect DEF Dispatch
  <2>5. CASE DispatchRevert(n)
    <3>. HIDE DEF TypeOK, ActiveHoldsLock, TriggerBeforeCreate,
           HandledRunExists, SettledBeforeUnlock, ReportHasOutcome, Status,
           SettledStatus, TerminalStatus, ActiveStatus
    <3>1. \A q \in Run :
            /\ status[q] \in SettledStatus => status'[q] \in SettledStatus
            /\ status[q] # "none" => status'[q] # "none"
      BY <2>5, NextEventEffect DEF DispatchRevert, RevertToQueued, TypeOK,
           TerminalStatus, ActiveStatus, SettledStatus, Status
    <3>2. ActiveHoldsLock'
      BY <2>5, NextEventEffect
         DEF DispatchRevert, RevertToQueued, ActiveHoldsLock,
           TriggerBeforeCreate, HandledRunExists, ReportHasOutcome, TypeOK,
           TerminalStatus, ActiveStatus, SettledStatus, Status
    <3>3. TriggerBeforeCreate'
      BY <2>5, NextEventEffect
         DEF DispatchRevert, RevertToQueued, TriggerBeforeCreate,
           HandledRunExists, ReportHasOutcome, TypeOK, TerminalStatus,
           ActiveStatus, SettledStatus, Status
    <3>4. HandledRunExists'
      BY <2>5, <3>1, NextEventEffect
         DEF DispatchRevert, HandledRunExists, TypeOK
    <3>5. SettledBeforeUnlock'
      BY <2>5, <3>1, NextEventEffect DEF DispatchRevert, SettledBeforeUnlock,
           HandledRunExists, ReportHasOutcome, TypeOK, TerminalStatus
    <3>6. ReportHasOutcome'
      BY <2>5, NextEventEffect DEF DispatchRevert, ReportHasOutcome, TypeOK
    <3>. QED  BY <3>2, <3>3, <3>4, <3>5, <3>6
  <2>6. CASE FailUpdate(n)
    <3>. HIDE DEF TypeOK, ActiveHoldsLock, TriggerBeforeCreate,
           HandledRunExists, SettledBeforeUnlock, ReportHasOutcome, Status,
           SettledStatus, TerminalStatus, ActiveStatus
    <3>1. \A q \in Run :
            /\ status[q] \in SettledStatus => status'[q] \in SettledStatus
            /\ status[q] # "none" => status'[q] # "none"
      BY <2>6, StepEffect, UpdateEffect
         DEF FailUpdate, HandledRunExists, TypeOK,
           TerminalStatus, ActiveStatus, SettledStatus, Status
    <3>2. ActiveHoldsLock'
      BY <2>6, StepEffect, UpdateEffect DEF FailUpdate, ActiveHoldsLock,
           TriggerBeforeCreate, HandledRunExists, ReportHasOutcome, TypeOK,
           TerminalStatus, ActiveStatus, SettledStatus, Status
    <3>3. TriggerBeforeCreate'
      BY <2>6, StepEffect, UpdateEffect DEF FailUpdate, TriggerBeforeCreate,
           HandledRunExists, ReportHasOutcome, TypeOK, TerminalStatus,
           ActiveStatus, SettledStatus, Status
    <3>4. HandledRunExists'
      BY <2>6, <3>1, StepEffect DEF FailUpdate, HandledRunExists, TypeOK
    <3>5. SettledBeforeUnlock'
      BY <2>6, <3>1, StepEffect, UpdateEffect
         DEF FailUpdate, SettledBeforeUnlock,
           HandledRunExists, ReportHasOutcome, TypeOK, TerminalStatus
    <3>6. ReportHasOutcome'
      BY <2>6, StepEffect DEF FailUpdate, ReportHasOutcome, TypeOK
    <3>. QED  BY <3>2, <3>3, <3>4, <3>5, <3>6
  <2>7. CASE FailUnlock(n)
    BY <2>7, StepEffect, UnlockEffect DEF FailUnlock
  <2>8. CASE RelayPublish(n)
    BY <2>8, NextEventEffect DEF RelayPublish
  <2>9. CASE RelayAbort(n)
    BY <2>9 DEF RelayAbort, Idle
  <2>. QED  BY <1>2, <2>1, <2>2, <2>3, <2>4, <2>5, <2>6, <2>7, <2>8, <2>9
            DEF RelayNext
<1>3. ASSUME NEW c \in CancelRequest, CancelNext(c) PROVE Rest'
  <2>1. ASSUME NEW r \in Run, CancelLoad(c, r) PROVE Rest'
    BY <2>1 DEF CancelLoad
  <2>2. CASE CancelUpdate(c)
    <3>. HIDE DEF TypeOK, ActiveHoldsLock, TriggerBeforeCreate,
           HandledRunExists, SettledBeforeUnlock, ReportHasOutcome, Status,
           SettledStatus, TerminalStatus, ActiveStatus
    <3>1. \A q \in Run :
            /\ status[q] \in SettledStatus => status'[q] \in SettledStatus
            /\ status[q] # "none" => status'[q] # "none"
      BY <2>2, CancelStepEffect, UpdateEffect
         DEF CancelUpdate, HandledRunExists, TypeOK,
           TerminalStatus, ActiveStatus, SettledStatus, Status
    <3>2. ActiveHoldsLock'
      BY <2>2, CancelStepEffect, UpdateEffect
         DEF CancelUpdate, ActiveHoldsLock,
           TriggerBeforeCreate, HandledRunExists, ReportHasOutcome, TypeOK,
           TerminalStatus, ActiveStatus, SettledStatus, Status
    <3>3. TriggerBeforeCreate'
      BY <2>2, CancelStepEffect, UpdateEffect
         DEF CancelUpdate, TriggerBeforeCreate,
           HandledRunExists, ReportHasOutcome, TypeOK, TerminalStatus,
           ActiveStatus, SettledStatus, Status
    <3>4. HandledRunExists'
      BY <2>2, <3>1, CancelStepEffect
         DEF CancelUpdate, HandledRunExists, TypeOK
    <3>5. SettledBeforeUnlock'
      BY <2>2, <3>1, CancelStepEffect, UpdateEffect
         DEF CancelUpdate, SettledBeforeUnlock,
           HandledRunExists, ReportHasOutcome, TypeOK, TerminalStatus
    <3>6. ReportHasOutcome'
      BY <2>2, CancelStepEffect DEF CancelUpdate, ReportHasOutcome, TypeOK
    <3>. QED  BY <3>2, <3>3, <3>4, <3>5, <3>6
  <2>3. CASE CancelUnlock(c)
    BY <2>3, CancelStepEffect, UnlockEffect DEF CancelUnlock
  <2>4. CASE CancelSignal(c)
    BY <2>4 DEF CancelSignal, Idle
  <2>5. CASE CancelAbort(c)
    BY <2>5 DEF CancelAbort, Idle
  <2>. QED  BY <1>3, <2>1, <2>2, <2>3, <2>4, <2>5 DEF CancelNext
<1>4. ASSUME NEW r \in Run, WorkerNext(r) PROVE Rest'
  <2>1. CASE WorkerReceive(r)
    BY <2>1 DEF WorkerReceive
  <2>2. CASE WorkerCancel(r)
    BY <2>2 DEF WorkerCancel
  <2>3. CASE WorkerFinish(r)
    BY <2>3 DEF WorkerFinish
  <2>4. CASE WorkerLose(r)
    BY <2>4 DEF WorkerLose
  <2>. QED  BY <1>4, <2>1, <2>2, <2>3, <2>4 DEF WorkerNext
<1>5. ASSUME NEW r \in Run, ReportNext(r) PROVE Rest'
  <2>1. CASE ReportLoad(r)
    <3>. HIDE DEF TypeOK, ActiveHoldsLock, TriggerBeforeCreate,
           HandledRunExists, SettledBeforeUnlock, ReportHasOutcome, Status,
           SettledStatus, TerminalStatus, ActiveStatus
    <3>1. \A q \in Run :
            /\ status[q] \in SettledStatus => status'[q] \in SettledStatus
            /\ status[q] # "none" => status'[q] # "none"
      BY <2>1, ReportStepEffect DEF ReportLoad, ReportEnd, TypeOK,
           TerminalStatus, ActiveStatus, SettledStatus, Status
    <3>2. ActiveHoldsLock'
      BY <2>1, ReportStepEffect DEF ReportLoad, ReportEnd, ActiveHoldsLock,
           TriggerBeforeCreate, HandledRunExists, ReportHasOutcome, TypeOK,
           TerminalStatus, ActiveStatus, SettledStatus, Status
    <3>3. TriggerBeforeCreate'
      BY <2>1, ReportStepEffect DEF ReportLoad, ReportEnd, TriggerBeforeCreate,
           HandledRunExists, ReportHasOutcome, TypeOK, TerminalStatus,
           ActiveStatus, SettledStatus, Status
    <3>4. HandledRunExists'
      BY <2>1, <3>1, ReportStepEffect
         DEF ReportLoad, ReportEnd, HandledRunExists, TypeOK
    <3>5. SettledBeforeUnlock'
      BY <2>1, <3>1, ReportStepEffect
         DEF ReportLoad, ReportEnd, SettledBeforeUnlock,
           HandledRunExists, ReportHasOutcome, TypeOK, TerminalStatus
    <3>6. ReportHasOutcome'
      BY <2>1, ReportStepEffect
         DEF ReportLoad, ReportEnd, ReportHasOutcome, TypeOK
    <3>. QED  BY <3>2, <3>3, <3>4, <3>5, <3>6
  <2>2. CASE ReportUpdate(r)
    <3>. HIDE DEF TypeOK, ActiveHoldsLock, TriggerBeforeCreate,
           HandledRunExists, SettledBeforeUnlock, ReportHasOutcome, Status,
           SettledStatus, TerminalStatus, ActiveStatus
    <3>1. \A q \in Run :
            /\ status[q] \in SettledStatus => status'[q] \in SettledStatus
            /\ status[q] # "none" => status'[q] # "none"
      BY <2>2, ReportStepEffect, UpdateEffect
         DEF ReportUpdate, HandledRunExists, ReportHasOutcome, TypeOK,
           TerminalStatus, ActiveStatus, SettledStatus, Status
    <3>2. ActiveHoldsLock'
      BY <2>2, ReportStepEffect, UpdateEffect
         DEF ReportUpdate, ActiveHoldsLock,
           TriggerBeforeCreate, HandledRunExists, ReportHasOutcome, TypeOK,
           TerminalStatus, ActiveStatus, SettledStatus, Status
    <3>3. TriggerBeforeCreate'
      BY <2>2, ReportStepEffect, UpdateEffect
         DEF ReportUpdate, TriggerBeforeCreate,
           HandledRunExists, ReportHasOutcome, TypeOK, TerminalStatus,
           ActiveStatus, SettledStatus, Status
    <3>4. HandledRunExists'
      BY <2>2, <3>1, ReportStepEffect
         DEF ReportUpdate, HandledRunExists, TypeOK
    <3>5. SettledBeforeUnlock'
      BY <2>2, <3>1, ReportStepEffect, UpdateEffect
         DEF ReportUpdate, SettledBeforeUnlock,
           HandledRunExists, ReportHasOutcome, TypeOK, TerminalStatus
    <3>6. ReportHasOutcome'
      BY <2>2, ReportStepEffect DEF ReportUpdate, ReportHasOutcome, TypeOK
    <3>. QED  BY <3>2, <3>3, <3>4, <3>5, <3>6
  <2>3. CASE ReportUnlock(r)
    BY <2>3, UnlockEffect DEF ReportUnlock, ReportEnd
  <2>4. CASE ReportAbort(r)
    BY <2>4 DEF ReportAbort, ReportEnd
  <2>. QED  BY <1>5, <2>1, <2>2, <2>3, <2>4 DEF ReportNext
<1>6. ASSUME NEW r \in Run, AgeEvent(r) PROVE Rest'
  BY <1>6 DEF AgeEvent
<1>7. ASSUME NEW n \in Replica, ReaperNext(n) PROVE Rest'
  <2>1. ASSUME NEW r \in Run, ReapMark(n, r) PROVE Rest'
    BY <2>1 DEF ReapMark, MarkErroredIfStillApplying
  <2>2. CASE ReapUnlock(n)
    BY <2>2, UnlockEffect DEF ReapUnlock
  <2>3. CASE ReapAbort(n)
    BY <2>3 DEF ReapAbort
  <2>. QED  BY <1>7, <2>1, <2>2, <2>3 DEF ReaperNext
<1>8. ASSUME NEW w \in Workspace, PurgeWorkspace(w) PROVE Rest'
  BY <1>8 DEF PurgeWorkspace
<1>9. CASE UNCHANGED vars
  BY <1>9
<1>. QED  BY <1>1, <1>2, <1>3, <1>4, <1>5, <1>6, <1>7, <1>8, <1>9 DEF Next

\* LifecycleInv holds in every reachable state.
LEMMA LifecycleInvariant == Spec => []LifecycleInv
  BY LifecycleInit, LifecycleStep, PTL DEF Spec

\* However triggers, relays, cancels, reports, reapers and purges interleave,
\* and wherever a handler stops half way, no Workspace ever has two active
\* Runs (WorkspaceLocker in application/ports.go).
THEOREM OneActiveRun == Spec => []OneActiveRunPerWorkspace
<1>1. LifecycleInv => OneActiveRunPerWorkspace
  BY DEF LifecycleInv, ActiveHoldsLock, OneActiveRunPerWorkspace
<1>. QED  BY <1>1, LifecycleInvariant, PTL

-----------------------------------------------------------------------------
(* Implementation of the abstract life cycle.                               *)

\* Initially no Run exists and no Workspace is locked.
LEMMA RefinesInit == Init => Lifecycle!Init
  BY DEF Init, Lifecycle!Init

\* Each action is one abstract step, or a stuttering step of the life cycle.
LEMMA RefinesStep ==
  LifecycleInv /\ [Next]_vars => [Lifecycle!Next]_(Lifecycle!vars)
<1>. DEFINE Refined == [Lifecycle!Next]_(Lifecycle!vars)
<1>. SUFFICES ASSUME LifecycleInv, [Next]_vars PROVE Refined
  OBVIOUS
<1>. USE ExecutionAssumption DEF LifecycleInv, TypeOK, vars, dbVars, eventVars,
       relayVars, workerVars, Lifecycle!vars
<1>1. ASSUME NEW r \in Run, Lifecycle!Settle(r) PROVE Refined
  BY <1>1 DEF Lifecycle!Next
<1>2. ASSUME NEW r \in Run, Unlock(r), status[r] \notin ActiveStatus,
             UNCHANGED <<status, workspaces>>
      PROVE  Refined
  <2>1. Lifecycle!Release(r) \/ UNCHANGED lockedBy
    BY <1>2 DEF Unlock, Lifecycle!Release, Lifecycle!ActiveStatus, ActiveStatus
  <2>. QED  BY <1>2, <2>1 DEF Lifecycle!Next
<1>3. ASSUME NEW r \in Run, NEW s \in TerminalStatus, Update(r, s),
             status[r] # "none", UNCHANGED <<lockedBy, workspaces>>
      PROVE  Refined
  <2>1. Lifecycle!Settle(r) \/ UNCHANGED status
    BY <1>3 DEF Update, RowExists, Status, TerminalStatus, ActiveStatus,
         Lifecycle!Settle, Lifecycle!TerminalStatus, Lifecycle!ActiveStatus
  <2>. QED  BY <1>1, <1>3, <2>1
<1>4. ASSUME NEW r \in Run, TriggerNext(r) PROVE Refined
  <2>1. CASE TriggerCheck(r) \/ TriggerAbort(r)
    BY <2>1 DEF TriggerCheck, TriggerAbort
  <2>2. CASE TriggerTryLock(r)
    <3>1. Lifecycle!Acquire(r) \/ UNCHANGED lockedBy
      BY <2>2 DEF TriggerTryLock, TryLock, Lifecycle!Acquire,
           TriggerBeforeCreate
    <3>. QED  BY <2>2, <3>1 DEF TriggerTryLock, Lifecycle!Next
  <2>3. CASE TriggerCreate(r)
    <3>1. Lifecycle!Enqueue(r) \/ UNCHANGED status
      BY <2>3 DEF TriggerCreate, Lifecycle!Enqueue, TriggerBeforeCreate
    <3>. QED  BY <2>3, <3>1 DEF TriggerCreate, Lifecycle!Next
  <2>4. CASE TriggerCompensate(r)
    BY <1>2, <2>4 DEF TriggerCompensate, TriggerBeforeCreate, ActiveStatus
  <2>. QED  BY <1>4, <2>1, <2>2, <2>3, <2>4 DEF TriggerNext
<1>5. ASSUME NEW n \in Replica, RelayNext(n) PROVE Refined
  <2>1. CASE RelayPoll(n) \/ DispatchResolve(n) \/ Dispatch(n)
               \/ RelayPublish(n) \/ RelayAbort(n)
    BY <2>1 DEF RelayPoll, DispatchResolve, Dispatch, RelayPublish, RelayAbort
  <2>2. ASSUME NEW r \in Run, DispatchClaim(n, r) PROVE Refined
    <3>1. Lifecycle!Start(r) \/ UNCHANGED status
      BY <2>2 DEF DispatchClaim, TryStartApplying, Lifecycle!Start
    <3>. QED  BY <2>2, <3>1 DEF DispatchClaim, Lifecycle!Next
  <2>3. CASE DispatchRevert(n)
    <3>1. relay[n].run \in Run
      BY <2>3 DEF DispatchRevert, HandledRunExists
    <3>2. Lifecycle!Requeue(relay[n].run) \/ UNCHANGED status
      BY <2>3 DEF DispatchRevert, RevertToQueued, Lifecycle!Requeue
    <3>. QED  BY <2>3, <3>1, <3>2 DEF DispatchRevert, Lifecycle!Next
  <2>4. CASE FailUpdate(n)
    <3>1. relay[n].run \in Run /\ status[relay[n].run] # "none"
      BY <2>4 DEF FailUpdate, HandledRunExists
    <3>. QED  BY <1>3, <2>4, <3>1 DEF FailUpdate, TerminalStatus
  <2>5. CASE FailUnlock(n)
    <3>1. relay[n].run \in Run /\ status[relay[n].run] \notin ActiveStatus
      BY <2>5 DEF FailUnlock, HandledRunExists, SettledBeforeUnlock,
           SettledStatus, TerminalStatus, ActiveStatus
    <3>. QED  BY <1>2, <2>5, <3>1 DEF FailUnlock
  <2>. QED  BY <1>5, <2>1, <2>2, <2>3, <2>4, <2>5 DEF RelayNext
<1>6. ASSUME NEW c \in CancelRequest, CancelNext(c) PROVE Refined
  <2>1. (\E r \in Run : CancelLoad(c, r)) \/ CancelSignal(c) \/ CancelAbort(c)
          => Refined
    BY DEF CancelLoad, CancelSignal, CancelAbort
  <2>2. CASE CancelUpdate(c)
    <3>1. cancel[c].run \in Run /\ status[cancel[c].run] # "none"
      BY <2>2 DEF CancelUpdate, HandledRunExists
    <3>. QED  BY <1>3, <2>2, <3>1 DEF CancelUpdate, TerminalStatus
  <2>3. CASE CancelUnlock(c)
    <3>1. cancel[c].run \in Run /\ status[cancel[c].run] \notin ActiveStatus
      BY <2>3 DEF CancelUnlock, HandledRunExists, SettledBeforeUnlock,
           SettledStatus, TerminalStatus, ActiveStatus
    <3>. QED  BY <1>2, <2>3, <3>1 DEF CancelUnlock
  <2>. QED  BY <1>6, <2>1, <2>2, <2>3 DEF CancelNext
<1>7. ASSUME NEW r \in Run, WorkerNext(r) \/ AgeEvent(r) PROVE Refined
  BY <1>7 DEF WorkerNext, WorkerReceive, WorkerCancel, WorkerFinish,
       WorkerLose, AgeEvent
<1>8. ASSUME NEW r \in Run, ReportNext(r) PROVE Refined
  <2>1. CASE ReportLoad(r) \/ ReportAbort(r)
    BY <2>1 DEF ReportLoad, ReportAbort
  <2>2. CASE ReportUpdate(r)
    <3>1. status[r] # "none" /\ report[r].outcome \in TerminalStatus
      BY <2>2 DEF ReportUpdate, HandledRunExists, ReportHasOutcome,
           TerminalStatus
    <3>. QED  BY <1>3, <2>2, <3>1 DEF ReportUpdate
  <2>3. CASE ReportUnlock(r)
    <3>1. status[r] \notin ActiveStatus
      BY <2>3 DEF ReportUnlock, SettledBeforeUnlock, SettledStatus,
           TerminalStatus, ActiveStatus
    <3>. QED  BY <1>2, <2>3, <3>1 DEF ReportUnlock
  <2>. QED  BY <1>8, <2>1, <2>2, <2>3 DEF ReportNext
<1>9. ASSUME NEW n \in Replica, ReaperNext(n) PROVE Refined
  <2>1. ASSUME NEW r \in Run, ReapMark(n, r) PROVE Refined
    <3>1. Lifecycle!Settle(r)
      BY <2>1 DEF ReapMark, MarkErroredIfStillApplying, Lifecycle!Settle,
           Lifecycle!TerminalStatus, Lifecycle!ActiveStatus
    <3>. QED  BY <1>1, <3>1
  <2>2. CASE ReapUnlock(n)
    <3>1. reaper[n] \in Run /\ status[reaper[n]] \notin ActiveStatus
      BY <2>2 DEF ReapUnlock, SettledBeforeUnlock, SettledStatus,
           TerminalStatus, ActiveStatus
    <3>. QED  BY <1>2, <2>2, <3>1 DEF ReapUnlock
  <2>3. CASE ReapAbort(n)
    BY <2>3 DEF ReapAbort
  <2>. QED  BY <1>9, <2>1, <2>2, <2>3 DEF ReaperNext
<1>10. ASSUME NEW w \in Workspace, PurgeWorkspace(w) PROVE Refined
  <2>1. Lifecycle!Purge(w)
    BY <1>10 DEF PurgeWorkspace, Lifecycle!Purge
  <2>. QED  BY <2>1 DEF Lifecycle!Next
<1>11. CASE UNCHANGED vars
  BY <1>11
<1>. QED  BY <1>4, <1>5, <1>6, <1>7, <1>8, <1>9, <1>10, <1>11 DEF Next

\* The handlers and loops of the Execution context, interleaved at every
\* transaction, implement RunLifecycle: a Run is created only under its
\* Workspace's lock, a settled Run is never active again, and no active Run
\* loses its lock.
THEOREM Refinement == Spec => ImplementsLifecycle
  BY RefinesInit, RefinesStep, LifecycleInvariant, PTL
     DEF Spec, Lifecycle!Spec, ImplementsLifecycle

-----------------------------------------------------------------------------
(* One dispatch per Run.                                                    *)

\* Every step keeps claims exclusive, also with several replicas and with
\* events redelivered after a crash.
LEMMA ClaimStep ==
  LifecycleInv /\ ClaimIsExclusive /\ [Next]_vars => ClaimIsExclusive'
<1>. SUFFICES ASSUME LifecycleInv, ClaimIsExclusive, [Next]_vars
              PROVE  ClaimIsExclusive'
  OBVIOUS
<1>. USE ExecutionAssumption DEF LifecycleInv, TypeOK, ClaimIsExclusive,
       Claiming, HandledRunExists, vars, dbVars, eventVars, relayVars,
       workerVars
<1>1. ASSUME NEW r \in Run, TriggerNext(r) PROVE ClaimIsExclusive'
  <2>1. CASE TriggerCheck(r)
    BY <2>1 DEF TriggerCheck
  <2>2. CASE TriggerTryLock(r)
    BY <2>2 DEF TriggerTryLock, TryLock
  <2>3. CASE TriggerCreate(r)
    BY <2>3 DEF TriggerCreate, TriggerBeforeCreate
  <2>4. CASE TriggerCompensate(r)
    BY <2>4 DEF TriggerCompensate
  <2>5. CASE TriggerAbort(r)
    BY <2>5 DEF TriggerAbort
  <2>. QED  BY <1>1, <2>1, <2>2, <2>3, <2>4, <2>5 DEF TriggerNext
<1>2. ASSUME NEW n \in Replica, RelayNext(n) PROVE ClaimIsExclusive'
  <2>1. CASE RelayPoll(n)
    BY <2>1 DEF RelayPoll
  <2>2. ASSUME NEW r \in Run, DispatchClaim(n, r) PROVE ClaimIsExclusive'
    BY <2>2, SMTT(30) DEF DispatchClaim, TryStartApplying
  <2>3. CASE DispatchResolve(n)
    BY <2>3, StepEffect, NextEventEffect DEF DispatchResolve
  <2>4. CASE Dispatch(n)
    BY <2>4, StepEffect DEF Dispatch
  <2>5. CASE DispatchRevert(n)
    BY <2>5, NextEventEffect DEF DispatchRevert, RevertToQueued
  <2>6. CASE FailUpdate(n)
    <3>1. \A q \in Run : status'[q] = "queued" => status[q] = "queued"
      BY <2>6, UpdateEffect DEF FailUpdate, TerminalStatus, SettledStatus
    <3>2. \A m \in Replica : /\ Claiming(m)' => Claiming(m)
                             /\ relay'[m].run = relay[m].run
      BY <2>6, StepEffect DEF FailUpdate
    <3>. QED  BY <2>6, <3>1, <3>2 DEF FailUpdate
  <2>7. CASE FailUnlock(n)
    BY <2>7, StepEffect DEF FailUnlock
  <2>8. CASE RelayPublish(n)
    BY <2>8, NextEventEffect, SMTT(30) DEF RelayPublish
  <2>9. CASE RelayAbort(n)
    BY <2>9 DEF RelayAbort, Idle
  <2>. QED  BY <1>2, <2>1, <2>2, <2>3, <2>4, <2>5, <2>6, <2>7, <2>8, <2>9
            DEF RelayNext
<1>3. ASSUME NEW c \in CancelRequest, CancelNext(c) PROVE ClaimIsExclusive'
  <2>1. ASSUME NEW r \in Run, CancelLoad(c, r) PROVE ClaimIsExclusive'
    BY <2>1 DEF CancelLoad
  <2>2. CASE CancelUpdate(c)
    BY <2>2, CancelStepEffect, UpdateEffect
       DEF CancelUpdate, TerminalStatus, SettledStatus
  <2>3. CASE CancelUnlock(c)
    BY <2>3, CancelStepEffect DEF CancelUnlock
  <2>4. CASE CancelSignal(c)
    BY <2>4 DEF CancelSignal, Idle
  <2>5. CASE CancelAbort(c)
    BY <2>5 DEF CancelAbort, Idle
  <2>. QED  BY <1>3, <2>1, <2>2, <2>3, <2>4, <2>5 DEF CancelNext
<1>4. ASSUME NEW r \in Run, WorkerNext(r) PROVE ClaimIsExclusive'
  <2>1. CASE WorkerReceive(r)
    BY <2>1 DEF WorkerReceive
  <2>2. CASE WorkerCancel(r)
    BY <2>2 DEF WorkerCancel
  <2>3. CASE WorkerFinish(r)
    BY <2>3 DEF WorkerFinish
  <2>4. CASE WorkerLose(r)
    BY <2>4 DEF WorkerLose
  <2>. QED  BY <1>4, <2>1, <2>2, <2>3, <2>4 DEF WorkerNext
<1>5. ASSUME NEW r \in Run, ReportNext(r) PROVE ClaimIsExclusive'
  <2>1. CASE ReportLoad(r)
    BY <2>1, ReportStepEffect DEF ReportLoad, ReportEnd
  <2>2. CASE ReportUpdate(r)
    BY <2>2, ReportStepEffect, UpdateEffect
       DEF ReportUpdate, ReportHasOutcome, TerminalStatus, SettledStatus
  <2>3. CASE ReportUnlock(r)
    BY <2>3 DEF ReportUnlock, ReportEnd
  <2>4. CASE ReportAbort(r)
    BY <2>4 DEF ReportAbort, ReportEnd
  <2>. QED  BY <1>5, <2>1, <2>2, <2>3, <2>4 DEF ReportNext
<1>6. ASSUME NEW r \in Run, AgeEvent(r) PROVE ClaimIsExclusive'
  BY <1>6 DEF AgeEvent
<1>7. ASSUME NEW n \in Replica, ReaperNext(n) PROVE ClaimIsExclusive'
  <2>1. ASSUME NEW r \in Run, ReapMark(n, r) PROVE ClaimIsExclusive'
    BY <2>1 DEF ReapMark, MarkErroredIfStillApplying
  <2>2. CASE ReapUnlock(n)
    BY <2>2 DEF ReapUnlock
  <2>3. CASE ReapAbort(n)
    BY <2>3 DEF ReapAbort
  <2>. QED  BY <1>7, <2>1, <2>2, <2>3 DEF ReaperNext
<1>8. ASSUME NEW w \in Workspace, PurgeWorkspace(w) PROVE ClaimIsExclusive'
  BY <1>8 DEF PurgeWorkspace
<1>9. CASE UNCHANGED vars
  BY <1>9
<1>. QED  BY <1>1, <1>2, <1>3, <1>4, <1>5, <1>6, <1>7, <1>8, <1>9 DEF Next

\* A Run reaches a Worker at most once: one replica at most is between the
\* claim and the push, and none once a Worker has the Job (TryStartApplying
\* and RevertToQueued in run_repository.go).
THEOREM AtMostOneDispatch == Spec => []DispatchedAtMostOnce
<1>1. Init => ClaimIsExclusive
  BY DEF Init, ClaimIsExclusive, Claiming, Idle
<1>2. ClaimIsExclusive => DispatchedAtMostOnce
  BY DEF ClaimIsExclusive, Claiming, DispatchedAtMostOnce
<1>. QED  BY <1>1, <1>2, ClaimStep, LifecycleInvariant, PTL DEF Spec

-----------------------------------------------------------------------------
(* A queued Run can be dispatched again.  This needs a single replica: with *)
(* two, one may publish the event while the other reverts its claim.        *)

EventSurvivesClaim ==
    /\ QueuedHasDelivery
    /\ \A n \in Replica :
         /\ Claiming(n) => queuedEvent[relay[n].run] = "pending"
         /\ relay[n].step = "publishing" => status[relay[n].run] # "queued"

\* One replica: every step keeps the RunQueued event of a queued Run pending.
LEMMA EventStep ==
  ASSUME \A m, n \in Replica : m = n,
         LifecycleInv, ClaimIsExclusive, EventSurvivesClaim, [Next]_vars
  PROVE  EventSurvivesClaim'
<1>. USE ExecutionAssumption DEF LifecycleInv, TypeOK, ClaimIsExclusive,
       EventSurvivesClaim, QueuedHasDelivery, Claiming, HandledRunExists,
       vars, dbVars, eventVars, relayVars, workerVars
<1>1. ASSUME NEW r \in Run, TriggerNext(r) PROVE EventSurvivesClaim'
  <2>1. CASE TriggerCheck(r)
    BY <2>1 DEF TriggerCheck
  <2>2. CASE TriggerTryLock(r)
    BY <2>2 DEF TriggerTryLock, TryLock
  <2>3. CASE TriggerCreate(r)
    BY <2>3 DEF TriggerCreate, TriggerBeforeCreate
  <2>4. CASE TriggerCompensate(r)
    BY <2>4 DEF TriggerCompensate
  <2>5. CASE TriggerAbort(r)
    BY <2>5 DEF TriggerAbort
  <2>. QED  BY <1>1, <2>1, <2>2, <2>3, <2>4, <2>5 DEF TriggerNext
<1>2. ASSUME NEW n \in Replica, RelayNext(n) PROVE EventSurvivesClaim'
  <2>1. CASE RelayPoll(n)
    BY <2>1 DEF RelayPoll
  <2>2. ASSUME NEW r \in Run, DispatchClaim(n, r) PROVE EventSurvivesClaim'
    BY <2>2 DEF DispatchClaim, TryStartApplying
  <2>3. CASE DispatchResolve(n)
    BY <2>3, StepEffect, NextEventEffect DEF DispatchResolve
  <2>4. CASE Dispatch(n)
    BY <2>4, StepEffect DEF Dispatch
  <2>5. CASE DispatchRevert(n)
    BY <2>5, NextEventEffect DEF DispatchRevert, RevertToQueued
  <2>6. CASE FailUpdate(n)
    BY <2>6, StepEffect, UpdateEffect
       DEF FailUpdate, TerminalStatus, SettledStatus
  <2>7. CASE FailUnlock(n)
    BY <2>7, StepEffect
       DEF FailUnlock, SettledBeforeUnlock, TerminalStatus, SettledStatus
  <2>8. CASE RelayPublish(n)
    BY <2>8, NextEventEffect DEF RelayPublish
  <2>9. CASE RelayAbort(n)
    BY <2>9 DEF RelayAbort, Idle
  <2>. QED  BY <1>2, <2>1, <2>2, <2>3, <2>4, <2>5, <2>6, <2>7, <2>8, <2>9
            DEF RelayNext
<1>3. ASSUME NEW c \in CancelRequest, CancelNext(c) PROVE EventSurvivesClaim'
  <2>1. ASSUME NEW r \in Run, CancelLoad(c, r) PROVE EventSurvivesClaim'
    BY <2>1 DEF CancelLoad
  <2>2. CASE CancelUpdate(c)
    BY <2>2, CancelStepEffect, UpdateEffect
       DEF CancelUpdate, TerminalStatus, SettledStatus
  <2>3. CASE CancelUnlock(c)
    BY <2>3, CancelStepEffect DEF CancelUnlock
  <2>4. CASE CancelSignal(c)
    BY <2>4 DEF CancelSignal, Idle
  <2>5. CASE CancelAbort(c)
    BY <2>5 DEF CancelAbort, Idle
  <2>. QED  BY <1>3, <2>1, <2>2, <2>3, <2>4, <2>5 DEF CancelNext
<1>4. ASSUME NEW r \in Run, WorkerNext(r) PROVE EventSurvivesClaim'
  <2>1. CASE WorkerReceive(r)
    BY <2>1 DEF WorkerReceive
  <2>2. CASE WorkerCancel(r)
    BY <2>2 DEF WorkerCancel
  <2>3. CASE WorkerFinish(r)
    BY <2>3 DEF WorkerFinish
  <2>4. CASE WorkerLose(r)
    BY <2>4 DEF WorkerLose
  <2>. QED  BY <1>4, <2>1, <2>2, <2>3, <2>4 DEF WorkerNext
<1>5. ASSUME NEW r \in Run, ReportNext(r) PROVE EventSurvivesClaim'
  <2>1. CASE ReportLoad(r)
    BY <2>1, ReportStepEffect DEF ReportLoad, ReportEnd
  <2>2. CASE ReportUpdate(r)
    BY <2>2, ReportStepEffect, UpdateEffect
       DEF ReportUpdate, ReportHasOutcome, TerminalStatus, SettledStatus
  <2>3. CASE ReportUnlock(r)
    BY <2>3 DEF ReportUnlock, ReportEnd
  <2>4. CASE ReportAbort(r)
    BY <2>4 DEF ReportAbort, ReportEnd
  <2>. QED  BY <1>5, <2>1, <2>2, <2>3, <2>4 DEF ReportNext
<1>6. ASSUME NEW r \in Run, AgeEvent(r) PROVE EventSurvivesClaim'
  BY <1>6 DEF AgeEvent
<1>7. ASSUME NEW n \in Replica, ReaperNext(n) PROVE EventSurvivesClaim'
  <2>1. ASSUME NEW r \in Run, ReapMark(n, r) PROVE EventSurvivesClaim'
    BY <2>1 DEF ReapMark, MarkErroredIfStillApplying
  <2>2. CASE ReapUnlock(n)
    BY <2>2 DEF ReapUnlock
  <2>3. CASE ReapAbort(n)
    BY <2>3 DEF ReapAbort
  <2>. QED  BY <1>7, <2>1, <2>2, <2>3 DEF ReaperNext
<1>8. ASSUME NEW w \in Workspace, PurgeWorkspace(w) PROVE EventSurvivesClaim'
  BY <1>8 DEF PurgeWorkspace
<1>9. CASE UNCHANGED vars
  BY <1>9
<1>. QED  BY <1>1, <1>2, <1>3, <1>4, <1>5, <1>6, <1>7, <1>8, <1>9 DEF Next

\* With one Control Plane replica a queued Run's RunQueued event is never
\* marked published, whatever fails in between: the Relay will deliver it
\* again (Registry.Dispatch's "a later retry naturally has a chance").
THEOREM QueuedRunKeepsItsEvent ==
  ASSUME \A m, n \in Replica : m = n
  PROVE  Spec => []QueuedHasDelivery
<1>1. Init => ClaimIsExclusive /\ EventSurvivesClaim
  BY DEF Init, ClaimIsExclusive, EventSurvivesClaim, QueuedHasDelivery,
       Claiming, Idle
<1>2. LifecycleInv /\ ClaimIsExclusive /\ EventSurvivesClaim /\ [Next]_vars
        => EventSurvivesClaim'
  BY EventStep
<1>3. EventSurvivesClaim => QueuedHasDelivery
  BY DEF EventSurvivesClaim
<1>. QED  BY <1>1, <1>2, <1>3, ClaimStep, LifecycleInvariant, PTL DEF Spec

-----------------------------------------------------------------------------
(* No lock is left behind, as long as no handler stops half way.            *)

LockInv ==
    /\ LockHasReason
    /\ \A w \in Workspace : lockedBy[w] # NoRun => WorkspaceOf[lockedBy[w]] = w
    /\ \A r \in Run : job[r] \in {"none", "assigned", "running"}
                        => report[r].step = "none"

\* No handler stops half way: every step keeps a reason for each lock.
LEMMA LockStep ==
  ASSUME ~MayAbort, LifecycleInv, ClaimIsExclusive, LockInv, [Next]_vars
  PROVE  LockInv'
<1>. USE ExecutionAssumption DEF LifecycleInv, TypeOK, LockInv, LockHasReason,
       UnlockPending, HandledRunExists, vars, dbVars, eventVars, relayVars,
       workerVars
<1>1. ASSUME NEW r \in Run, TriggerNext(r) PROVE LockInv'
  <2>1. CASE TriggerCheck(r)
    BY <2>1 DEF TriggerCheck
  <2>2. CASE TriggerTryLock(r)
    BY <2>2 DEF TriggerTryLock, TryLock
  <2>3. CASE TriggerCreate(r)
    BY <2>3 DEF TriggerCreate, TriggerBeforeCreate, ActiveStatus
  <2>4. CASE TriggerCompensate(r)
    BY <2>4 DEF TriggerCompensate, Unlock
  <2>5. CASE TriggerAbort(r)
    BY <2>5 DEF TriggerAbort
  <2>. QED  BY <1>1, <2>1, <2>2, <2>3, <2>4, <2>5 DEF TriggerNext
<1>2. ASSUME NEW n \in Replica, RelayNext(n) PROVE LockInv'
  <2>1. CASE RelayPoll(n)
    BY <2>1 DEF RelayPoll
  <2>2. ASSUME NEW r \in Run, DispatchClaim(n, r) PROVE LockInv'
    <3>1. \A q \in Run : UnlockPending(q) => UnlockPending(q)'
      BY <2>2, SMTT(30) DEF DispatchClaim
    <3>. HIDE DEF UnlockPending
    <3>. QED  BY <2>2, <3>1 DEF DispatchClaim, TryStartApplying,
           ActiveStatus
  <2>3. CASE DispatchResolve(n)
    BY <2>3, StepEffect, NextEventEffect DEF DispatchResolve
  <2>4. CASE Dispatch(n)
    BY <2>4, StepEffect DEF Dispatch, ClaimIsExclusive, Claiming
  <2>5. CASE DispatchRevert(n)
    <3>1. \A q \in Run : UnlockPending(q) => UnlockPending(q)'
      BY <2>5, NextEventEffect DEF DispatchRevert
    <3>. HIDE DEF UnlockPending
    <3>. QED  BY <2>5, <3>1 DEF DispatchRevert, RevertToQueued,
           ActiveStatus
  <2>6. CASE FailUpdate(n)
    <3>1. \A q \in Run : UnlockPending(q) => UnlockPending(q)'
      BY <2>6, StepEffect DEF FailUpdate
    <3>2. \A q \in Run : q = relay[n].run => UnlockPending(q)'
      BY <2>6, StepEffect DEF FailUpdate
    <3>3. \A q \in Run \ {relay[n].run} : status'[q] = status[q]
      BY <2>6, UpdateEffect DEF FailUpdate, TerminalStatus
    <3>. HIDE DEF UnlockPending
    <3>. QED  BY <2>6, <3>1, <3>2, <3>3 DEF FailUpdate
  <2>7. CASE FailUnlock(n)
    BY <2>7, StepEffect, SMTT(30) DEF FailUnlock, Unlock
  <2>8. CASE RelayPublish(n)
    BY <2>8, NextEventEffect DEF RelayPublish
  <2>9. CASE RelayAbort(n)
    BY <2>9 DEF RelayAbort, Idle
  <2>. QED  BY <1>2, <2>1, <2>2, <2>3, <2>4, <2>5, <2>6, <2>7, <2>8, <2>9
            DEF RelayNext
<1>3. ASSUME NEW c \in CancelRequest, CancelNext(c) PROVE LockInv'
  <2>1. ASSUME NEW r \in Run, CancelLoad(c, r) PROVE LockInv'
    <3>1. \A q \in Run : UnlockPending(q) => UnlockPending(q)'
      BY <2>1 DEF CancelLoad, Idle
    <3>. HIDE DEF UnlockPending
    <3>. QED  BY <2>1, <3>1 DEF CancelLoad
  <2>2. CASE CancelUpdate(c)
    BY <2>2, CancelStepEffect, UpdateEffect
       DEF CancelUpdate, TerminalStatus, SettledStatus
  <2>3. CASE CancelUnlock(c)
    <3>1. \A q \in Run \ {cancel[c].run} :
            UnlockPending(q) => UnlockPending(q)'
      BY <2>3, CancelStepEffect DEF CancelUnlock
    <3>. HIDE DEF UnlockPending
    <3>. QED  BY <2>3, <3>1 DEF CancelUnlock, Unlock
  <2>4. CASE CancelSignal(c)
    BY <2>4 DEF CancelSignal, Idle
  <2>5. CASE CancelAbort(c)
    BY <2>5 DEF CancelAbort, Idle
  <2>. QED  BY <1>3, <2>1, <2>2, <2>3, <2>4, <2>5 DEF CancelNext
<1>4. ASSUME NEW r \in Run, WorkerNext(r) PROVE LockInv'
  <2>1. CASE WorkerReceive(r)
    BY <2>1 DEF WorkerReceive
  <2>2. CASE WorkerCancel(r)
    BY <2>2 DEF WorkerCancel
  <2>3. CASE WorkerFinish(r)
    <3>1. \A q \in Run : UnlockPending(q) => UnlockPending(q)'
      BY <2>3 DEF WorkerFinish, ReportState
    <3>. HIDE DEF UnlockPending
    <3>. QED  BY <2>3, <3>1 DEF WorkerFinish
  <2>4. CASE WorkerLose(r)
    BY <2>4 DEF WorkerLose
  <2>. QED  BY <1>4, <2>1, <2>2, <2>3, <2>4 DEF WorkerNext
<1>5. ASSUME NEW r \in Run, ReportNext(r) PROVE LockInv'
  <2>1. CASE ReportLoad(r)
    BY <2>1, ReportStepEffect DEF ReportLoad, ReportEnd
  <2>2. CASE ReportUpdate(r)
    BY <2>2, ReportStepEffect, UpdateEffect
       DEF ReportUpdate, ReportHasOutcome, TerminalStatus, SettledStatus
  <2>3. CASE ReportUnlock(r)
    BY <2>3 DEF ReportUnlock, ReportEnd, Unlock
  <2>4. CASE ReportAbort(r)
    BY <2>4 DEF ReportAbort, ReportEnd
  <2>. QED  BY <1>5, <2>1, <2>2, <2>3, <2>4 DEF ReportNext
<1>6. ASSUME NEW r \in Run, AgeEvent(r) PROVE LockInv'
  BY <1>6 DEF AgeEvent
<1>7. ASSUME NEW n \in Replica, ReaperNext(n) PROVE LockInv'
  <2>1. ASSUME NEW r \in Run, ReapMark(n, r) PROVE LockInv'
    BY <2>1 DEF ReapMark, MarkErroredIfStillApplying
  <2>2. CASE ReapUnlock(n)
    BY <2>2 DEF ReapUnlock, Unlock
  <2>3. CASE ReapAbort(n)
    BY <2>3 DEF ReapAbort
  <2>. QED  BY <1>7, <2>1, <2>2, <2>3 DEF ReaperNext
<1>8. ASSUME NEW w \in Workspace, PurgeWorkspace(w) PROVE LockInv'
  BY <1>8 DEF PurgeWorkspace
<1>9. CASE UNCHANGED vars
  BY <1>9
<1>. QED  BY <1>1, <1>2, <1>3, <1>4, <1>5, <1>6, <1>7, <1>8, <1>9 DEF Next

\* If no request is cut off and no process crashes, a Workspace locked by a
\* Run that is not active is about to be unlocked by a handler still at work
\* (WorkspaceLocker in application/ports.go).
THEOREM NoLockLeaks ==
  ASSUME ~MayAbort
  PROVE  Spec => []LockHasReason
<1>1. Init => ClaimIsExclusive /\ LockInv
  BY DEF Init, ClaimIsExclusive, Claiming, LockInv, LockHasReason, Idle
<1>2. LifecycleInv /\ ClaimIsExclusive /\ LockInv /\ [Next]_vars => LockInv'
  BY LockStep
<1>3. LockInv => LockHasReason
  BY DEF LockInv
<1>. QED  BY <1>1, <1>2, <1>3, ClaimStep, LifecycleInvariant, PTL DEF Spec

=============================================================================
