# Verification of platform-of-platform

TLA+ models of the control plane of platform-of-platform, checked with TLC and
proved with TLAPS. `PROJECT.json` is the machine-readable index: components,
runs, mutants, the map from every definition to the lines it models, findings,
hazards and theorems. Paths below are relative to `src/`.

## 1. The system

A *control plane* (`cmd/control-plane`), run as several replicas, serves an HTTP
API over Postgres or CockroachDB and talks gRPC to *Workers* (`cmd/worker`).
Users trigger *Runs* in *Workspaces*; a Run becomes a Job on a Worker. Each
replica also runs background loops: the Outbox Relay, the Stale Run Reaper, the
Purge Reaper, the idempotency reaper, the fleet deploy executor, the rate limit
collector, the cancel subscription and the registry heartbeat.

| Component | State | Operations | Interacts through | What makes it correct | Status |
|---|---|---|---|---|---|
| Run lifecycle `internal/execution` | `runs.status`, RunQueued / RunApplying events | trigger, dispatch, cancel, report, reap | Workspace lock, outbox, registry | one active Run per Workspace, one dispatch per Run, every dispatched Run settles, no lock left behind | modelled, proved |
| Workspace `internal/workspace` | workspaces, environments, `workspaces.locked_by_run_id` | TryLock, Unlock, Purge, create, delete | called by execution; projects, variables | the lock is released by its holder only | modelled |
| Worker registry `execution/adapters/grpc` | `workers`, `runToWorker`, job channels; Redis keys | register, deregister, Dispatch, CancelJob, Forget, Heartbeat | gRPC streams, Redis keys and Pub/Sub | a connected Worker is reachable for Jobs and cancels | modelled, proved |
| Worker `cmd/worker` | the running Jobs | runOnce, handleJob, report | gRPC | reports once, stops what is canceled | modelled, start-up left out |
| Engines `internal/worker/engine` | subprocesses | Execute | called by the Worker | - | not modelled (I/O) |
| Outbox `internal/platform/outbox` | `outbox_events` | Write, relayBatch | written by every context, read by the Relay of each replica | at-least-once, no event lost or premature | modelled, proved |
| Audit `internal/audit` | `audit_entries` | Create, list | fed by the Relay | one entry per event | recording modelled |
| Tenancy `internal/tenancy` | organizations, projects, teams, members | create, archive, delete, purge reaper, membership, teams | RBAC clean-up, outbox | tenants stay apart, purge leaves nothing, grants follow membership | modelled, proved |
| RBAC `internal/rbac` | roles, bindings (allow, deny; scopes) | bind, unbind, decide | asked by every service | deny wins, scopes inherit downwards | modelled, proved, listings left out |
| Variables `internal/variables` | values by scope | set, resolve | asked by dispatch | the most specific scope wins | modelled, proved, secrets left out |
| Identity `internal/identity` | users, refresh and reset tokens, API keys | login, rotate, reset, create, revoke | auth middleware | single-use tokens, a bootstrap that closes | modelled, proved, external sources left out |
| Fleet `internal/fleet` | machines, compose files, links, variables, operations | CRUD, scan and render, deploy executor, streams | SSH, secrets, Redis | one execution per operation, every operation finishes, what is deployed is what was configured | modelled, proved, sealing left out |
| Idempotency `internal/platform/idempotency` | responses by key | Get, Save, reap | wraps handlers | a retry is not executed again | modelled, proved |
| Rate limit `internal/platform/ratelimit` | windows per key | Allow, GC | login handler, HTTP middleware | no more than the limit per window | modelled, proved |
| HTTP server `internal/platform/httpserver` | - | RequireAuth, bootstrap | wraps handlers | - | who may call is modelled |
| Secrets, envelope, mTLS, tracing, config, web UI | - | - | - | - | not modelled, see section 8 |

What is hard here: handlers are sequences of separate transactions with no lock
across them, so requests, RPCs, the loops of all replicas and Workers interleave
between any two; delivery is at-least-once and handled by every replica; the
registry's truth is spread over process memory, Redis and the Workers; streams
break without either end knowing when; replicas and Workers crash.

## 2. Modules

| Module | Models |
|---|---|
| `RunLifecycle` | the abstract specification: what Execution promises of Runs and locks, with every handler and message hidden |
| `RunExecution` | the code of Execution: trigger, relay and dispatch, cancel, Worker, report, reaper, workspace purge |
| `RunExecutionProofs` | its theorems |
| `WorkerRegistry` | the registry of every replica, its Redis mirror, streams, restarts |
| `WorkerRegistryProofs` | its theorems |
| `OutboxRelay` | outbox, Relay and Audit |
| `OutboxRelayProofs` | its theorems |
| `OperationLifecycle` | the abstract specification of Fleet operations: carried out at most once, ended once |
| `FleetCatalog` | machines, compose files, networks, volumes, links and variables, and the requests that change them |
| `FleetOperations` | operations: trigger, executors, rendering, SSH, streams; extends `FleetCatalog` |
| `FleetOperationsProofs` | the theorems of both |
| `OrganizationLifecycle` | the abstract specification of tenants: created, archived, removed with all that is theirs, each step within one |
| `AccessControl` | callers, roles, bindings, the permission decision, service accounts, API keys, administrators |
| `Tenancy` | Organizations, the purge reaper, members, teams, projects; extends `AccessControl` |
| `ProjectResources` | environments, workspaces, variables and their resolution; extends `Tenancy`; the schema, the specification and its properties |
| `ProjectResourcesProofs` | the theorems of these three that hold however requests overlap |
| `ReferencesProofs` | those that hold as long as none do; extends `ProjectResourcesProofs` |
| `HTTPRequests` | what the next two share: a clock, and where each request is |
| `Sessions` | login and its limiter, refresh tokens, password reset, creation of users |
| `Idempotency` | the middleware, its store and its reaper |
| `Gateway` | both on one clock: the specification and its properties |
| `GatewayProofs` | its theorems |
| `MCRunExecution`, `MCWorkerRegistry`, `MCOutboxRelay`, `MCFleet`, `MCAccess`, `MCGateway` | constants, initial states and symmetry for TLC |

The models meet at narrow interfaces. `OutboxRelay` treats Run dispatch as
a consumer that accepts or refuses; `RunExecution` has the RunQueued events
only, but everything dispatch does with them. `RunExecution` reduces the
registry to "a route is known" and "a cancel command is in the stream";
`WorkerRegistry` has all of routing, and leaves open which Runs are dispatched,
canceled and forgotten. `ProjectResources` composes five contexts over one database,
because their requests write each other's tables or depend on them; the Runs in a
Workspace are left to `RunExecution`, and who may call a Fleet request to
`ProjectResources`.

### RunExecution

One action is one database transaction, or one call into the registry, with the
local code up to the next one. `status`, `lockedBy`, `workspaces`, `queuedEvent`
and `applyingEvent` are rows of the database; `trigger`, `relay` (with `batch`),
`cancel`, `report` and `reaper` are where each handler is between transactions
and which Run it handles; `job`, `route` and `cancelCommand` are the Worker's
side.

- **TriggerCheck / TriggerTryLock / TriggerCreate / TriggerCompensate**:
  `TriggerRunService.Execute`. The lock is taken before the row is inserted; the
  foreign key rejects the row if the Workspace was purged meanwhile, and the
  lock is given back.
- **RelayPoll / DispatchClaim / DispatchResolve / Dispatch / DispatchRevert /
  FailUpdate / FailUnlock / RelayPublish**: `Relay.relayBatch` around
  `RunDispatchService.HandleEvent`. A lost claim returns nil, so the event is
  published; missing configuration fails the Run; without a Worker the claim is
  reverted and the event stays.
- **CancelLoad / CancelUpdate / CancelUnlock / CancelSignal**:
  `CancelRunService.Execute`. The status is read in one transaction and
  overwritten in another.
- **WorkerReceive / WorkerCancel / WorkerFinish / WorkerLose** and **ReportLoad
  / ReportUpdate / ReportUnlock**: a Job's life, and
  `WorkerReportService.HandleReport`.
- **AgeEvent / ReapMark / ReapUnlock**: time, and `StaleRunReaperService`. The
  age of a Run's newest RunApplying event and of the oldest earlier one are kept
  apart, because the query takes either for the present claim's.
- **PurgeWorkspace**: `WorkspaceRepository.Purge`, which has no guard on the lock.
- **TriggerAbort, RelayAbort, CancelAbort, ReportAbort, ReapAbort**: with
  `MayAbort`, a handler stops between two transactions: a crash, a canceled
  request, a database error.

### WorkerRegistry

One action is one critical section of `Registry.mu` or one group of Redis calls.
A connection is one `runOnce`: Dial (the Worker reads its running Jobs),
RegisterLocal and RegisterPublish, StreamOpen (the stream takes whatever channel
the entry has by then), StreamSend, StreamEnd, DeregisterLocal and
DeregisterPublish. Its two ends are separate: `alive` is what the Worker knows,
`state` what the replica's handlers do. Break, AbandonedRegister, Restart and
Expire are what goes wrong. Dispatch and DispatchPublish are
`Registry.Dispatch`; CancelJob, CancelPush, CancelLookup, CancelForward,
ForwardReceive and DeleteRoute are `CancelJob`, `cancelLocal` and
`SubscribeCancelForwarding`; Forget is `Forget`. Channels are sequences with a
capacity; a push into a full one is lost, as in the code. `Heartbeat` appears as
the condition of Expire: a key with a local entry is refreshed. All Workers
support the engine asked for.

`PromptEnd` is an assumption about the network, not about the code: a replica has
ended a Worker's old streams by the time that Worker connects again. The code
does nothing to ensure it, and `registry_old_stream` shows what happens without.

### OutboxRelay

Begin and Finish are any domain transaction with an `outbox.Write`; `occurredAt`
is when it began, so rows become visible out of order. Poll reads the oldest
`BatchLimit` unpublished rows; Record, RecordRejected, Accept, Refuse and Publish
handle them in order. Purge deletes an Organization's rows under a Relay that may
hold them in its batch. RecordFails and BatchLost are failed calls, before or
after their commit, and crashes.

### FleetCatalog and FleetOperations

`db` has a set of rows per table; `request[q]` is where a request is and what it has
read. One action is one transaction or one call to the vault. Foreign keys, cascades,
unique names and the CHECK on `operation_type` are guards of the INSERTs and DELETEs;
`WellFormed` says of a database what they ensure, and every initial one satisfies it
(`InitialAssumption`, which TLC evaluates).
A compose document is what scanning and rendering look at: its services, the
environment each declares, its placeholders. `UpdateMachineLoad / Save` and
`CheckConnectionLoad / Save` show the copy that is written back; `SyncKey` is one key of
`syncEnvVariablesFromCompose`; duplicating a machine tries names until one is free.

An operation is created by TriggerFile / TriggerMachine / TriggerCreate, found by
PollScan and claimed by PollClaim on a replica; ExecLoad to ExecPublish are the
goroutine of `DeployExecutor.execute`, one transaction or SSH call each: load, connect,
read own and global variables, cascade, render, upload, run, finish, publish. ExecReadFails
and ExecUploadFails are the error paths to `finishWithError`, ExecAbort is a crash, and
ExecFinish may fail to write. The streams are `StreamOperationHandler`: first look,
subscription, message, recheck.

The upload is one step per file, as in `RunOperation`: ExecUpload writes the compose document,
ExecWriteFile one file variable (`file_template` and `config_file` are one type here).
`remote` has the docker-compose.yml of every deploy directory, and who wrote it. Where things
are written is constants: `DeployDir` is the directory of a machine's settings and a compose
file, any function, since `slugify` maps different names to one slug; `Joined` says which
directory's docker-compose.yml a file variable's `Target` names from a given directory, if any,
since the path is only checked for not being empty. `Mentions` has the placeholders of a
value that is rendered as a template, and `BatchSize` is the LIMIT of a poll. `racing` in an
executor's state is a history: who could still write when it uploaded its document.

### AccessControl, Tenancy, ProjectResources

A request makes its checks in one step and then writes, one step per transaction, with
what it was given; others step in between, and it may break off. Checks are reads of
separate transactions, too; they are one step because what they race with is the write,
and the write does not repeat them. `overlap` is a history variable: some request has
started during another one. `RequireAuth` is the set of callers: users, and service
accounts with an API key and its scopes. `Matches` and `Decide` are the SQL of
`HasPermissionAtScope`; `HasScopedPermission` that of visibility. `PurgeOrganization`
deletes table by table, and the last DELETE fails if a table was forgotten.
`ResolveVariable` reads one scope per step; the first and last database it saw are kept.

`WellFormed` is the schema of the migrations, with what the services' checks add to it for
every database (built-in roles stay as seeded, a binding is to a role of its own
Organization or a built-in one). `NothingDangles` is what the schema does not say, because
`subject_id`, `scope_id` and `environment_id` are no foreign keys. Initial databases satisfy
both, and have drawn each id once (`InitialAssumption`, which TLC evaluates).

### Sessions, Idempotency, Gateway

A request begins with its first transaction or, for a login, with the limiter, and
goes on by one transaction per step; `Breaks` is an error or crash between two. `event`
is a history of what requests did, with the requests that had ended when they began
(`after`). Tokens and rows are named after the request that made them. The middleware of
`Idempotency` stands around a handler with one effect: the handler's failure is a
request that breaks off before it.

## 3. Runs

| Run | Instance | Distinct states | Checks | Result |
|---|---|---|---|---|
| `execution_safety` | 2 Runs, 1 Workspace, 1 replica, 1 cancel | 1.0 million | `OneActiveRunPerWorkspace`, `LockHasReason`, `QueuedHasDelivery`, refinement `ImplementsLifecycle`, types | holds |
| `execution_crashes` | 1 Run, 2 replicas, 1 cancel, handlers abort | 40 thousand | `DispatchedAtMostOnce`, liveness `DispatchedRunSettles` | holds |
| `registry_routing` | 1 Worker, 3 connections, 2 replicas, 1 Run, capacity 2, `PromptEnd` | 760 thousand | `ConnectedWorkerIsRoutable`, `RunningRunIsRoutable`, `RunningRunIsFoundInRedis`, `NoStartAfterCancel`, types | holds |
| `outbox_delivery` | 3 events, 1 of them RunQueued, 2 Organizations, 2 replicas, batches of 2, 1 fault | 270 thousand | `RecordedOnce`, `PublishedWasHandled`, `OnlyCommittedIsHandled`, liveness `CommittedEventIsDelivered`, types | holds |
| `fleet_operations` | 2 requests over 1 machine and 1 file, or 2 deploys of 2 files into two directories or one, with file variables aimed at documents; 2 replicas, 1 stream, executors die | 226 thousand | `OperationKeepsItsTargets`, `CommandFindsItsFile`, `DeployedEnvironmentIsTheCascade`, refinement `ImplementsOperationLifecycle`, `ArchivalIsNotLost`, `SyncLeavesOtherTypesAlone`, liveness `OperationSettles` and `StreamIsClosed`, types | holds |
| `access_control` | 2 requests of any kind, 2 Organizations, 3 users, one of everything else, a reaper; 4 initial databases | 45 thousand | `NothingDanglesWithoutOverlap`, `GrantsCascadeUnlessDenied`, `ResolutionHonoursWhatStays`, `NewMemberOnlyReads`, `ReaperPurgesOnlyDueArchived`, refinement `ImplementsOrganizationLifecycle`, liveness `ArchivedIsPurged`, types with all foreign and unique keys | holds |
| `gateway` | 3 requests in 8 mixtures, 2 users, 2 callers of 1 key, 5 instants | 1.4 million | `TokensAreSpentOnceInSequence`, `BootstrapClosesItself`, `LimiterBoundsAttempts`, `SavedKeyHasNoSecondEffect`, `ReplayIsOwnAndRecent`, types and unique keys | holds |
| `execution_stranded` | 1 Run, 2 replicas | | `QueuedRunIsRetried` | violated |
| `execution_overwrite` | 1 Run, 1 cancel | | `TerminalIsFinal` | violated |
| `execution_early_reap` | 1 Run | | `ReapedOnlyWhenStale` | violated |
| `execution_untold` | 1 Run, 1 cancel | | `CanceledJobIsTold` | violated |
| `registry_old_stream` | 1 Worker, 2 connections, no `PromptEnd` | | `ConnectedWorkerIsRoutable` | violated |

Each property of a passing run has a mutant: a plausible bug in a mapped
definition (a lock taken without its guard, a claim that ignores the status, a
plain INSERT, a cursor instead of a flag) under which TLC finds it violated.

### What the violations show

- **Stranded Run** (`dispatch_run.go:96`). Replica A claims the Run; B, with the
  same event in its batch, loses the claim and publishes the event; A finds no
  Worker and reverts. The Run is queued, its event spent, the Workspace locked.
- **Overwritten outcome** (`run_repository.go:134`). A cancel and a report read
  `applying`; both write.
- **Early reap** (`run_repository.go:266`). A Run claimed, reverted and claimed
  again has an old RunApplying event and is errored out while its Job runs.
- **Untold Worker** (`dispatch_run.go:154`). A cancel between claim and dispatch
  finds no route; then the Job starts.
- **Unrouted Worker** (`registry.go:111`). A handler of a connection the Worker
  has left, a late Register or a late deregister, replaces or deletes the entry
  of its present connection; it gets neither Jobs nor cancels.
- One comment is out of date (`relay.go:23-29`): a redelivery does not duplicate
  an audit entry, as `RecordedOnce` shows.

### What the passing runs show besides

Where a comment promises more than the code keeps, the property says what remains true,
and its condition says what does not:

- **Bindings** (`tenancy/application/ports.go:116`). "No RoleBinding is ever left dangling"
  holds unless requests overlap; a grant created during `RemoveMember` outlives the member.
- **Returning members** (`add_member.go:22`). A new member only reads, unless a team membership
  of an earlier time is left: `RemoveMember` does not delete those, and they count at once.
- **Tokens** (`refresh_token.go:43`, `password_reset.go:72`). Single use holds for requests that do
  not overlap. Refresh tokens outlive a password reset.
- **Idempotency** (`store.go:112`). A stored response protects for the whole window; but a key
  used again after it is not stored while the expired row waits for the reaper.
- **Deploy directories** (`deploy_executor.go:242`). Unique names do not ensure different
  directories, and a file variable may be aimed at a docker-compose.yml. What holds is
  `CommandFindsItsFile`: the document is the executor's own unless an upload that was not over
  by then has replaced it, as a file of that directory or a variable aimed at it. On the
  instance of `fleet_operations` TLC refutes both stronger statements, that the document is
  always the executor's and that it is always of the operation's compose file.
- **Operation types** (`domain/operation.go:37`). Six of fifteen pass validation and fail the CHECK.
- **Networks and volumes** (`network_repository.go:112`). Deleting an attached one cascades; the
  announced `ErrNetworkInUse` does not happen.
- **Dead executors** (`deploy_executor.go:104`). `OperationSettles` excepts them: nothing finishes
  the operations they leave running.
- **Deny after allow** (`role_binding_repository.go:325`). The unique key lacks the effect, so a
  deny of a role that is allowed at the same scope is dropped without an error; the model's
  `InsertBinding` does the same, and the decision is right for the bindings there are.

### Bounds

Runs, connections and events are finite sets, each used once: they bound how often
things happen, and every instance ends with nothing left to do. That is why the
configurations switch off the deadlock check: with all Runs settled, all connections
used and all events delivered there is no next step, and the real system waits too.

Two Runs are the least for which the lock matters, two replicas for which redelivery
races; one cancel is enough to race a report, a claim and the reaper. Three
connections are the least in which a Worker leaves a replica and returns to it.
Capacity 2 holds a Job and a cancel, and is full in between. Three events with
batches of two leave one out. `execution_safety` has one replica because
`QueuedHasDelivery` is false with two; what does not depend on it is proved for any
number. Symmetry is used in the runs without liveness only.

In `fleet_operations` requests and executors are apart, except that a triggered operation is
executed: two requests are the least that interleave, two operations the least that share
a host or a claim; one file has its own value for a key that the global file has too,
with the same or another type; two files have one directory and a third has its own, and a
file variable names its own directory's document, the sibling's, or another file. In `access_control` two requests suffice for every race
between a check and a write, and a populated database makes each of the thirty requests
possible at once: members with and without grants, a team with a project grant, a deny at
a workspace, an API key with scopes, a user in two Organizations, a variable at two scopes. The fresh
database has the first Organization of all, the archived one the reaper's work. `MaxId`
leaves room for the rows two requests insert. In `gateway` three requests are the least in
which two overlap and a third comes later; the clock of five instants passes every
lifetime (1 or 2) and both ends of two windows; a limit of 1 is exceeded by two logins.

### Fairness

`FairSpec` of `RunExecution` is weak fairness of each handler's next step, each
replica's Relay and Reaper and the passing of time: goroutines of a running
process are scheduled, tickers tick, and a database call returns or fails.
Nothing is assumed of users, Workers or what Dispatch finds: a Worker may be silent
for ever. Handlers may still abort in `execution_crashes`; a reaper that aborts
after marking a Run does so after the Run has settled. In `OutboxRelay` it is weak
fairness of each Relay's loop; dispatch may refuse for ever, and faults are bounded
by `MaxFaults`: a Relay that failed at every step would deliver nothing.

`FleetOperations` has weak fairness of each replica's poll, each executor's next step
and each stream's subscription and recheck ticker; nothing is assumed of requests, and an
executor may die at any step. `ProjectResources` has it of the passing of the purge
window and of the reaper's scan and purges. `Gateway` claims no liveness and assumes no fairness.

## 4. What is proved

`RunExecutionProofs`, for all sets of Runs, Workspaces, replicas and cancel
requests, and unless stated otherwise with handlers that abort anywhere:

| Theorem | States |
|---|---|
| `TypeCorrect` | `TypeOK` |
| `OneActiveRun` | `OneActiveRunPerWorkspace` |
| `Refinement` | `ImplementsLifecycle`: every step is a step of `RunLifecycle` or leaves its state alone |
| `AtMostOneDispatch` | `DispatchedAtMostOnce` |
| `QueuedRunKeepsItsEvent` | `QueuedHasDelivery`, for a single replica |
| `NoLockLeaks` | `LockHasReason`, if no handler aborts |

The central inductive invariant is `LifecycleInv`: an active Run holds the lock of
its Workspace (`ActiveHoldsLock`, from which one active Run per Workspace follows,
as a lock has one holder), a Run has no row before its Create
(`TriggerBeforeCreate`), a Run some handler is at work on has been created
(`HandledRunExists`), a handler about to unlock has settled its Run first
(`SettledBeforeUnlock`), and a report that is being handled has an outcome
(`ReportHasOutcome`). Neither mutual exclusion nor the refinement is inductive
alone: it takes `SettledBeforeUnlock` to see that no Unlock frees an active Run's
lock, and that in turn needs a settled Run to stay settled, although `Update`
overwrites any status. `ClaimIsExclusive` adds that the Run a Relay has claimed has
no Job and no second claimant; `EventSurvivesClaim` that with one replica a claimed
Run's event is still pending; `LockInv` that every handler which has settled a Run
is still going to unlock.

`OutboxRelayProofs`, for any finite set of events and any replicas, Organizations,
batch limit and number of faults: `AuditIsIdempotent` (`RecordedOnce`),
`NoConsumerLosesAnEvent` (`PublishedWasHandled`), `RolledBackIsNeverHandled`
(`OnlyCommittedIsHandled`). `DeliveryInv` strengthens them by: what is in a batch
was committed (`BatchWasCommitted`), rows of a purged Organization are gone
(`DeletedWithOrganization`), and the event at hand has been recorded, and accepted
before it is published, unless it was deleted meanwhile (`EventAtHand`).

`OutboxIsTypeCorrect` is the type invariant, a conjunct of the same.

`WorkerRegistryProofs`, for all sets of Workers, replicas, connections and Runs and any
capacity: `TypeCorrect`, and, under the hypothesis `PromptEnd` of section 2 (without it
`registry_old_stream` is a counterexample), `ConnectedWorkersAreRoutable`,
`RunningRunsAreRoutable`, `RunningRunsAreFoundInRedis` and `CancelsArriveBehindTheirJobs`
(`NoStartAfterCancel`). `RoutingInv` follows a Job from its push into a channel to the
Worker's process: wherever the Job is, its route exists, and a cancel in a channel is behind
the Job it cancels.

`GatewayProofs`, for any requests, users, callers, keys, lifetimes and limits:

| Theorem | States |
|---|---|
| `GatewayIsTypeCorrect` | `TypeOK` with the unique keys |
| `UsedTokensStayUsed` | `TokensAreSpentOnceInSequence` |
| `BootstrapIsForTheFirst` | `BootstrapClosesItself` |
| `LimiterIsBounded` | `LimiterBoundsAttempts` |
| `SavedKeysHold` | `SavedKeyHasNoSecondEffect` |
| `ReplaysAreOwn` | `ReplayIsOwnAndRecent` |

`GatewayInv` relates the history to the tables: a request in another's `after` is over
(`AfterIsOver`), a spent token is marked and what a request read of it is not older than
its beginning (`RefreshInv`, `ResetInv`), a user created before a request began is counted by it
(`UserInv`), a saved answer is in its row or out of its window (`RowInv`). `LimiterInv` counts the
attempts by the windows they were let through in: `Limit` each, and the windows begin at least
an `Interval` apart, so that a stretch of one `Interval` meets two of them at most.

`FleetOperationsProofs`, for any machines, files, documents, requests and replicas, and
executors that die anywhere:

| Theorem | States |
|---|---|
| `FleetIsTypeCorrect` | `TypeOK` with all foreign and unique keys |
| `OperationsKeepTheirTargets` | `OperationKeepsItsTargets` |
| `DeployedEnvironmentsCascade` | `DeployedEnvironmentIsTheCascade` |
| `ArchivalsStay` | `ArchivalIsNotLost` |
| `SyncKeepsOtherTypes` | `SyncLeavesOtherTypesAlone` |
| `ImplementsLifecycle` | `ImplementsOperationLifecycle` |
| `CommandsFindTheirFile` | `CommandFindsItsFile` |

`FleetInv` has the tables' constraints and, for every request and executor between two
transactions, what its copy still has to do with the database: a copied row, if its id is still
there, agrees with the row in the columns that are written once (`CopiesOK`, since ids are never used
again), an executor past a step has the values that the step read (`ReadOK`), the operations in a
poll's batch exist. The last theorem is for any `DeployDir` and `Joined`, so it needs no hypothesis
about slugs or target paths, and adds `UploadInv`: every document was written by an executor that
has started, as a compose file of that directory or a variable aimed at it (`DocumentOK`), and
from an executor's upload to its command everyone who may still write is in its `racing`
(`DocumentFound`). All steps but the two writes are `Quiet`: they write nothing, and bring no new
writer about.

`ProjectResourcesProofs`, for any users, names, keys, numbers of requests and initial databases:

| Theorem | States |
|---|---|
| `DatabaseIsWellFormed` | `TypeOK`: the schema, and no binding to another Organization's role |
| `GrantsCascade` | `GrantsCascadeUnlessDenied` |
| `ResolutionIsRight` | `ResolutionHonoursWhatStays` |
| `ReaperPurgesWhatIsDue` | `ReaperPurgesOnlyDueArchived` |
| `OrganizationsAreTenants` | `ImplementsOrganizationLifecycle` |

The schema is not inductive by itself. Requests that overlap leave bindings and variables that
point at deleted projects or workspaces, and a later clean-up deletes by that id alone
(`PurgeProject`, `PurgeWorkspace`); that it cannot reach another Organization's rows is
because the id was drawn for one Organization and is never drawn again. `Owned` says this
with a function `ow` from ids to Organizations, of which the invariant `Inv` claims that it
exists, and which each INSERT extends by the id it draws. `RequestOK` says of a request
between two transactions that the ids it has read are `ow`'s, of a resolution which of the
variables that stay it has seen already (`ResolveOK`), and `Purgeable` of the reaper's list that its
Organizations are archived and due, or gone for ever. `Evolves` is what one transaction may do, with a lemma per
transaction; the refinement and the reaper's theorem follow from the same lemmas.

`ReferencesProofs`, for the same constants:

| Theorem | States |
|---|---|
| `NothingIsLeftDangling` | `NothingDanglesWithoutOverlap` |
| `NewMembersOnlyRead` | `NewMemberOnlyReads` |

No foreign key protects the subject or scope of a binding, the scope of a variable or the
environment of a workspace; what keeps them is that the checks of a request still hold when it
writes. The invariant `Tidy` says so as long as no two requests have overlapped: one at most is
under way, nothing dangles, also between its transactions, and the request knows (`Knows`) that what
it is about to point at is there or its Organization is gone, and that nothing points any more
at the member or team it is about to delete. The reaper steps in between all the same, and
takes away only whole Organizations, so `Knows` survives it (`KnowsKept`). Of a user who is about to
get his first role, `Knows` says that he has no binding yet: there was no membership, nothing
dangled, and no service account has a user's id. TLC checked `Tidy` on the instance of
`access_control` before it was proved. That the theorems need the absence of overlap is real: the
services check in one transaction and write in another.

The assumptions are those of the modules that declare the constants (`ExecutionAssumption`,
`OutboxAssumption`, `RegistryAssumption` and so on), which TLC evaluates in every run: constants have
their types, "none" is none of the members, the set of events is finite, and initial databases
satisfy their schema and have nothing dangling.

## 5. What is only model-checked

Liveness (`DispatchedRunSettles`, `CommittedEventIsDelivered`, `OperationSettles`,
`StreamIsClosed`, `ArchivedIsPurged`) is outside what the prover does with fairness.
Every safety property of a passing run is proved.

## 6. Abstractions

Permissions, archival, engines, Variables and secrets are free answers in
`RunExecution`; requests that a check refuses change nothing and are left out everywhere.
The vault, SSH and Redis Pub/Sub are modelled from how the code uses them. Names, slugs,
emails and values are model values; a password is compared, not hashed. The database's and
the process's clock are one. The text of outputs and payloads is left out. Time is the age of
events and the expiry of keys. The statuses `planning`, `planned`, `policy_check` and
`awaiting_approval` exist in `domain/run.go` but no code produces them. A
transaction is atomic and sees the latest committed state; the statements in question
are single conditional UPDATEs or INSERTs, for which that holds at the isolation
levels of both databases.

Left out of single definitions: which queued operations are the oldest (ORDER BY), and the order of
keys among file variables; that the write of a remote file truncates it first; deploys of different
Organizations that meet on one host; a stream's recheck whose read fails, which is the next
tick's. A failed Redis Set in `register`, and another replica's step between two of its Sets.
`PurgeOrganization` deletes from twelve of the tables in the code's list, those of these modules, so
`ArchivedIsPurged` speaks of them. The limiter reads the time before it locks its windows; here the
two are one step. A user's name and his UNIQUE email are one key.

What the properties of `Gateway` exclude, and the code does not: requests that overlap (two refreshes of
one token, two first users, two requests with one new idempotency key), and a password reset that
breaks off between its two transactions, whose token works again. Idempotency keys are
not scoped by route, in the code (`cmd/control-plane/main.go:584`, `645`) and in the model. `TokensAreSpentOnceInSequence`
is about refresh and reset tokens; TLC refutes it both with a `Revoke` and with a `MarkUsed` that does nothing.

## 7. Plan

1. **Registry and execution composed**: leaked routes, late keys in Redis, cancels
   through the registry; and the **shutdown** sequence of the control plane.
2. **Audit**: the keyset pagination of the log against concurrent inserts.

## 8. Not modelled

Engines (subprocesses), the vault client, cryptography, certificates, tracing,
configuration, HTTP rendering and the web UI have no state that other steps depend on, or
depend on external programs. Most HTTP handlers decode a request, call one service and
render its answer: the service is modelled. Secret mounts are rows that only the vault client
uses. Listings and pagination change nothing. Row level security is the database's: the models
write the `WHERE organization_id` that it enforces. Generated code (`worker.pb.go`) and the
wiring in `cmd/control-plane/main.go` carry no logic of their own, apart from
`combinedHandler`, which is modelled, and the shutdown, which is planned.
