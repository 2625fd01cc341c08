-------------------------- MODULE WorkerRegistry --------------------------
(***************************************************************************)
(* How a command finds its Worker: the Registry of each Control Plane      *)
(* replica, its mirror in Redis, the StreamJobs connections and the Worker *)
(* at their other end.                                                     *)
(*                                                                         *)
(* A connection is one runOnce of a Worker: Register, then StreamJobs.     *)
(* Its two ends part ways: `alive` is what the Worker sees, `state` is how *)
(* far the replica's handlers have come, and nothing makes the replica     *)
(* notice at once that the Worker is gone (the server sets no keepalive).  *)
(*                                                                         *)
(* One action is one critical section of Registry.mu, or one group of      *)
(* Redis calls.  Which Runs are dispatched, canceled and settled, and      *)
(* when, is RunExecution's matter and free here.                           *)
(***************************************************************************)
EXTENDS Naturals, Sequences

CONSTANTS
    Worker, Replica, Run,
    Connection,   \* bounds how often Workers connect
    None,         \* no Worker, no replica, no connection
    Capacity,     \* of a jobs channel; 16 in the code
    PromptEnd     \* whether a replica has ended a Worker's old streams by the
                  \* time that Worker connects again

ASSUME RegistryAssumption ==
    /\ None \notin Worker \cup Replica \cup Connection
    /\ Capacity \in Nat \ {0}
    /\ PromptEnd \in BOOLEAN

VARIABLES
    conn,            \* the connections
    channel,         \* workerEntry.jobs, one per Register
    workers,         \* Registry.workers of each replica
    runToWorker,     \* Registry.runToWorker of each replica
    runWorker,       \* Redis: worker-registry:run-worker:<run>
    workerInstance,  \* Redis: worker-registry:worker-instance:<worker>
    running,         \* the Jobs each Worker runs
    told,            \* the Runs each Worker received a CancelJob for
    dispatch,        \* where a Run's Dispatch call is
    cancel,          \* where a Run's CancelJob call is
    forwarded,       \* Redis Pub/Sub: cancels on their way to a replica
    forgotten,       \* Runs canceled or settled: nobody must reach them
    cleanup          \* run-worker keys each replica is about to delete

localVars == <<workers, runToWorker>>
redisVars == <<runWorker, workerInstance>>
jobVars == <<running, told>>
callVars == <<dispatch, cancel, forwarded, forgotten, cleanup>>
vars == <<conn, channel, localVars, redisVars, jobVars, callVars>>

-----------------------------------------------------------------------------
ConnState == {"free", "calling", "registering", "registered", "streaming",
              "ending", "unpublishing", "closed"}

Command == [kind : {"job", "cancel"}, run : Run]

\* A call into the Registry: how far it is, on which replica, and the Worker
\* or the channel it has found.
Call(steps) == [step : steps, replica : Replica \cup {None},
                worker : Worker \cup {None}, channel : Connection \cup {None}]

\* The types, among them that a route names a Worker and an owner a replica
\* (all plain strings in registry.go), and that no channel exceeds its buffer.
TypeOK ==
    /\ conn \in [Connection ->
                   [state : ConnState, alive : BOOLEAN,
                    worker : Worker \cup {None}, replica : Replica \cup {None},
                    active : SUBSET Run,
                    reads : Connection \cup {None}]]
    /\ \A c \in Connection : /\ channel[c] \in Seq(Command)
                             /\ Len(channel[c]) <= Capacity
    /\ workers \in [Replica -> [Worker -> Connection \cup {None}]]
    /\ runToWorker \in [Replica -> [Run -> Worker \cup {None}]]
    /\ runWorker \in [Run -> Worker \cup {None}]
    /\ workerInstance \in [Worker -> Replica \cup {None}]
    /\ running \in [Worker -> SUBSET Run]
    /\ told \in [Worker -> SUBSET Run]
    /\ dispatch \in [Run -> Call({"none", "publishing", "done"})]
    /\ cancel \in [Run -> Call({"none", "pushing", "lookup", "forward",
                                "done"})]
    /\ forwarded \in [Replica -> SUBSET Run]
    /\ forgotten \subseteq Run
    /\ cleanup \in [Replica -> SUBSET Run]

Unused == [state |-> "free", alive |-> FALSE, worker |-> None,
           replica |-> None, active |-> {}, reads |-> None]
NoCall == [step |-> "none", replica |-> None, worker |-> None,
           channel |-> None]

Init ==
    /\ conn = [c \in Connection |-> Unused]
    /\ channel = [c \in Connection |-> <<>>]
    /\ workers = [i \in Replica |-> [w \in Worker |-> None]]
    /\ runToWorker = [i \in Replica |-> [r \in Run |-> None]]
    /\ runWorker = [r \in Run |-> None]
    /\ workerInstance = [w \in Worker |-> None]
    /\ running = [w \in Worker |-> {}]
    /\ told = [w \in Worker |-> {}]
    /\ dispatch = [r \in Run |-> NoCall]
    /\ cancel = [r \in Run |-> NoCall]
    /\ forwarded = [i \in Replica |-> {}]
    /\ forgotten = {}
    /\ cleanup = [i \in Replica |-> {}]

-----------------------------------------------------------------------------
(* The Worker's runOnce and the server's Register.                          *)

\* The Worker reads the set of its running Jobs and calls Register.
Dial(c, w, i) ==
    /\ conn[c].state = "free"
    /\ \A d \in Connection : conn[d].worker = w =>
         /\ ~conn[d].alive
         /\ PromptEnd => conn[d].state = "closed"
    /\ conn' = [conn EXCEPT ![c] = [state |-> "calling", alive |-> TRUE,
                                    worker |-> w, replica |-> i,
                                    active |-> running[w], reads |-> None]]
    /\ UNCHANGED <<channel, localVars, redisVars, jobVars, callVars>>

\* Mutant: routes are made by Dispatch only, not rebuilt by Register.
RegisterWithoutRoutes(c) ==
    /\ conn[c].state = "calling"
    /\ conn' = [conn EXCEPT ![c].state = "registering"]
    /\ workers' = [workers EXCEPT ![conn[c].replica][conn[c].worker] = c]
    /\ UNCHANGED <<channel, runToWorker, redisVars, jobVars, callVars>>

\* A new channel replaces the Worker's old entry, if any, and its Jobs are
\* routed here from now on.
RegisterLocal(c) ==
    LET i == conn[c].replica  w == conn[c].worker IN
    /\ conn[c].state = "calling"
    /\ conn' = [conn EXCEPT ![c].state = "registering"]
    /\ workers' = [workers EXCEPT ![i][w] = c]
    /\ runToWorker' = [runToWorker EXCEPT ![i] =
                         [r \in Run |-> IF r \in conn[c].active THEN w
                                                                ELSE @[r]]]
    /\ UNCHANGED <<channel, redisVars, jobVars, callVars>>

\* Mutant: ownership is published with SETNX, and never changes hands.
PublishIfUnowned(c) ==
    LET w == conn[c].worker IN
    /\ conn[c].state = "registering"
    /\ conn' = [conn EXCEPT ![c].state = "registered"]
    /\ workerInstance' = [workerInstance EXCEPT
                             ![w] = IF @ = None THEN conn[c].replica ELSE @]
    /\ runWorker' = [r \in Run |-> IF r \in conn[c].active THEN w
                                                           ELSE runWorker[r]]
    /\ UNCHANGED <<channel, localVars, jobVars, callVars>>

\* Mutant: only the ownership is published again, not the routes.
PublishOwnerOnly(c) ==
    /\ conn[c].state = "registering"
    /\ conn' = [conn EXCEPT ![c].state = "registered"]
    /\ workerInstance' = [workerInstance EXCEPT
                             ![conn[c].worker] = conn[c].replica]
    /\ UNCHANGED <<channel, localVars, runWorker, jobVars, callVars>>

\* A Redis Set for the owner and one for each active Run; that one of them
\* fails, or that another replica's step comes between them, is left out.
RegisterPublish(c) ==
    LET w == conn[c].worker IN
    /\ conn[c].state = "registering"
    /\ conn' = [conn EXCEPT ![c].state = "registered"]
    /\ workerInstance' = [workerInstance EXCEPT ![w] = conn[c].replica]
    /\ runWorker' = [r \in Run |-> IF r \in conn[c].active THEN w
                                                           ELSE runWorker[r]]
    /\ UNCHANGED <<channel, localVars, jobVars, callVars>>

-----------------------------------------------------------------------------
(* The server's StreamJobs and its deferred deregister.                     *)

\* Without an entry the call fails; otherwise the stream reads the channel
\* of the entry found, whichever Register made it.
StreamOpen(c) ==
    LET entry == workers[conn[c].replica][conn[c].worker] IN
    /\ conn[c].state = "registered"
    /\ conn[c].alive
    /\ conn' = [conn EXCEPT ![c] =
                  IF entry = None
                  THEN [@ EXCEPT !.state = "closed", !.alive = FALSE]
                  ELSE [@ EXCEPT !.state = "streaming", !.reads = entry]]
    /\ UNCHANGED <<channel, localVars, redisVars, jobVars, callVars>>

\* A Worker starts a Job it is assigned; a CancelJob cancels the context of
\* the Job, which ends in its own time (JobEnds), or is ignored.
Received(w, cmd) ==
    IF cmd.kind = "job"
    THEN running' = [running EXCEPT ![w] = @ \cup {cmd.run}] /\ UNCHANGED told
    ELSE told' = [told EXCEPT ![w] = @ \cup {cmd.run}] /\ UNCHANGED running

\* The head of the channel goes out; on a dead connection it is lost, and
\* the failed Send may end the stream.
StreamSend(c) ==
    LET k == conn[c].reads IN
    /\ conn[c].state = "streaming"
    /\ channel[k] # <<>>
    /\ channel' = [channel EXCEPT ![k] = Tail(@)]
    /\ \/ /\ conn[c].alive
          /\ Received(conn[c].worker, Head(channel[k]))
          /\ UNCHANGED conn
       \/ /\ ~conn[c].alive
          /\ \E s \in {"streaming", "ending"} :
               conn' = [conn EXCEPT ![c].state = s]
          /\ UNCHANGED jobVars
    /\ UNCHANGED <<localVars, redisVars, callVars>>

\* The stream's context is done.
StreamEnd(c) ==
    /\ conn[c].state = "streaming"
    /\ ~conn[c].alive
    /\ conn' = [conn EXCEPT ![c].state = "ending"]
    /\ UNCHANGED <<channel, localVars, redisVars, jobVars, callVars>>

\* deregister deletes the Worker's entry, whichever connection made it ...
DeregisterLocal(c) ==
    /\ conn[c].state = "ending"
    /\ conn' = [conn EXCEPT ![c].state = "unpublishing"]
    /\ workers' = [workers EXCEPT ![conn[c].replica][conn[c].worker] = None]
    /\ UNCHANGED <<channel, runToWorker, redisVars, jobVars, callVars>>

\* ... and its owner in Redis, whichever replica that is by now.
DeregisterPublish(c) ==
    /\ conn[c].state = "unpublishing"
    /\ conn' = [conn EXCEPT ![c].state = "closed"]
    /\ workerInstance' = [workerInstance EXCEPT ![conn[c].worker] = None]
    /\ UNCHANGED <<channel, localVars, runWorker, jobVars, callVars>>

-----------------------------------------------------------------------------
(* What goes wrong, and the heartbeat.                                      *)

\* The Worker loses the connection.  Before StreamJobs no deferred call is
\* pending at the replica: its Register handler runs to the end, and the
\* entry stays.
Break(c) ==
    /\ conn[c].alive
    /\ conn' = [conn EXCEPT ![c].alive = FALSE,
                            ![c].state = IF @ = "registered" THEN "closed"
                                                             ELSE @]
    /\ UNCHANGED <<channel, localVars, redisVars, jobVars, callVars>>

\* A Register nobody waits for any more is over once it has published.
AbandonedRegister(c) ==
    /\ conn[c].state = "registered"
    /\ ~conn[c].alive
    /\ conn' = [conn EXCEPT ![c].state = "closed"]
    /\ UNCHANGED <<channel, localVars, redisVars, jobVars, callVars>>

\* A replica dies and comes back with an empty Registry; Redis keeps its keys.
Restart(i) ==
    LET here(call) == call.replica = i IN
    /\ conn' = [c \in Connection |->
                  IF conn[c].replica = i
                  THEN [conn[c] EXCEPT !.alive = FALSE, !.state = "closed"]
                  ELSE conn[c]]
    /\ workers' = [workers EXCEPT ![i] = [w \in Worker |-> None]]
    /\ runToWorker' = [runToWorker EXCEPT ![i] = [r \in Run |-> None]]
    /\ dispatch' = [r \in Run |->
                      IF here(dispatch[r])
                      THEN [dispatch[r] EXCEPT !.step = "done"]
                      ELSE dispatch[r]]
    /\ cancel' = [r \in Run |->
                    IF here(cancel[r]) THEN [cancel[r] EXCEPT !.step = "done"]
                                       ELSE cancel[r]]
    /\ forwarded' = [forwarded EXCEPT ![i] = {}]
    /\ cleanup' = [cleanup EXCEPT ![i] = {}]
    /\ UNCHANGED <<channel, redisVars, jobVars, forgotten>>

\* workerInstanceTTL passes without a Heartbeat: no replica has an entry for
\* the Worker.  (A Heartbeat only extends a key that is there.)
Expire(w) ==
    /\ workerInstance[w] # None
    /\ \A i \in Replica : workers[i][w] = None
    /\ workerInstance' = [workerInstance EXCEPT ![w] = None]
    /\ UNCHANGED <<conn, channel, localVars, runWorker, jobVars, callVars>>

-----------------------------------------------------------------------------
(* Registry.Dispatch.                                                       *)

HasRoom(i, w) == workers[i][w] # None /\ Len(channel[workers[i][w]]) < Capacity

\* Any local Worker with room takes the Job; without one Dispatch returns
\* false and changes nothing.  A Run is dispatched once (RunExecution).
Dispatch(i, r, w) ==
    /\ dispatch[r].step = "none"
    /\ HasRoom(i, w)
    /\ channel' = [channel EXCEPT ![workers[i][w]] =
                     Append(@, [kind |-> "job", run |-> r])]
    /\ runToWorker' = [runToWorker EXCEPT ![i][r] = w]
    /\ dispatch' = [dispatch EXCEPT ![r] = [step |-> "publishing",
                                            replica |-> i, worker |-> w,
                                            channel |-> workers[i][w]]]
    /\ UNCHANGED <<conn, workers, redisVars, jobVars, cancel, forwarded,
                   forgotten, cleanup>>

\* Mutant: the route names the replica instead of the Worker, both strings.
PublishInstance(r) ==
    /\ dispatch[r].step = "publishing"
    /\ dispatch' = [dispatch EXCEPT ![r].step = "done"]
    /\ runWorker' = [runWorker EXCEPT ![r] = dispatch[r].replica]
    /\ UNCHANGED <<conn, channel, localVars, workerInstance, jobVars, cancel,
                   forwarded, forgotten, cleanup>>

DispatchPublish(r) ==
    /\ dispatch[r].step = "publishing"
    /\ dispatch' = [dispatch EXCEPT ![r].step = "done"]
    /\ runWorker' = [runWorker EXCEPT ![r] = dispatch[r].worker]
    /\ UNCHANGED <<conn, channel, localVars, workerInstance, jobVars, cancel,
                   forwarded, forgotten, cleanup>>

-----------------------------------------------------------------------------
(* Registry.CancelJob, cancelLocal, SubscribeCancelForwarding and Forget.   *)

\* The first half of cancelLocal: with a usable local route it keeps the
\* channel found for after the unlock.
OwnsRoute(i, r) ==
    runToWorker[i][r] # None /\ workers[i][runToWorker[i][r]] # None

FoundLocally(i, r) ==
    /\ OwnsRoute(i, r)
    /\ cancel' = [cancel EXCEPT ![r] = [NoCall EXCEPT
                    !.step = "pushing", !.replica = i,
                    !.channel = workers[i][runToWorker[i][r]]]]

\* A cancel request of Run r reaches replica i: at most one per Run here.
CancelJob(i, r) ==
    /\ dispatch[r].step # "none"
    /\ cancel[r].step = "none"
    /\ forgotten' = forgotten \cup {r}
    /\ \/ FoundLocally(i, r)
       \/ /\ ~OwnsRoute(i, r)
          /\ cancel' = [cancel EXCEPT ![r].step = "lookup", ![r].replica = i]
    /\ UNCHANGED <<conn, channel, localVars, redisVars, jobVars, dispatch, forwarded, cleanup>>

\* The local route goes, and its Redis mirror is about to.
Unroute(i, r) ==
    /\ runToWorker' = [runToWorker EXCEPT ![i][r] = None]
    /\ cleanup' = [cleanup EXCEPT ![i] = @ \cup {r}]

\* Mutant: a cancel goes ahead of the Jobs that wait in the channel.
PushAhead(r) ==
    LET k == cancel[r].channel IN
    /\ cancel[r].step = "pushing"
    /\ cancel' = [cancel EXCEPT ![r].step = "done"]
    /\ channel' = [channel EXCEPT ![k] =
                     IF Len(@) < Capacity
                     THEN <<[kind |-> "cancel", run |-> r]>> \o @ ELSE @]
    /\ Unroute(cancel[r].replica, r)
    /\ UNCHANGED <<conn, workers, redisVars, jobVars, dispatch,
                   forwarded, forgotten>>

\* The rest of cancelLocal: the command is pushed if the channel found has
\* room, and the route is removed either way.
CancelPush(r) ==
    LET k == cancel[r].channel IN
    /\ cancel[r].step = "pushing"
    /\ cancel' = [cancel EXCEPT ![r].step = "done"]
    /\ channel' = [channel EXCEPT ![k] =
                     IF Len(@) < Capacity
                     THEN Append(@, [kind |-> "cancel", run |-> r]) ELSE @]
    /\ Unroute(cancel[r].replica, r)
    /\ UNCHANGED <<conn, workers, redisVars, jobVars, dispatch,
                   forwarded, forgotten>>

CancelLookup(r) ==
    /\ cancel[r].step = "lookup"
    /\ cancel' = [cancel EXCEPT
                    ![r].step = IF runWorker[r] = None THEN "done"
                                                       ELSE "forward",
                    ![r].worker = runWorker[r]]
    /\ UNCHANGED <<conn, channel, localVars, redisVars, jobVars, dispatch, forwarded, forgotten, cleanup>>

\* Publish to the replica that owns the Worker, if that is another one.
CancelForward(r) ==
    LET owner == workerInstance[cancel[r].worker] IN
    /\ cancel[r].step = "forward"
    /\ cancel' = [cancel EXCEPT ![r].step = "done"]
    /\ forwarded' = IF owner \in {None, cancel[r].replica} THEN forwarded
                    ELSE [forwarded EXCEPT ![owner] = @ \cup {r}]
    /\ UNCHANGED <<conn, channel, localVars, redisVars, jobVars, dispatch, forgotten, cleanup>>

\* A forwarded cancel this replica cannot route is dropped.
ForwardReceive(i, r) ==
    /\ r \in forwarded[i]
    /\ forwarded' = [forwarded EXCEPT ![i] = @ \ {r}]
    /\ \/ FoundLocally(i, r)
       \/ ~OwnsRoute(i, r) /\ UNCHANGED cancel
    /\ UNCHANGED <<conn, channel, localVars, redisVars, jobVars, dispatch, forgotten, cleanup>>

\* HandleReport or the Reaper, at replica i, has settled Run r.
Forget(i, r) ==
    /\ dispatch[r].step # "none"
    /\ r \notin cleanup[i]
    /\ forgotten' = forgotten \cup {r}
    /\ Unroute(i, r)
    /\ UNCHANGED <<conn, channel, workers, redisVars, jobVars, dispatch,
                   cancel, forwarded>>

\* The Redis Del that ends cancelLocal and Forget.
DeleteRoute(i, r) ==
    /\ r \in cleanup[i]
    /\ cleanup' = [cleanup EXCEPT ![i] = @ \ {r}]
    /\ runWorker' = [runWorker EXCEPT ![r] = None]
    /\ UNCHANGED <<conn, channel, localVars, workerInstance, jobVars, dispatch, cancel, forwarded, forgotten>>

\* handleJob ends: the Worker leaves the Run out of its next Register.
JobEnds(w, r) ==
    /\ r \in running[w]
    /\ running' = [running EXCEPT ![w] = @ \ {r}]
    /\ UNCHANGED <<conn, channel, localVars, redisVars, told, callVars>>

-----------------------------------------------------------------------------
ConnectionNext(c) ==
    \/ \E w \in Worker, i \in Replica : Dial(c, w, i)
    \/ RegisterLocal(c)
    \/ RegisterPublish(c)
    \/ StreamOpen(c)
    \/ StreamSend(c)
    \/ StreamEnd(c)
    \/ DeregisterLocal(c)
    \/ DeregisterPublish(c)
    \/ Break(c)
    \/ AbandonedRegister(c)

RunNext(r) ==
    \/ \E i \in Replica, w \in Worker : Dispatch(i, r, w)
    \/ DispatchPublish(r)
    \/ \E i \in Replica : CancelJob(i, r)
    \/ CancelPush(r)
    \/ CancelLookup(r)
    \/ CancelForward(r)
    \/ \E i \in Replica : ForwardReceive(i, r)
    \/ \E i \in Replica : Forget(i, r)
    \/ \E i \in Replica : DeleteRoute(i, r)
    \/ \E w \in Worker : JobEnds(w, r)

Next ==
    \/ \E c \in Connection : ConnectionNext(c)
    \/ \E r \in Run : RunNext(r)
    \/ \E i \in Replica : Restart(i)
    \/ \E w \in Worker : Expire(w)

Spec == Init /\ [][Next]_vars

-----------------------------------------------------------------------------
(* Safety.                                                                  *)

\* The Worker's stream is open at both ends.
Connected(c) == conn[c].alive /\ conn[c].state = "streaming"

\* A connected Worker can be given work and can be found: its replica's
\* Registry has the channel its stream reads, and Redis names that replica
\* ("correctly updates every other replica's view of who owns it", register
\* in registry.go).  Holds if replicas notice broken streams in time.
ConnectedWorkerIsRoutable ==
    \A c \in Connection : Connected(c) =>
        /\ workers[conn[c].replica][conn[c].worker] = conn[c].reads
        /\ workerInstance[conn[c].worker] = conn[c].replica

\* A Job that runs on a connected Worker can be canceled through its replica
\* unless the Run was already canceled or settled: "what makes Cancel routing
\* survive a Control Plane restart" (register in registry.go).
RunningRunIsRoutable ==
    \A c \in Connection, r \in Run :
        /\ Connected(c)
        /\ r \in running[conn[c].worker] \ forgotten
        => runToWorker[conn[c].replica][r] = conn[c].worker

\* ... and through any other replica, once Dispatch has published its route.
RunningRunIsFoundInRedis ==
    \A c \in Connection, r \in Run :
        /\ Connected(c)
        /\ r \in running[conn[c].worker] \ forgotten
        /\ dispatch[r].step = "done"
        => runWorker[r] = conn[c].worker

\* A Worker never starts a Job it was already told to cancel: a CancelJob
\* takes the channel its JobAssignment took, behind it, or a later one
\* (cancelLocal; runOnce ignores a cancel "for a run not active here").
NoStartAfterCancel ==
    [][\A w \in Worker, r \in Run :
          r \in running'[w] \ running[w] => r \notin told[w]]_vars

=============================================================================
