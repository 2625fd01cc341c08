------------------------ MODULE WorkerRegistryProofs ------------------------
(***************************************************************************)
(* Proofs about WorkerRegistry, for any number of Workers, replicas, Runs  *)
(* and connections, and for any capacity of the channels.                  *)
(***************************************************************************)
EXTENDS WorkerRegistry, TLAPS

-----------------------------------------------------------------------------
(* Type correctness.                                                        *)

ConnType == [state : ConnState, alive : BOOLEAN, worker : Worker \cup {None},
             replica : Replica \cup {None}, active : SUBSET Run,
             reads : Connection \cup {None}]
DispatchCall == Call({"none", "publishing", "done"})
CancelCall == Call({"none", "pushing", "lookup", "forward", "done"})

\* A connection that is in use has both its ends, and one that streams has a
\* channel.
HasItsEnds(x) ==
    /\ IF x.state = "free" THEN x.worker = None /\ x.replica = None
                           ELSE x.worker \in Worker /\ x.replica \in Replica
    /\ x.state = "streaming" => x.reads \in Connection

ConnOK ==
    /\ conn \in [Connection -> ConnType]
    /\ \A c \in Connection : HasItsEnds(conn[c])

ChannelOK ==
    /\ channel \in [Connection -> Seq(Command)]
    /\ \A c \in Connection : Len(channel[c]) <= Capacity

RouteOK ==
    /\ workers \in [Replica -> [Worker -> Connection \cup {None}]]
    /\ runToWorker \in [Replica -> [Run -> Worker \cup {None}]]
    /\ runWorker \in [Run -> Worker \cup {None}]
    /\ workerInstance \in [Worker -> Replica \cup {None}]

JobOK ==
    /\ running \in [Worker -> SUBSET Run]
    /\ told \in [Worker -> SUBSET Run]

\* A call that is under way knows what it needs for its next step.
CallOK ==
    /\ dispatch \in [Run -> DispatchCall]
    /\ cancel \in [Run -> CancelCall]
    /\ \A r \in Run :
         /\ IF dispatch[r].step = "none" THEN dispatch[r].replica = None
            ELSE dispatch[r].worker \in Worker /\ dispatch[r].replica \in Replica
         /\ cancel[r].step = "none" => cancel[r].replica = None
         /\ cancel[r].step \in {"pushing", "lookup", "forward"} =>
              cancel[r].replica \in Replica
         /\ cancel[r].step = "pushing" => cancel[r].channel \in Connection
         /\ cancel[r].step = "forward" => cancel[r].worker \in Worker

SetOK ==
    /\ forwarded \in [Replica -> SUBSET Run]
    /\ forgotten \subseteq Run
    /\ cleanup \in [Replica -> SUBSET Run]

TypeInv == ConnOK /\ ChannelOK /\ RouteOK /\ JobOK /\ CallOK /\ SetOK

\* The inductive invariant contains TypeOK.
LEMMA TypeInvTypes == TypeInv => TypeOK
BY DEF TypeInv, TypeOK, ConnOK, ConnType, ChannelOK, RouteOK, JobOK, CallOK, SetOK,
       DispatchCall, CancelCall

\* Every initial state is type correct and well formed.
LEMMA TypeInit == Init => TypeInv
<1> SUFFICES ASSUME Init PROVE TypeInv
  OBVIOUS
<1> USE RegistryAssumption DEF Init
<1>1. ConnOK
  BY DEF ConnOK, ConnType, ConnState, HasItsEnds, Unused
<1>2. ChannelOK
  BY DEF ChannelOK
<1>3. RouteOK /\ JobOK /\ SetOK
  BY DEF RouteOK, JobOK, SetOK
<1>4. CallOK
  BY DEF CallOK, DispatchCall, CancelCall, Call, NoCall
<1> QED
  BY <1>1, <1>2, <1>3, <1>4 DEF TypeInv

\* One connection is replaced by a well-formed one.
LEMMA ConnUpdate ==
    ASSUME ConnOK, NEW c \in Connection, NEW x \in ConnType, HasItsEnds(x),
           conn' = [conn EXCEPT ![c] = x]
    PROVE  ConnOK'
BY DEF ConnOK, HasItsEnds

\* A handler of a connection in use goes on.
LEMMA ConnGoesOn ==
    ASSUME ConnOK, NEW c \in Connection, conn[c].state # "free",
           NEW s \in ConnState \ {"free"}, NEW b \in BOOLEAN,
           s = "streaming" => conn[c].state = "streaming"
    PROVE  /\ [conn[c] EXCEPT !.state = s] \in ConnType
           /\ HasItsEnds([conn[c] EXCEPT !.state = s])
           /\ [conn[c] EXCEPT !.alive = b, !.state = s] \in ConnType
           /\ HasItsEnds([conn[c] EXCEPT !.alive = b, !.state = s])
BY DEF ConnOK, ConnType, HasItsEnds

\* What Register, StreamJobs and their ends do to the types.
LEMMA ConnectionKeepsTypes ==
    ASSUME TypeInv, NEW c \in Connection, ConnectionNext(c)
    PROVE  TypeInv'
<1> USE RegistryAssumption
<1>a. ConnOK /\ ChannelOK /\ RouteOK /\ JobOK /\ CallOK /\ SetOK
  BY DEF TypeInv
<1>b. conn[c] \in ConnType /\ HasItsEnds(conn[c])
  BY <1>a DEF ConnOK
<1>1. CASE \E w \in Worker, i \in Replica : Dial(c, w, i)
  <2>1. PICK w \in Worker, i \in Replica : Dial(c, w, i)
    BY <1>1
  <2> DEFINE x == [state |-> "calling", alive |-> TRUE, worker |-> w, replica |-> i,
                   active |-> running[w], reads |-> None]
  <2>2. x \in ConnType /\ HasItsEnds(x)
    BY <1>a DEF ConnType, ConnState, HasItsEnds, JobOK
  <2>3. ConnOK'
    BY <1>a, <2>1, <2>2, ConnUpdate DEF Dial
  <2> QED
    BY <1>a, <2>1, <2>3 DEF Dial, TypeInv, ChannelOK, RouteOK, JobOK, CallOK, SetOK,
         localVars, redisVars, jobVars, callVars
<1>2. CASE RegisterLocal(c)
  <2>1. ConnOK'
    BY <1>a, <1>2, ConnGoesOn, ConnUpdate DEF RegisterLocal, ConnState
  <2>2. RouteOK'
    BY <1>a, <1>b, <1>2 DEF RegisterLocal, RouteOK, HasItsEnds, redisVars
  <2> QED
    BY <1>a, <1>2, <2>1, <2>2 DEF RegisterLocal, TypeInv, ChannelOK, JobOK, CallOK, SetOK,
         jobVars, callVars
<1>3. CASE RegisterPublish(c)
  <2>1. ConnOK'
    BY <1>a, <1>3, ConnGoesOn, ConnUpdate DEF RegisterPublish, ConnState
  <2>2. RouteOK'
    BY <1>a, <1>b, <1>3 DEF RegisterPublish, RouteOK, HasItsEnds, localVars
  <2> QED
    BY <1>a, <1>3, <2>1, <2>2 DEF RegisterPublish, TypeInv, ChannelOK, JobOK, CallOK,
         SetOK, jobVars, callVars
<1>4. CASE StreamOpen(c)
  <2> DEFINE entry == workers[conn[c].replica][conn[c].worker]
             x == IF entry = None
                  THEN [conn[c] EXCEPT !.state = "closed", !.alive = FALSE]
                  ELSE [conn[c] EXCEPT !.state = "streaming", !.reads = entry]
  <2>1. entry \in Connection \cup {None}
    BY <1>a, <1>b, <1>4 DEF StreamOpen, RouteOK, HasItsEnds
  <2>2. x \in ConnType /\ HasItsEnds(x)
    BY <1>b, <1>4, <2>1 DEF StreamOpen, ConnType, ConnState, HasItsEnds
  <2>3. ConnOK'
    BY <1>a, <1>4, <2>2, ConnUpdate DEF StreamOpen
  <2> QED
    BY <1>a, <1>4, <2>3 DEF StreamOpen, TypeInv, ChannelOK, RouteOK, JobOK, CallOK, SetOK,
         localVars, redisVars, jobVars, callVars
<1>5. CASE StreamSend(c)
  <2> DEFINE k == conn[c].reads
  <2>1. k \in Connection /\ conn[c].worker \in Worker
    BY <1>b, <1>5 DEF StreamSend, HasItsEnds
  <2>2. channel[k] \in Seq(Command) /\ channel[k] # <<>>
    BY <1>a, <1>5, <2>1 DEF StreamSend, ChannelOK
  <2>3. /\ Head(channel[k]) \in Command
        /\ Tail(channel[k]) \in Seq(Command)
        /\ Len(Tail(channel[k])) = Len(channel[k]) - 1
    BY <2>2
  <2>4. ChannelOK'
    BY <1>a, <1>5, <2>1, <2>2, <2>3 DEF StreamSend, ChannelOK
  <2>5. JobOK'
    BY <1>a, <1>5, <2>1, <2>3 DEF StreamSend, Received, Command, JobOK, jobVars
  <2>6. ConnOK'
    BY <1>a, <1>5, ConnGoesOn, ConnUpdate DEF StreamSend, ConnState, ConnOK
  <2> QED
    BY <1>a, <1>5, <2>4, <2>5, <2>6 DEF StreamSend, TypeInv, RouteOK, CallOK, SetOK,
         localVars, redisVars, callVars
<1>6. CASE StreamEnd(c)
  <2>1. ConnOK'
    BY <1>a, <1>6, ConnGoesOn, ConnUpdate DEF StreamEnd, ConnState
  <2> QED
    BY <1>a, <1>6, <2>1 DEF StreamEnd, TypeInv, ChannelOK, RouteOK, JobOK, CallOK, SetOK,
         localVars, redisVars, jobVars, callVars
<1>7. CASE DeregisterLocal(c)
  <2>1. ConnOK'
    BY <1>a, <1>7, ConnGoesOn, ConnUpdate DEF DeregisterLocal, ConnState
  <2>2. RouteOK'
    BY <1>a, <1>b, <1>7 DEF DeregisterLocal, RouteOK, HasItsEnds, redisVars
  <2> QED
    BY <1>a, <1>7, <2>1, <2>2 DEF DeregisterLocal, TypeInv, ChannelOK, JobOK, CallOK,
         SetOK, jobVars, callVars
<1>8. CASE DeregisterPublish(c)
  <2>1. ConnOK'
    BY <1>a, <1>8, ConnGoesOn, ConnUpdate DEF DeregisterPublish, ConnState
  <2>2. RouteOK'
    BY <1>a, <1>b, <1>8 DEF DeregisterPublish, RouteOK, HasItsEnds, localVars
  <2> QED
    BY <1>a, <1>8, <2>1, <2>2 DEF DeregisterPublish, TypeInv, ChannelOK, JobOK, CallOK,
         SetOK, jobVars, callVars
<1>9. CASE Break(c)
  <2> DEFINE s == IF conn[c].state = "registered" THEN "closed" ELSE conn[c].state
             x == [conn[c] EXCEPT !.alive = FALSE, !.state = s]
  <2>1. x \in ConnType /\ HasItsEnds(x)
    BY <1>b DEF ConnType, ConnState, HasItsEnds
  <2>2. conn' = [conn EXCEPT ![c] = x]
    BY <1>a, <1>b, <1>9 DEF Break, ConnOK, ConnType
  <2>3. ConnOK'
    BY <1>a, <2>1, <2>2, ConnUpdate
  <2> QED
    BY <1>a, <1>9, <2>3 DEF Break, TypeInv, ChannelOK, RouteOK, JobOK, CallOK, SetOK,
         localVars, redisVars, jobVars, callVars
<1>10. CASE AbandonedRegister(c)
  <2>1. ConnOK'
    BY <1>a, <1>10, ConnGoesOn, ConnUpdate DEF AbandonedRegister, ConnState
  <2> QED
    BY <1>a, <1>10, <2>1 DEF AbandonedRegister, TypeInv, ChannelOK, RouteOK, JobOK, CallOK,
         SetOK, localVars, redisVars, jobVars, callVars
<1> QED
  BY <1>1, <1>2, <1>3, <1>4, <1>5, <1>6, <1>7, <1>8, <1>9, <1>10
     DEF ConnectionNext

\* A call of one Run is replaced by a well-formed one.
LEMMA CancelUpdate ==
    ASSUME CallOK, NEW r \in Run, NEW x \in CancelCall,
           cancel' = [cancel EXCEPT ![r] = x], UNCHANGED dispatch,
           x.step # "none",
           x.step \in {"pushing", "lookup", "forward"} => x.replica \in Replica,
           x.step = "pushing" => x.channel \in Connection,
           x.step = "forward" => x.worker \in Worker
    PROVE  CallOK'
BY DEF CallOK

\* A Run's route goes.
LEMMA UnrouteKeepsTypes ==
    ASSUME RouteOK, SetOK, NEW i \in Replica, NEW r \in Run, Unroute(i, r),
           UNCHANGED <<workers, redisVars, forwarded>>, forgotten' \subseteq Run
    PROVE  RouteOK' /\ SetOK'
BY DEF RouteOK, SetOK, Unroute, redisVars

\* The command found locally is well formed.
LEMMA FoundLocallyKeepsTypes ==
    ASSUME CallOK, RouteOK, NEW i \in Replica, NEW r \in Run, FoundLocally(i, r),
           UNCHANGED dispatch
    PROVE  CallOK'
<1> DEFINE k == workers[i][runToWorker[i][r]]
           x == [NoCall EXCEPT !.step = "pushing", !.replica = i, !.channel = k]
<1>1. k \in Connection
  BY DEF FoundLocally, OwnsRoute, RouteOK
<1>2. /\ x \in CancelCall /\ x.step = "pushing"
      /\ x.replica \in Replica /\ x.channel \in Connection
  BY <1>1 DEF CancelCall, Call, NoCall
<1> QED
  BY <1>2, CancelUpdate DEF FoundLocally

\* What Dispatch, CancelJob, Forget and their Redis halves do to the types.
LEMMA RunKeepsTypes ==
    ASSUME TypeInv, NEW r \in Run, RunNext(r)
    PROVE  TypeInv'
<1> USE RegistryAssumption
<1>a. ConnOK /\ ChannelOK /\ RouteOK /\ JobOK /\ CallOK /\ SetOK
  BY DEF TypeInv
<1>b. dispatch[r] \in DispatchCall /\ cancel[r] \in CancelCall
  BY <1>a DEF CallOK
<1>1. CASE \E i \in Replica, w \in Worker : Dispatch(i, r, w)
  <2>1. PICK i \in Replica, w \in Worker : Dispatch(i, r, w)
    BY <1>1
  <2> DEFINE k == workers[i][w]
             x == [step |-> "publishing", replica |-> i, worker |-> w, channel |-> k]
             cmd == [kind |-> "job", run |-> r]
  <2>2. k \in Connection /\ Len(channel[k]) < Capacity
    BY <1>a, <2>1 DEF Dispatch, HasRoom, RouteOK
  <2>3. x \in DispatchCall /\ cmd \in Command
    BY <2>2 DEF DispatchCall, Call, Command
  <2>4. /\ Append(channel[k], cmd) \in Seq(Command)
        /\ Len(Append(channel[k], cmd)) = Len(channel[k]) + 1
    BY <1>a, <2>2, <2>3 DEF ChannelOK
  <2>5. ChannelOK'
    BY <1>a, <2>1, <2>2, <2>4 DEF Dispatch, ChannelOK
  <2>6. RouteOK'
    BY <1>a, <2>1 DEF Dispatch, RouteOK, redisVars
  <2>7. CallOK'
    BY <1>a, <2>1, <2>3 DEF Dispatch, CallOK
  <2> QED
    BY <1>a, <2>1, <2>5, <2>6, <2>7 DEF Dispatch, TypeInv, ConnOK, JobOK, SetOK, jobVars
<1>2. CASE DispatchPublish(r)
  <2>1. CallOK'
    BY <1>a, <1>b, <1>2 DEF DispatchPublish, CallOK, DispatchCall, Call
  <2>2. RouteOK'
    BY <1>a, <1>2 DEF DispatchPublish, RouteOK, CallOK, localVars
  <2> QED
    BY <1>a, <1>2, <2>1, <2>2 DEF DispatchPublish, TypeInv, ConnOK, ChannelOK, JobOK, SetOK,
         jobVars
<1>3. CASE \E i \in Replica : CancelJob(i, r)
  <2>1. PICK i \in Replica : CancelJob(i, r)
    BY <1>3
  <2>2. CallOK'
    <3>1. CASE FoundLocally(i, r)
      BY <1>a, <2>1, <3>1, FoundLocallyKeepsTypes DEF CancelJob
    <3>2. CASE cancel' = [cancel EXCEPT ![r].step = "lookup", ![r].replica = i]
      <4> DEFINE x == [cancel[r] EXCEPT !.step = "lookup", !.replica = i]
      <4>1. x \in CancelCall /\ x.step = "lookup" /\ x.replica \in Replica
        BY <1>b DEF CancelCall, Call
      <4>2. cancel' = [cancel EXCEPT ![r] = x]
        BY <1>a, <1>b, <3>2 DEF CallOK, CancelCall, Call
      <4> QED
        BY <1>a, <2>1, <4>1, <4>2, CancelUpdate DEF CancelJob
    <3> QED
      BY <2>1, <3>1, <3>2 DEF CancelJob
  <2>3. SetOK'
    BY <1>a, <2>1 DEF CancelJob, SetOK
  <2> QED
    BY <1>a, <2>1, <2>2, <2>3 DEF CancelJob, TypeInv, ConnOK, ChannelOK, RouteOK, JobOK,
         localVars, redisVars, jobVars
<1>4. CASE CancelPush(r)
  <2> DEFINE k == cancel[r].channel
             cmd == [kind |-> "cancel", run |-> r]
             x == [cancel[r] EXCEPT !.step = "done"]
  <2>1. k \in Connection /\ cancel[r].replica \in Replica
    BY <1>a, <1>4 DEF CancelPush, CallOK
  <2>2. cmd \in Command /\ channel[k] \in Seq(Command)
    BY <1>a, <2>1 DEF Command, ChannelOK
  <2>3. /\ Append(channel[k], cmd) \in Seq(Command)
        /\ Len(Append(channel[k], cmd)) = Len(channel[k]) + 1
    BY <2>2
  <2>4. ChannelOK'
    BY <1>a, <1>4, <2>1, <2>2, <2>3 DEF CancelPush, ChannelOK
  <2>5. x \in CancelCall /\ x.step = "done"
    BY <1>b DEF CancelCall, Call
  <2>6. CallOK'
    BY <1>a, <1>4, <2>5, CancelUpdate DEF CancelPush
  <2>7. RouteOK' /\ SetOK'
    BY <1>a, <1>4, <2>1, UnrouteKeepsTypes DEF CancelPush, SetOK
  <2> QED
    BY <1>a, <1>4, <2>4, <2>6, <2>7 DEF CancelPush, TypeInv, ConnOK, JobOK, jobVars
<1>5. CASE CancelLookup(r)
  <2> DEFINE s == IF runWorker[r] = None THEN "done" ELSE "forward"
             x == [cancel[r] EXCEPT !.step = s, !.worker = runWorker[r]]
  <2>1. runWorker[r] \in Worker \cup {None} /\ cancel[r].replica \in Replica
    BY <1>a, <1>5 DEF CancelLookup, RouteOK, CallOK
  <2>2. /\ x \in CancelCall /\ x.step = s /\ x.replica \in Replica
        /\ s = "forward" => x.worker \in Worker
    BY <1>b, <2>1 DEF CancelCall, Call
  <2>3. cancel' = [cancel EXCEPT ![r] = x]
    BY <1>a, <1>b, <1>5 DEF CancelLookup, CallOK, CancelCall, Call
  <2>4. CallOK'
    <3>1. UNCHANGED dispatch
      BY <1>5 DEF CancelLookup
    <3>2. x.step # "pushing" /\ (x.step = "forward" => x.worker \in Worker)
      BY <2>2
    <3> HIDE DEF x
    <3> QED
      BY <1>a, <2>2, <2>3, <3>1, <3>2, CancelUpdate
  <2> QED
    BY <1>a, <1>5, <2>4 DEF CancelLookup, TypeInv, ConnOK, ChannelOK, RouteOK, JobOK, SetOK,
         localVars, redisVars, jobVars
<1>6. CASE CancelForward(r)
  <2> DEFINE x == [cancel[r] EXCEPT !.step = "done"]
  <2>1. x \in CancelCall /\ x.step = "done"
    BY <1>b DEF CancelCall, Call
  <2>2. CallOK'
    BY <1>a, <1>6, <2>1, CancelUpdate DEF CancelForward
  <2>3. SetOK'
    BY <1>a, <1>6 DEF CancelForward, SetOK, CallOK, RouteOK
  <2> QED
    BY <1>a, <1>6, <2>2, <2>3 DEF CancelForward, TypeInv, ConnOK, ChannelOK, RouteOK, JobOK,
         localVars, redisVars, jobVars
<1>7. CASE \E i \in Replica : ForwardReceive(i, r)
  <2>1. PICK i \in Replica : ForwardReceive(i, r)
    BY <1>7
  <2>2. CallOK'
    BY <1>a, <2>1, FoundLocallyKeepsTypes DEF ForwardReceive, CallOK
  <2>3. SetOK'
    BY <1>a, <2>1 DEF ForwardReceive, SetOK
  <2> QED
    BY <1>a, <2>1, <2>2, <2>3 DEF ForwardReceive, TypeInv, ConnOK, ChannelOK, RouteOK, JobOK,
         localVars, redisVars, jobVars
<1>8. CASE \E i \in Replica : Forget(i, r)
  <2>1. PICK i \in Replica : Forget(i, r)
    BY <1>8
  <2>2. RouteOK' /\ SetOK'
    BY <1>a, <2>1, UnrouteKeepsTypes DEF Forget, SetOK
  <2> QED
    BY <1>a, <2>1, <2>2 DEF Forget, TypeInv, ConnOK, ChannelOK, JobOK, CallOK, jobVars
<1>9. CASE \E i \in Replica : DeleteRoute(i, r)
  <2>1. PICK i \in Replica : DeleteRoute(i, r)
    BY <1>9
  <2>2. RouteOK' /\ SetOK'
    BY <1>a, <2>1 DEF DeleteRoute, RouteOK, SetOK, localVars
  <2> QED
    BY <1>a, <2>1, <2>2 DEF DeleteRoute, TypeInv, ConnOK, ChannelOK, JobOK, CallOK, jobVars
<1>10. CASE \E w \in Worker : JobEnds(w, r)
  <2>1. PICK w \in Worker : JobEnds(w, r)
    BY <1>10
  <2>2. JobOK'
    BY <1>a, <2>1 DEF JobEnds, JobOK
  <2> QED
    BY <1>a, <2>1, <2>2 DEF JobEnds, TypeInv, ConnOK, ChannelOK, RouteOK, CallOK, SetOK,
         localVars, redisVars, callVars
<1> QED
  BY <1>1, <1>2, <1>3, <1>4, <1>5, <1>6, <1>7, <1>8, <1>9, <1>10 DEF RunNext

\* What the restart of a replica does to the types.
LEMMA RestartKeepsTypes ==
    ASSUME TypeInv, NEW i \in Replica, Restart(i)
    PROVE  TypeInv'
<1> USE RegistryAssumption
<1>a. ConnOK /\ ChannelOK /\ RouteOK /\ JobOK /\ CallOK /\ SetOK
  BY DEF TypeInv
<1>1. ConnOK'
  <2>1. ASSUME NEW c \in Connection
        PROVE  conn'[c] \in ConnType /\ HasItsEnds(conn'[c])
    <3>1. conn[c] \in ConnType /\ HasItsEnds(conn[c])
      BY <1>a DEF ConnOK
    <3>2. CASE conn[c].replica = i
      <4>1. conn[c].state # "free"
        BY <3>1, <3>2 DEF HasItsEnds
      <4>2. conn'[c] = [conn[c] EXCEPT !.alive = FALSE, !.state = "closed"]
        BY <3>2 DEF Restart
      <4> QED
        BY <3>1, <4>1, <4>2 DEF ConnType, ConnState, HasItsEnds
    <3>3. CASE conn[c].replica # i
      BY <3>1, <3>3 DEF Restart
    <3> QED
      BY <3>2, <3>3
  <2> QED
    BY <2>1 DEF Restart, ConnOK
<1>2. CallOK'
  <2>1. ASSUME NEW r \in Run
        PROVE  /\ dispatch'[r] \in DispatchCall
               /\ dispatch'[r].worker = dispatch[r].worker
               /\ dispatch'[r].replica = dispatch[r].replica
               /\ dispatch[r].step = "none" => dispatch'[r] = dispatch[r]
               /\ dispatch'[r].step = "none" => dispatch[r].step = "none"
    <3>1. /\ dispatch[r] \in DispatchCall
          /\ dispatch[r].step = "none" => dispatch[r].replica = None
      BY <1>a DEF CallOK
    <3> QED
      BY <1>a, <3>1 DEF Restart, CallOK, DispatchCall, Call
  <2>2. ASSUME NEW r \in Run
        PROVE  /\ cancel'[r] \in CancelCall
               /\ cancel'[r] = cancel[r] \/ cancel'[r].step = "done"
    <3>1. cancel[r] \in CancelCall
      BY <1>a DEF CallOK
    <3> QED
      BY <3>1 DEF Restart, CancelCall, Call
  <2>3. dispatch' \in [Run -> DispatchCall] /\ cancel' \in [Run -> CancelCall]
    BY <2>1, <2>2 DEF Restart
  <2>4. ASSUME NEW r \in Run
        PROVE  IF dispatch'[r].step = "none" THEN dispatch'[r].replica = None
               ELSE dispatch'[r].worker \in Worker /\ dispatch'[r].replica \in Replica
    BY <1>a, <2>1 DEF CallOK
  <2>5. ASSUME NEW r \in Run
        PROVE  /\ cancel'[r].step = "none" => cancel'[r].replica = None
               /\ cancel'[r].step \in {"pushing", "lookup", "forward"} =>
                     cancel'[r].replica \in Replica
               /\ cancel'[r].step = "pushing" => cancel'[r].channel \in Connection
               /\ cancel'[r].step = "forward" => cancel'[r].worker \in Worker
    BY <1>a, <2>2 DEF CallOK
  <2> QED
    BY <2>3, <2>4, <2>5 DEF CallOK
<1>3. RouteOK' /\ SetOK'
  BY <1>a DEF Restart, RouteOK, SetOK, redisVars
<1> QED
  BY <1>a, <1>1, <1>2, <1>3 DEF Restart, TypeInv, ChannelOK, JobOK, jobVars

\* Every step keeps the types.
LEMMA TypeStep == TypeInv /\ [Next]_vars => TypeInv'
<1> SUFFICES ASSUME TypeInv, [Next]_vars PROVE TypeInv'
  OBVIOUS
<1>1. CASE \E c \in Connection : ConnectionNext(c)
  BY <1>1, ConnectionKeepsTypes
<1>2. CASE \E r \in Run : RunNext(r)
  BY <1>2, RunKeepsTypes
<1>3. CASE \E i \in Replica : Restart(i)
  BY <1>3, RestartKeepsTypes
<1>4. CASE \E w \in Worker : Expire(w)
  BY <1>4 DEF Expire, TypeInv, ConnOK, ChannelOK, RouteOK, JobOK, CallOK, SetOK,
       localVars, jobVars, callVars
<1>5. CASE UNCHANGED vars
  BY <1>5 DEF vars, TypeInv, ConnOK, ChannelOK, RouteOK, JobOK, CallOK, SetOK,
       localVars, redisVars, jobVars, callVars
<1> QED
  BY <1>1, <1>2, <1>3, <1>4, <1>5 DEF Next

\* TypeInv holds whether or not replicas notice broken streams in time.
LEMMA TypeInvariant == Spec => []TypeInv
<1> QED
  BY TypeInit, TypeStep, PTL DEF Spec

\* Every route names a Worker, every owner is a replica (plain strings in
\* registry.go), every call that is under way knows its channel, and no
\* channel ever exceeds its buffer, however connections break and replicas
\* restart.
THEOREM TypeCorrect == Spec => []TypeOK
<1> QED
  BY TypeInvariant, TypeInvTypes, PTL

-----------------------------------------------------------------------------
(* The connections of a Worker, if replicas notice broken streams in time.  *)

Open(c) == conn[c].state \notin {"free", "closed"}
Registered == {"registering", "registered", "streaming"}

\* A Worker has one connection at most that is not over.
OneOpenConnection ==
    \A c, d \in Connection :
        Open(c) /\ Open(d) /\ conn[c].worker = conn[d].worker => c = d

\* From Register to deregister the Worker's entry is that of its connection,
\* which its stream reads, and Redis names its replica.
EntryIsCurrent ==
    \A c \in Connection :
        /\ conn[c].state \in Registered \cup {"ending"} =>
              workers[conn[c].replica][conn[c].worker] = c
        /\ conn[c].state = "streaming" => conn[c].reads = c
        /\ conn[c].state \in {"registered", "streaming", "ending"} =>
              workerInstance[conn[c].worker] = conn[c].replica

\* An entry is that of a connection of its Worker to its replica.
EntryIsOwn ==
    \A i \in Replica, w \in Worker : workers[i][w] # None =>
        /\ conn[workers[i][w]].worker = w
        /\ conn[workers[i][w]].replica = i
        /\ conn[workers[i][w]].state \notin {"free", "calling"}

ConnectionInv == OneOpenConnection /\ EntryIsCurrent /\ EntryIsOwn

-----------------------------------------------------------------------------
(* Whose a Run is.                                                          *)

Job(r) == [kind |-> "job", run |-> r]
Cancel(r) == [kind |-> "cancel", run |-> r]
In(cmd, k) == \E p \in 1..Len(channel[k]) : channel[k][p] = cmd

DispatchedTo(r, w) == dispatch[r].step # "none" /\ dispatch[r].worker = w

\* A Run is dispatched once, to one Worker: wherever its Job is, it is there
\* for that Worker.
RunHasOneWorker ==
    /\ \A w \in Worker : \A r \in running[w] : DispatchedTo(r, w)
    /\ \A c \in Connection : \A r \in conn[c].active : DispatchedTo(r, conn[c].worker)
    /\ \A k \in Connection, r \in Run : In(Job(r), k) =>
         DispatchedTo(r, conn[k].worker) /\ conn[k].state \notin {"free", "calling"}

\* What is canceled, or about to lose its route, is forgotten.
CanceledIsForgotten ==
    /\ \A r \in Run : cancel[r].step # "none" => r \in forgotten
    /\ \A i \in Replica : forwarded[i] \cup cleanup[i] \subseteq forgotten
    /\ \A r \in forgotten : dispatch[r].step # "none"

\* A route to w in Redis, unless the Dispatch at replica i has yet to publish it.
Published(r, w, i) ==
    \/ runWorker[r] = w
    \/ dispatch[r].step = "publishing" /\ dispatch[r].replica = i

\* Jobs that run on the Worker or wait for it are routed to it, in the
\* Registry and, but for a Dispatch that has not published yet, in Redis.
RoutedAt(c) ==
    LET w == conn[c].worker  i == conn[c].replica IN
    /\ conn[c].state \in {"calling", "registering"} => running[w] \subseteq conn[c].active
    /\ conn[c].state \in Registered =>
         \A r \in Run \ forgotten :
             /\ r \in running[w] \/ In(Job(r), c) => runToWorker[i][r] = w
             /\ \/ In(Job(r), c)
                \/ r \in running[w] /\ conn[c].state # "registering"
                => Published(r, w, i)

JobsAreRouted == \A c \in Connection : RoutedAt(c)

\* A CancelJob is behind the JobAssignment of its Run.
CancelsAreBehind ==
    /\ \A k \in Connection, r \in Run :
         /\ In(Cancel(r), k) => r \in forgotten
         /\ \A p, q \in 1..Len(channel[k]) :
              channel[k][p] = Job(r) /\ channel[k][q] = Cancel(r) => p < q
         /\ Open(k) /\ In(Job(r), k) => r \notin told[conn[k].worker]
    /\ \A w \in Worker : told[w] \subseteq forgotten

RoutingInv ==
    /\ ConnectionInv
    /\ RunHasOneWorker
    /\ CanceledIsForgotten
    /\ JobsAreRouted
    /\ CancelsAreBehind

-----------------------------------------------------------------------------
(* The connections.                                                         *)

\* A handler that moves a connection on changes its state and nothing else.
LEMMA StateChange ==
    ASSUME ConnOK, NEW c \in Connection, NEW s,
           conn' = [conn EXCEPT ![c].state = s]
    PROVE  /\ conn'[c].state = s
           /\ \A d \in Connection :
                /\ d # c => conn'[d].state = conn[d].state
                /\ conn'[d].worker = conn[d].worker
                /\ conn'[d].replica = conn[d].replica
                /\ conn'[d].reads = conn[d].reads
                /\ conn'[d].active = conn[d].active
                /\ conn'[d].alive = conn[d].alive
BY DEF ConnOK, ConnType

\* The initial state has no connection in use.
LEMMA ConnectionInit == Init => ConnectionInv
BY RegistryAssumption
   DEF Init, Unused, ConnectionInv, OneOpenConnection, EntryIsCurrent, EntryIsOwn, Open,
       Registered

\* Connections of a Worker do not meet, if a new one waits for the end of the
\* old ones.
LEMMA ConnectionStep ==
    ASSUME PromptEnd = TRUE, TypeInv, ConnectionInv, [Next]_vars
    PROVE  ConnectionInv'
<1> USE RegistryAssumption
<1>a. ConnOK /\ RouteOK
  BY DEF TypeInv
<1>b. \A c \in Connection : HasItsEnds(conn[c])
  BY <1>a DEF ConnOK
<1>c. OneOpenConnection /\ EntryIsCurrent /\ EntryIsOwn
  BY DEF ConnectionInv
<1>0. CASE UNCHANGED <<conn, workers, workerInstance>>
  BY <1>0, <1>c DEF ConnectionInv, OneOpenConnection, EntryIsCurrent, EntryIsOwn, Open
<1>1. ASSUME NEW c \in Connection, NEW w \in Worker, NEW i \in Replica, Dial(c, w, i)
      PROVE  ConnectionInv'
  <2>1. /\ conn'[c] = [state |-> "calling", alive |-> TRUE, worker |-> w, replica |-> i,
                       active |-> running[w], reads |-> None]
        /\ \A d \in Connection \ {c} : conn'[d] = conn[d]
        /\ UNCHANGED <<workers, workerInstance>>
    BY <1>a, <1>1 DEF Dial, ConnOK, localVars, redisVars
  <2>2. \A d \in Connection : conn[d].worker = w => ~Open(d)
    BY <1>1 DEF Dial, Open
  <2>3. OneOpenConnection'
    BY <1>c, <2>1, <2>2 DEF OneOpenConnection, Open
  <2>4. EntryIsCurrent'
    BY <1>c, <2>1 DEF EntryIsCurrent, Registered
  <2>5. EntryIsOwn'
    BY <1>1, <1>a, <1>c, <2>1 DEF EntryIsOwn, Dial, RouteOK
  <2> QED
    BY <2>3, <2>4, <2>5 DEF ConnectionInv
<1>2. ASSUME NEW c \in Connection, RegisterLocal(c)
      PROVE  ConnectionInv'
  <2>1. /\ conn' = [conn EXCEPT ![c].state = "registering"]
        /\ UNCHANGED workerInstance
    BY <1>2 DEF RegisterLocal, redisVars
  <2>2. /\ Open(c) /\ conn[c].replica \in Replica /\ conn[c].worker \in Worker
        /\ conn[c].state = "calling"
    BY <1>b, <1>2 DEF RegisterLocal, Open, HasItsEnds
  <2>w. \A i \in Replica, w \in Worker :
            workers'[i][w] = IF i = conn[c].replica /\ w = conn[c].worker THEN c
                             ELSE workers[i][w]
    BY <1>a, <1>2, <2>2 DEF RegisterLocal, RouteOK
  <2>3. OneOpenConnection'
    BY <1>a, <1>c, <2>1, <2>2, StateChange DEF OneOpenConnection, Open
  <2>4. EntryIsCurrent'
    BY <1>a, <1>b, <1>c, <2>1, <2>2, <2>w, StateChange
       DEF EntryIsCurrent, OneOpenConnection, Open, Registered, HasItsEnds
  <2>5. EntryIsOwn'
    <3>1. ASSUME NEW d \in Connection
          PROVE  /\ conn'[d].worker = conn[d].worker /\ conn'[d].replica = conn[d].replica
                 /\ conn'[d].state = conn[d].state \/ conn'[d].state = "registering"
      BY <1>a, <2>1, StateChange
    <3>2. ASSUME NEW i \in Replica, NEW w \in Worker
          PROVE  workers[i][w] \in Connection \cup {None}
      BY <1>a DEF RouteOK
    <3> SUFFICES ASSUME NEW i \in Replica, NEW w \in Worker, workers'[i][w] # None
                 PROVE  /\ conn'[workers'[i][w]].worker = w
                        /\ conn'[workers'[i][w]].replica = i
                        /\ conn'[workers'[i][w]].state \notin {"free", "calling"}
      BY DEF EntryIsOwn
    <3>3. CASE i = conn[c].replica /\ w = conn[c].worker
      <4>1. workers'[i][w] = c
        BY <2>w, <3>3
      <4>2. conn'[c].state = "registering"
        BY <1>a, <2>1, StateChange
      <4> QED
        BY <3>1, <3>3, <4>1, <4>2
    <3>4. CASE ~(i = conn[c].replica /\ w = conn[c].worker)
      <4>1. workers'[i][w] = workers[i][w]
        BY <2>w, <3>4
      <4> QED
        BY <1>c, <3>1, <3>2, <4>1 DEF EntryIsOwn
    <3> QED
      BY <3>3, <3>4
  <2> QED
    BY <2>3, <2>4, <2>5 DEF ConnectionInv
<1>3. ASSUME NEW c \in Connection, RegisterPublish(c)
      PROVE  ConnectionInv'
  <2>1. /\ conn' = [conn EXCEPT ![c].state = "registered"]
        /\ UNCHANGED workers
    BY <1>3 DEF RegisterPublish, localVars
  <2>2. /\ Open(c) /\ conn[c].replica \in Replica /\ conn[c].worker \in Worker
        /\ conn[c].state = "registering"
    BY <1>b, <1>3 DEF RegisterPublish, Open, HasItsEnds
  <2>w. \A w \in Worker :
            workerInstance'[w] = IF w = conn[c].worker THEN conn[c].replica ELSE workerInstance[w]
    BY <1>a, <1>3, <2>2 DEF RegisterPublish, RouteOK
  <2>3. OneOpenConnection'
    BY <1>a, <1>c, <2>1, <2>2, StateChange DEF OneOpenConnection, Open
  <2>4. EntryIsCurrent'
    BY <1>a, <1>b, <1>c, <2>1, <2>2, <2>w, StateChange
       DEF EntryIsCurrent, OneOpenConnection, Open, Registered, HasItsEnds
  <2>5. EntryIsOwn'
    BY <1>a, <1>c, <2>1, <2>2, StateChange DEF EntryIsOwn, RouteOK
  <2> QED
    BY <2>3, <2>4, <2>5 DEF ConnectionInv
<1>4. ASSUME NEW c \in Connection, StreamOpen(c)
      PROVE  ConnectionInv'
  <2>1. workers[conn[c].replica][conn[c].worker] = c /\ c # None
    BY <1>4, <1>c DEF StreamOpen, EntryIsCurrent, Registered
  <2>2. /\ \A d \in Connection :
             /\ d # c => conn'[d].state = conn[d].state /\ conn'[d].reads = conn[d].reads
             /\ conn'[d].worker = conn[d].worker
             /\ conn'[d].replica = conn[d].replica
        /\ conn[c].state = "registered" /\ conn'[c].state = "streaming"
        /\ conn'[c].reads = c
        /\ UNCHANGED <<workers, workerInstance>>
    BY <1>a, <1>4, <2>1 DEF StreamOpen, ConnOK, ConnType, localVars, redisVars
  <2>3. OneOpenConnection'
    BY <1>c, <2>2 DEF OneOpenConnection, Open
  <2>4. EntryIsCurrent'
    BY <1>c, <2>1, <2>2 DEF EntryIsCurrent, Registered
  <2>5. EntryIsOwn'
    BY <1>a, <1>c, <2>2 DEF EntryIsOwn, RouteOK
  <2> QED
    BY <2>3, <2>4, <2>5 DEF ConnectionInv
<1>5. ASSUME NEW c \in Connection, conn[c].state = "streaming",
             conn' = [conn EXCEPT ![c].state = "streaming"]
                \/ conn' = [conn EXCEPT ![c].state = "ending"],
             UNCHANGED <<workers, workerInstance>>
      PROVE  ConnectionInv'
  <2>1. PICK s \in {"streaming", "ending"} : conn' = [conn EXCEPT ![c].state = s]
    BY <1>5
  <2>2. OneOpenConnection'
    BY <1>a, <1>c, <1>5, <2>1, StateChange DEF OneOpenConnection, Open
  <2>3. EntryIsCurrent'
    BY <1>a, <1>c, <1>5, <2>1, StateChange DEF EntryIsCurrent, Registered
  <2>4. EntryIsOwn'
    BY <1>a, <1>c, <1>5, <2>1, StateChange DEF EntryIsOwn, RouteOK
  <2> QED
    BY <2>2, <2>3, <2>4 DEF ConnectionInv
<1>6. ASSUME NEW c \in Connection, DeregisterLocal(c)
      PROVE  ConnectionInv'
  <2>1. /\ conn' = [conn EXCEPT ![c].state = "unpublishing"]
        /\ UNCHANGED workerInstance
    BY <1>6 DEF DeregisterLocal, redisVars
  <2>2. /\ Open(c) /\ conn[c].replica \in Replica /\ conn[c].worker \in Worker
        /\ conn[c].state = "ending"
    BY <1>b, <1>6 DEF DeregisterLocal, Open, HasItsEnds
  <2>w. \A i \in Replica, w \in Worker :
            workers'[i][w] = IF i = conn[c].replica /\ w = conn[c].worker THEN None
                             ELSE workers[i][w]
    BY <1>a, <1>6, <2>2 DEF DeregisterLocal, RouteOK
  <2>3. OneOpenConnection'
    BY <1>a, <1>c, <2>1, <2>2, StateChange DEF OneOpenConnection, Open
  <2>4. EntryIsCurrent'
    <3>1. ASSUME NEW d \in Connection
          PROVE  /\ conn'[d].worker = conn[d].worker /\ conn'[d].replica = conn[d].replica
                 /\ conn'[d].reads = conn[d].reads
                 /\ d # c => conn'[d].state = conn[d].state
                 /\ d = c => conn'[d].state = "unpublishing"
      BY <1>a, <2>1, StateChange
    <3>2. ASSUME NEW d \in Connection, d # c, Open(d)
          PROVE  /\ conn[d].replica \in Replica /\ conn[d].worker \in Worker
                 /\ conn[d].worker # conn[c].worker
      BY <1>b, <1>c, <2>2, <3>2 DEF OneOpenConnection, Open, HasItsEnds
    <3>3. ASSUME NEW d \in Connection, d # c, Open(d)
          PROVE  workers'[conn[d].replica][conn[d].worker]
                   = workers[conn[d].replica][conn[d].worker]
      BY <2>w, <3>2, <3>3
    <3> QED
      BY <1>c, <2>1, <3>1, <3>3 DEF EntryIsCurrent, Open, Registered
  <2>5. EntryIsOwn'
    <3>1. ASSUME NEW d \in Connection
          PROVE  /\ conn'[d].worker = conn[d].worker /\ conn'[d].replica = conn[d].replica
                 /\ conn'[d].state = conn[d].state \/ conn'[d].state = "unpublishing"
      BY <1>a, <2>1, StateChange
    <3>2. ASSUME NEW i \in Replica, NEW w \in Worker
          PROVE  workers[i][w] \in Connection \cup {None}
      BY <1>a DEF RouteOK
    <3> SUFFICES ASSUME NEW i \in Replica, NEW w \in Worker, workers'[i][w] # None
                 PROVE  /\ conn'[workers'[i][w]].worker = w
                        /\ conn'[workers'[i][w]].replica = i
                        /\ conn'[workers'[i][w]].state \notin {"free", "calling"}
      BY DEF EntryIsOwn
    <3>3. CASE i = conn[c].replica /\ w = conn[c].worker
      BY <2>w, <3>3
    <3>4. CASE ~(i = conn[c].replica /\ w = conn[c].worker)
      <4>1. workers'[i][w] = workers[i][w]
        BY <2>w, <3>4
      <4> QED
        BY <1>c, <3>1, <3>2, <4>1 DEF EntryIsOwn
    <3> QED
      BY <3>3, <3>4
  <2> QED
    BY <2>3, <2>4, <2>5 DEF ConnectionInv
<1>7. ASSUME NEW c \in Connection, DeregisterPublish(c)
      PROVE  ConnectionInv'
  <2>1. /\ conn' = [conn EXCEPT ![c].state = "closed"]
        /\ UNCHANGED workers
    BY <1>7 DEF DeregisterPublish, localVars
  <2>2. /\ Open(c) /\ conn[c].replica \in Replica /\ conn[c].worker \in Worker
        /\ conn[c].state = "unpublishing"
    BY <1>b, <1>7 DEF DeregisterPublish, Open, HasItsEnds
  <2>w. \A w \in Worker :
            workerInstance'[w] = IF w = conn[c].worker THEN None ELSE workerInstance[w]
    BY <1>a, <1>7, <2>2 DEF DeregisterPublish, RouteOK
  <2>3. OneOpenConnection'
    BY <1>a, <1>c, <2>1, <2>2, StateChange DEF OneOpenConnection, Open
  <2>4. EntryIsCurrent'
    BY <1>a, <1>b, <1>c, <2>1, <2>2, <2>w, StateChange
       DEF EntryIsCurrent, OneOpenConnection, Open, Registered, HasItsEnds
  <2>5. EntryIsOwn'
    BY <1>a, <1>c, <2>1, <2>2, StateChange DEF EntryIsOwn, RouteOK
  <2> QED
    BY <2>3, <2>4, <2>5 DEF ConnectionInv
<1>8. ASSUME NEW c \in Connection, Break(c) \/ AbandonedRegister(c)
      PROVE  ConnectionInv'
  <2>1. /\ \A d \in Connection :
             /\ d # c => conn'[d].state = conn[d].state
             /\ conn'[d].worker = conn[d].worker
             /\ conn'[d].replica = conn[d].replica
             /\ conn'[d].reads = conn[d].reads
        /\ conn'[c].state = conn[c].state \/ conn'[c].state = "closed"
        /\ UNCHANGED <<workers, workerInstance>>
    BY <1>a, <1>8 DEF Break, AbandonedRegister, ConnOK, ConnType, localVars, redisVars
  <2>2. OneOpenConnection'
    BY <1>c, <2>1 DEF OneOpenConnection, Open
  <2>3. EntryIsCurrent'
    BY <1>c, <2>1 DEF EntryIsCurrent, Registered
  <2>4. EntryIsOwn'
    BY <1>a, <1>c, <2>1 DEF EntryIsOwn, RouteOK
  <2> QED
    BY <2>2, <2>3, <2>4 DEF ConnectionInv
<1>9. ASSUME NEW i \in Replica, Restart(i)
      PROVE  ConnectionInv'
  <2>1. \A d \in Connection :
             /\ conn'[d].worker = conn[d].worker
             /\ conn'[d].replica = conn[d].replica
             /\ conn'[d].reads = conn[d].reads
             /\ conn'[d].state = IF conn[d].replica = i THEN "closed" ELSE conn[d].state
    BY <1>a, <1>9 DEF Restart, ConnOK, ConnType
  <2>2. /\ workerInstance' = workerInstance
        /\ \A j \in Replica, w \in Worker :
             workers'[j][w] = IF j = i THEN None ELSE workers[j][w]
    BY <1>9, <1>a DEF Restart, RouteOK, redisVars
  <2>3. OneOpenConnection'
    BY <1>c, <2>1 DEF OneOpenConnection, Open
  <2>4. EntryIsCurrent'
    BY <1>a, <1>b, <1>c, <2>1, <2>2 DEF EntryIsCurrent, Registered, RouteOK, HasItsEnds
  <2>5. EntryIsOwn'
    BY <1>a, <1>c, <2>1, <2>2 DEF EntryIsOwn, RouteOK
  <2> QED
    BY <2>3, <2>4, <2>5 DEF ConnectionInv
<1>10. ASSUME NEW w \in Worker, Expire(w)
       PROVE  ConnectionInv'
  <2>1. EntryIsCurrent'
    BY <1>10, <1>a, <1>b, <1>c
       DEF Expire, EntryIsCurrent, Registered, RouteOK, HasItsEnds, localVars
  <2> QED
    BY <1>10, <1>c, <2>1 DEF Expire, ConnectionInv, OneOpenConnection, EntryIsOwn, Open, localVars
<1>11. ASSUME NEW c \in Connection, ConnectionNext(c)
       PROVE  ConnectionInv'
  <2>1. CASE StreamSend(c)
    BY <1>0, <1>5, <2>1 DEF StreamSend, localVars, redisVars
  <2>2. CASE StreamEnd(c)
    BY <1>5, <2>2 DEF StreamEnd, localVars, redisVars
  <2> QED
    BY <1>1, <1>2, <1>3, <1>4, <1>6, <1>7, <1>8, <1>11, <2>1, <2>2 DEF ConnectionNext
<1>12. ASSUME NEW r \in Run, RunNext(r)
       PROVE  ConnectionInv'
  BY <1>0, <1>12 DEF RunNext, Dispatch, DispatchPublish, CancelJob, CancelPush, CancelLookup,
       CancelForward, ForwardReceive, Forget, DeleteRoute, JobEnds, localVars, redisVars
<1>13. CASE UNCHANGED vars
  BY <1>0, <1>13 DEF vars, localVars, redisVars
<1> QED
  BY <1>9, <1>10, <1>11, <1>12, <1>13 DEF Next

-----------------------------------------------------------------------------
(* What a step may do to connections and channels.                          *)

\* But for Dial, no step changes who a connection belongs to, or begins one.
Mild ==
    \A c \in Connection :
        /\ conn'[c].worker = conn[c].worker
        /\ conn'[c].replica = conn[c].replica
        /\ conn'[c].active = conn[c].active
        /\ conn'[c].state \in {"free", "calling"} => conn'[c].state = conn[c].state
        /\ Open(c)' => Open(c)

\* A new state for one connection is mild unless it begins one.
LEMMA StateChangeIsMild ==
    ASSUME ConnOK, NEW c \in Connection, NEW s \in ConnState \ {"free", "calling"}, Open(c),
           conn' = [conn EXCEPT ![c].state = s]
    PROVE  Mild
BY StateChange DEF Mild, Open

\* Every step of a connection but Dial is mild.
LEMMA ConnectionIsMild ==
    ASSUME TypeInv, NEW c \in Connection, ConnectionNext(c),
           ~\E w \in Worker, i \in Replica : Dial(c, w, i)
    PROVE  Mild
<1>a. ConnOK
  BY DEF TypeInv
<1>0. CASE UNCHANGED conn
  BY <1>0 DEF Mild, Open
<1>1. CASE RegisterLocal(c)
  BY <1>a, <1>1, StateChangeIsMild DEF RegisterLocal, Open, ConnState
<1>2. CASE RegisterPublish(c)
  BY <1>a, <1>2, StateChangeIsMild DEF RegisterPublish, Open, ConnState
<1>3. CASE StreamOpen(c)
  BY <1>a, <1>3 DEF StreamOpen, ConnOK, ConnType, Mild, Open
<1>4. CASE StreamSend(c)
  BY <1>a, <1>0, <1>4, StateChangeIsMild DEF StreamSend, Open, ConnState
<1>5. CASE StreamEnd(c)
  BY <1>a, <1>5, StateChangeIsMild DEF StreamEnd, Open, ConnState
<1>6. CASE DeregisterLocal(c)
  BY <1>a, <1>6, StateChangeIsMild DEF DeregisterLocal, Open, ConnState
<1>7. CASE DeregisterPublish(c)
  BY <1>a, <1>7, StateChangeIsMild DEF DeregisterPublish, Open, ConnState
<1>8. CASE Break(c)
  BY <1>a, <1>8 DEF Break, ConnOK, ConnType, Mild, Open
<1>9. CASE AbandonedRegister(c)
  BY <1>a, <1>9, StateChangeIsMild DEF AbandonedRegister, Open, ConnState
<1> QED
  BY <1>1, <1>2, <1>3, <1>4, <1>5, <1>6, <1>7, <1>8, <1>9 DEF ConnectionNext

\* A restart is mild.
LEMMA RestartIsMild ==
    ASSUME TypeInv, NEW i \in Replica, Restart(i)
    PROVE  Mild
<1>a. ConnOK
  BY DEF TypeInv
<1> SUFFICES ASSUME NEW c \in Connection
             PROVE  /\ conn'[c].worker = conn[c].worker
                    /\ conn'[c].replica = conn[c].replica
                    /\ conn'[c].active = conn[c].active
                    /\ conn'[c].state \in {"free", "calling"} =>
                          conn'[c].state = conn[c].state
                    /\ Open(c)' => Open(c)
  BY DEF Mild
<1>1. conn[c] \in ConnType
  BY <1>a DEF ConnOK
<1> QED
  BY <1>1 DEF Restart, ConnType, Open

\* A command is sent from the head of a channel.
LEMMA AfterTail ==
    ASSUME ChannelOK, NEW k \in Connection, channel[k] # <<>>,
           channel' = [channel EXCEPT ![k] = Tail(@)]
    PROVE  /\ Len(channel[k]) \in Nat /\ 1 \in 1..Len(channel[k])
           /\ channel[k][1] = Head(channel[k])
           /\ Len(channel'[k]) = Len(channel[k]) - 1
           /\ \A p \in 1..Len(channel'[k]) :
                p + 1 \in 1..Len(channel[k]) /\ channel'[k][p] = channel[k][p + 1]
           /\ \A j \in Connection : j # k => channel'[j] = channel[j]
<1>1. channel[k] \in Seq(Command) /\ channel'[k] = Tail(channel[k])
  BY DEF ChannelOK
<1>2. \A j \in Connection : j # k => channel'[j] = channel[j]
  BY DEF ChannelOK
<1>3. Len(channel[k]) \in Nat /\ Len(channel[k]) # 0
  BY <1>1
<1>4. channel[k][1] = Head(channel[k])
  BY <1>1, <1>3
<1>5. Len(channel'[k]) = Len(channel[k]) - 1
  <2>1. ASSUME NEW s \in Seq(Command), s # <<>>
        PROVE  Len(Tail(s)) = Len(s) - 1
    BY <2>1
  <2> QED
    BY <1>1, <2>1
<1>6. ASSUME NEW p \in 1..Len(channel'[k])
      PROVE  p + 1 \in 1..Len(channel[k]) /\ channel'[k][p] = channel[k][p + 1]
  BY <1>1, <1>3, <1>5
<1> QED
  BY <1>2, <1>3, <1>4, <1>5, <1>6

\* A command is pushed to the end of a channel.
LEMMA AfterAppend ==
    ASSUME ChannelOK, NEW k \in Connection, NEW cmd \in Command,
           channel' = [channel EXCEPT ![k] = Append(@, cmd)]
    PROVE  /\ Len(channel[k]) \in Nat
           /\ Len(channel'[k]) = Len(channel[k]) + 1
           /\ channel'[k][Len(channel[k]) + 1] = cmd
           /\ \A p \in 1..Len(channel[k]) : channel'[k][p] = channel[k][p]
           /\ \A j \in Connection : j # k => channel'[j] = channel[j]
<1>1. channel[k] \in Seq(Command) /\ channel'[k] = Append(channel[k], cmd)
  BY DEF ChannelOK
<1>2. \A j \in Connection : j # k => channel'[j] = channel[j]
  BY DEF ChannelOK
<1> QED
  BY <1>1, <1>2

\* What waits after a push waited before, or is what was pushed.
LEMMA InAfterAppend ==
    ASSUME ChannelOK, NEW k \in Connection, NEW cmd \in Command,
           channel' = [channel EXCEPT ![k] = Append(@, cmd)],
           NEW x, NEW j \in Connection, In(x, j)'
    PROVE  In(x, j) \/ (x = cmd /\ j = k)
<1>1. CASE j # k
  BY <1>1, AfterAppend DEF In
<1>2. CASE j = k
  <2>1. PICK p \in 1..Len(channel'[k]) : channel'[k][p] = x
    BY <1>2 DEF In
  <2>2. p \in 1..Len(channel[k]) \/ p = Len(channel[k]) + 1
    BY AfterAppend
  <2> QED
    BY <1>2, <2>1, <2>2, AfterAppend DEF In
<1> QED
  BY <1>1, <1>2

\* What waits after a command was sent waited before.
LEMMA InAfterTail ==
    ASSUME ChannelOK, NEW k \in Connection, channel[k] # <<>>,
           channel' = [channel EXCEPT ![k] = Tail(@)],
           NEW x, NEW j \in Connection, In(x, j)'
    PROVE  In(x, j)
<1>1. CASE j # k
  BY <1>1, AfterTail DEF In
<1>2. CASE j = k
  <2>1. PICK p \in 1..Len(channel'[k]) : channel'[k][p] = x
    BY <1>2 DEF In
  <2> QED
    BY <1>2, <2>1, AfterTail DEF In
<1> QED
  BY <1>1, <1>2

\* A cancel that is pushed adds no Job to any channel.
LEMMA CancelPushAddsNoJob ==
    ASSUME TypeInv, NEW r \in Run, CancelPush(r)
    PROVE  \A j \in Connection, s \in Run : In(Job(s), j)' => In(Job(s), j)
<1> DEFINE k == cancel[r].channel
<1>a. ChannelOK /\ CallOK
  BY DEF TypeInv
<1>1. k \in Connection
  BY <1>a DEF CancelPush, CallOK
<1>2. CASE channel' = [channel EXCEPT ![k] = Append(@, Cancel(r))]
  <2>1. Cancel(r) \in Command /\ \A s \in Run : Cancel(r) # Job(s)
    BY DEF Cancel, Command, Job
  <2> QED
    BY <1>a, <1>1, <1>2, <2>1, InAfterAppend
<1>3. CASE channel' = channel
  BY <1>3 DEF In, Job
<1> QED
  BY <1>a, <1>1, <1>2, <1>3 DEF CancelPush, Cancel, ChannelOK

-----------------------------------------------------------------------------
(* Whose a Run is: every step.                                              *)

\* Nothing is dispatched to begin with.
LEMMA OwnershipInit == Init => RunHasOneWorker /\ CanceledIsForgotten
BY DEF Init, Unused, NoCall, RunHasOneWorker, CanceledIsForgotten, In

\* A step that keeps what was dispatched, and adds no Job anywhere.
LEMMA RunHasOneWorkerKept ==
    ASSUME TypeInv, RunHasOneWorker, Mild,
           \A r \in Run, w \in Worker : DispatchedTo(r, w) => DispatchedTo(r, w)',
           \A w \in Worker : running'[w] \subseteq running[w],
           \A k \in Connection, r \in Run : In(Job(r), k)' => In(Job(r), k)
    PROVE  RunHasOneWorker'
<1>1. ASSUME NEW w \in Worker, NEW r \in running'[w]
      PROVE  DispatchedTo(r, w)'
  BY <1>1 DEF RunHasOneWorker, TypeInv, JobOK
<1>2. ASSUME NEW c \in Connection, NEW r \in conn'[c].active
      PROVE  (dispatch[r].step # "none" /\ dispatch[r].worker = conn[c].worker)'
  <2>1. DispatchedTo(r, conn[c].worker) /\ conn'[c].worker = conn[c].worker /\ r \in Run
    BY <1>2 DEF RunHasOneWorker, Mild, TypeInv, ConnOK, ConnType
  <2>2. conn[c].worker \in Worker
    BY <2>1 DEF DispatchedTo, TypeInv, CallOK
  <2>3. DispatchedTo(r, conn[c].worker)'
    BY <2>1, <2>2 DEF DispatchedTo
  <2> QED
    BY <2>1, <2>3 DEF DispatchedTo
<1>3. ASSUME NEW k \in Connection, NEW r \in Run, In(Job(r), k)'
      PROVE  /\ (dispatch[r].step # "none" /\ dispatch[r].worker = conn[k].worker)'
             /\ conn'[k].state \notin {"free", "calling"}
  <2>1. /\ DispatchedTo(r, conn[k].worker) /\ conn[k].state \notin {"free", "calling"}
        /\ conn'[k].worker = conn[k].worker
    BY <1>3 DEF RunHasOneWorker, Mild
  <2>2. conn[k].worker \in Worker
    BY <2>1 DEF DispatchedTo, TypeInv, CallOK
  <2>3. DispatchedTo(r, conn[k].worker)'
    BY <2>1, <2>2 DEF DispatchedTo
  <2> QED
    BY <2>1, <2>3 DEF DispatchedTo, Mild
<1> QED
  BY <1>1, <1>2, <1>3 DEF RunHasOneWorker, DispatchedTo

\* A Run that was dispatched stays so, with its Worker; nothing else of a
\* dispatched Run's Dispatch changes but its step.
LEMMA DispatchIsKept ==
    ASSUME TypeInv, [Next]_vars
    PROVE  \A r \in Run, w \in Worker : DispatchedTo(r, w) => DispatchedTo(r, w)'
<1> SUFFICES ASSUME NEW s \in Run, NEW v \in Worker, DispatchedTo(s, v)
             PROVE  DispatchedTo(s, v)'
  OBVIOUS
<1>a. dispatch \in [Run -> DispatchCall] /\ dispatch[s] \in DispatchCall
  BY DEF TypeInv, CallOK
<1>0. CASE UNCHANGED dispatch
  BY <1>0 DEF DispatchedTo
<1>1. ASSUME NEW c \in Connection, ConnectionNext(c)
      PROVE  DispatchedTo(s, v)'
  BY <1>0, <1>1 DEF ConnectionNext, Dial, RegisterLocal, RegisterPublish, StreamOpen,
       StreamSend, StreamEnd, DeregisterLocal, DeregisterPublish, Break,
       AbandonedRegister, callVars
<1>2. ASSUME NEW r \in Run, NEW i \in Replica, NEW w \in Worker, Dispatch(i, r, w)
      PROVE  DispatchedTo(s, v)'
  BY <1>a, <1>2 DEF Dispatch, DispatchedTo
<1>3. ASSUME NEW r \in Run, DispatchPublish(r)
      PROVE  DispatchedTo(s, v)'
  BY <1>a, <1>3 DEF DispatchPublish, DispatchedTo, DispatchCall, Call
<1>4. ASSUME NEW i \in Replica, Restart(i)
      PROVE  DispatchedTo(s, v)'
  BY <1>a, <1>4 DEF Restart, DispatchedTo, DispatchCall, Call
<1>5. ASSUME NEW r \in Run, RunNext(r)
      PROVE  DispatchedTo(s, v)'
  BY <1>0, <1>2, <1>3, <1>5 DEF RunNext, CancelJob, CancelPush, CancelLookup,
       CancelForward, ForwardReceive, Forget, DeleteRoute, JobEnds, callVars
<1> QED
  BY <1>0, <1>1, <1>4, <1>5 DEF Next, Expire, vars, callVars

\* Every step keeps a Run with its Worker.
LEMMA RunHasOneWorkerStep ==
    ASSUME TypeInv, ConnectionInv, RunHasOneWorker, [Next]_vars
    PROVE  RunHasOneWorker'
<1>a. ConnOK /\ ChannelOK /\ RouteOK /\ JobOK /\ CallOK
  BY DEF TypeInv
<1>b. \A r \in Run, w \in Worker : DispatchedTo(r, w) => DispatchedTo(r, w)'
  BY DispatchIsKept
<1>0. CASE Mild /\ UNCHANGED <<running, channel>>
  <2>1. \A k \in Connection, r \in Run : In(Job(r), k)' => In(Job(r), k)
    BY <1>0 DEF In, Job
  <2> QED
    BY <1>b, <1>0, <2>1, RunHasOneWorkerKept
<1>1. ASSUME NEW c \in Connection, NEW w \in Worker, NEW i \in Replica, Dial(c, w, i)
      PROVE  RunHasOneWorker'
  <2>1. /\ conn[c].state = "free"
        /\ conn'[c].worker = w /\ conn'[c].active = running[w]
        /\ \A d \in Connection : d # c => conn'[d] = conn[d]
        /\ UNCHANGED <<running, channel, dispatch>>
    BY <1>a, <1>1 DEF Dial, ConnOK, jobVars, callVars
  <2>2. \A k \in Connection, r \in Run : In(Job(r), k)' => In(Job(r), k) /\ k # c
    BY <2>1 DEF In, Job, RunHasOneWorker
  <2> QED
    BY <2>1, <2>2 DEF RunHasOneWorker, DispatchedTo
<1>2. ASSUME NEW c \in Connection, StreamSend(c)
      PROVE  RunHasOneWorker'
  <2>1. /\ conn[c].reads \in Connection /\ conn[c].reads = c
        /\ channel[c] # <<>> /\ channel' = [channel EXCEPT ![c] = Tail(@)]
        /\ conn[c].worker \in Worker
    BY <1>a, <1>2 DEF StreamSend, ConnectionInv, EntryIsCurrent, ConnOK, HasItsEnds
  <2>2. \A k \in Connection, r \in Run : In(Job(r), k)' => In(Job(r), k)
    BY <1>a, <2>1, InAfterTail
  <2>3. Mild
    BY <1>a, <1>2, ConnectionIsMild DEF ConnectionNext, StreamSend, Dial
  <2>4. CASE \A v \in Worker : running'[v] \subseteq running[v]
    BY <1>b, <2>2, <2>3, <2>4, RunHasOneWorkerKept
  <2>5. CASE /\ conn[c].alive /\ Head(channel[c]).kind = "job"
             /\ running' = [running EXCEPT
                               ![conn[c].worker] = @ \cup {Head(channel[c]).run}]
             /\ UNCHANGED <<conn, dispatch>>
    <3> DEFINE r == Head(channel[c]).run
    <3>1. Head(channel[c]) \in Command
      BY <1>a, <2>1 DEF ChannelOK
    <3>2. r \in Run /\ Head(channel[c]) = Job(r)
      BY <2>5, <3>1 DEF Command, Job
    <3>3. In(Job(r), c)
      BY <1>a, <2>1, <3>2, AfterTail DEF In
    <3>4. DispatchedTo(r, conn[c].worker)
      BY <3>2, <3>3 DEF RunHasOneWorker
    <3> HIDE DEF r
    <3>5. \A v \in Worker : \A s \in running'[v] :
             s \in running[v] \/ (s = r /\ v = conn[c].worker)
      BY <1>a, <2>1, <2>5 DEF JobOK, r
    <3> QED
      BY <2>2, <2>5, <3>4, <3>5 DEF RunHasOneWorker, DispatchedTo
  <2> QED
    BY <1>a, <1>2, <2>1, <2>4, <2>5 DEF StreamSend, Received, jobVars, JobOK, callVars
<1>3. ASSUME NEW r \in Run, NEW i \in Replica, NEW w \in Worker, Dispatch(i, r, w)
      PROVE  RunHasOneWorker'
  <2> DEFINE k == workers[i][w]
  <2>1. k \in Connection /\ conn[k].worker = w /\ conn[k].state \notin {"free", "calling"}
    BY <1>a, <1>3 DEF Dispatch, HasRoom, RouteOK, ConnectionInv, EntryIsOwn
  <2>2. /\ Job(r) \in Command
        /\ channel' = [channel EXCEPT ![k] = Append(@, Job(r))]
        /\ UNCHANGED <<conn, running>>
    BY <1>3 DEF Dispatch, Job, Command, jobVars
  <2>3. DispatchedTo(r, w)'
    BY <1>a, <1>3 DEF Dispatch, DispatchedTo, CallOK
  <2>4. \A j \in Connection, s \in Run :
           In(Job(s), j)' => In(Job(s), j) \/ (s = r /\ j = k)
    <3>1. \A s \in Run : Job(s) = Job(r) => s = r
      BY DEF Job
    <3> HIDE DEF k
    <3>2. ASSUME NEW j \in Connection, NEW s \in Run, In(Job(s), j)'
          PROVE  In(Job(s), j) \/ (Job(s) = Job(r) /\ j = k)
      BY <1>a, <2>1, <2>2, <3>2, InAfterAppend
    <3> QED
      BY <3>1, <3>2
  <2> HIDE DEF k
  <2>5. ASSUME NEW j \in Connection, NEW s \in Run, In(Job(s), j)'
        PROVE  DispatchedTo(s, conn[j].worker)' /\ conn'[j].state \notin {"free", "calling"}
    <3>1. CASE In(Job(s), j)
      <4>1. DispatchedTo(s, conn[j].worker) /\ conn[j].state \notin {"free", "calling"}
        BY <3>1 DEF RunHasOneWorker
      <4>2. conn[j].worker \in Worker
        BY <1>a, <4>1 DEF DispatchedTo, CallOK
      <4> QED
        BY <1>b, <2>2, <4>1, <4>2 DEF DispatchedTo
    <3>2. CASE s = r /\ j = k
      BY <2>1, <2>2, <2>3, <3>2 DEF DispatchedTo
    <3> QED
      BY <2>4, <2>5, <3>1, <3>2
  <2>6. ASSUME NEW d \in Connection, NEW s \in conn[d].active
        PROVE  DispatchedTo(s, conn[d].worker)'
    <3>1. DispatchedTo(s, conn[d].worker) /\ s \in Run
      BY <1>a, <2>6 DEF RunHasOneWorker, ConnOK, ConnType
    <3>2. conn[d].worker \in Worker
      BY <1>a, <3>1 DEF DispatchedTo, CallOK
    <3> QED
      BY <1>b, <2>2, <3>1, <3>2 DEF DispatchedTo
  <2>7. ASSUME NEW v \in Worker, NEW s \in running[v]
        PROVE  DispatchedTo(s, v)'
    BY <1>a, <1>b, <2>7 DEF RunHasOneWorker, JobOK
  <2> QED
    BY <2>2, <2>5, <2>6, <2>7 DEF RunHasOneWorker
<1>4. ASSUME NEW c \in Connection, ConnectionNext(c)
      PROVE  RunHasOneWorker'
  <2>1. CASE \E w \in Worker, i \in Replica : Dial(c, w, i)
    BY <1>1, <2>1
  <2>2. CASE StreamSend(c)
    BY <1>2, <2>2
  <2>3. CASE ~StreamSend(c) /\ ~\E w \in Worker, i \in Replica : Dial(c, w, i)
    <3>1. UNCHANGED <<running, channel>>
      BY <1>4, <2>3 DEF ConnectionNext, RegisterLocal, RegisterPublish, StreamOpen, StreamEnd,
           DeregisterLocal, DeregisterPublish, Break, AbandonedRegister, jobVars
    <3> QED
      BY <1>0, <1>4, <2>3, <3>1, ConnectionIsMild
  <2> QED
    BY <2>1, <2>2, <2>3
<1>5. ASSUME NEW r \in Run, CancelPush(r)
      PROVE  RunHasOneWorker'
  <2>1. Mild /\ UNCHANGED running
    BY <1>5 DEF CancelPush, Mild, Open, jobVars
  <2>2. \A k \in Connection, s \in Run : In(Job(s), k)' => In(Job(s), k)
    BY <1>5, CancelPushAddsNoJob
  <2> QED
    BY <1>b, <2>1, <2>2, RunHasOneWorkerKept
<1>6. ASSUME NEW r \in Run, NEW w \in Worker, JobEnds(w, r)
      PROVE  RunHasOneWorker'
  <2>1. Mild /\ UNCHANGED channel /\ \A v \in Worker : running'[v] \subseteq running[v]
    BY <1>a, <1>6 DEF JobEnds, Mild, Open, JobOK
  <2>2. \A k \in Connection, s \in Run : In(Job(s), k)' => In(Job(s), k)
    BY <2>1 DEF In, Job
  <2> QED
    BY <1>b, <2>1, <2>2, RunHasOneWorkerKept
<1>7. CASE UNCHANGED <<conn, channel, running>>
  BY <1>0, <1>7 DEF Mild, Open
<1>8. ASSUME NEW r \in Run, RunNext(r)
      PROVE  RunHasOneWorker'
  BY <1>3, <1>5, <1>6, <1>7, <1>8 DEF RunNext, DispatchPublish, CancelJob, CancelLookup,
       CancelForward, ForwardReceive, Forget, DeleteRoute, jobVars
<1>9. ASSUME NEW i \in Replica, Restart(i)
      PROVE  RunHasOneWorker'
  BY <1>0, <1>9, RestartIsMild DEF Restart, jobVars
<1> QED
  BY <1>4, <1>7, <1>8, <1>9 DEF Next, Expire, vars, jobVars

\* Every step keeps what is canceled, or about to lose its route, forgotten.
LEMMA CanceledIsForgottenStep ==
    ASSUME TypeInv, CanceledIsForgotten, [Next]_vars
    PROVE  CanceledIsForgotten'
<1>a. CallOK /\ SetOK
  BY DEF TypeInv
<1>b. ASSUME NEW r \in Run, dispatch[r].step # "none"
      PROVE  dispatch'[r].step # "none"
  <2>1. DispatchedTo(r, dispatch[r].worker) /\ dispatch[r].worker \in Worker
    BY <1>a, <1>b DEF DispatchedTo, CallOK
  <2>2. \A w \in Worker : DispatchedTo(r, w) => dispatch'[r].step # "none"
    BY DispatchIsKept DEF DispatchedTo
  <2> QED
    BY <2>1, <2>2
<1>0. ASSUME forgotten \subseteq forgotten', forgotten' \subseteq Run,
             \A r \in Run : r \in forgotten' => r \in forgotten \/ dispatch[r].step # "none",
             \A r \in Run : cancel'[r].step # "none" =>
                 cancel[r].step # "none" \/ r \in forgotten',
             \A i \in Replica :
                 forwarded'[i] \cup cleanup'[i] \subseteq forwarded[i] \cup cleanup[i] \cup forgotten'
      PROVE  CanceledIsForgotten'
  BY <1>b, <1>0 DEF CanceledIsForgotten
<1>1. CASE UNCHANGED <<cancel, forwarded, cleanup, forgotten>>
  BY <1>a, <1>0, <1>1 DEF SetOK
<1>2. ASSUME NEW r \in Run, NEW i \in Replica, CancelJob(i, r)
      PROVE  CanceledIsForgotten'
  <2>1. \A s \in Run : s # r => cancel'[s] = cancel[s]
    BY <1>a, <1>2 DEF CancelJob, FoundLocally, CallOK
  <2> QED
    BY <1>a, <1>0, <1>2, <2>1 DEF CancelJob, SetOK
<1>3. ASSUME NEW r \in Run, CancelPush(r)
      PROVE  CanceledIsForgotten'
  <2>1. r \in forgotten /\ cancel[r].replica \in Replica
    BY <1>a, <1>3 DEF CancelPush, CanceledIsForgotten, CallOK
  <2>2. \A s \in Run : s # r => cancel'[s] = cancel[s]
    BY <1>a, <1>3 DEF CancelPush, CallOK
  <2>3. \A i \in Replica : cleanup'[i] \subseteq cleanup[i] \cup {r}
    BY <1>a, <1>3, <2>1 DEF CancelPush, Unroute, SetOK
  <2> QED
    BY <1>a, <1>0, <1>3, <2>1, <2>2, <2>3 DEF CancelPush, SetOK
<1>4. ASSUME NEW r \in Run, CancelLookup(r)
      PROVE  CanceledIsForgotten'
  <2>1. \A s \in Run : s # r => cancel'[s] = cancel[s]
    BY <1>a, <1>4 DEF CancelLookup, CallOK
  <2> QED
    BY <1>a, <1>0, <1>4, <2>1 DEF CancelLookup, SetOK
<1>5. ASSUME NEW r \in Run, CancelForward(r)
      PROVE  CanceledIsForgotten'
  <2>1. r \in forgotten
    BY <1>5 DEF CancelForward, CanceledIsForgotten
  <2>2. \A s \in Run : s # r => cancel'[s] = cancel[s]
    BY <1>a, <1>5 DEF CancelForward, CallOK
  <2>3. \A i \in Replica : forwarded'[i] \subseteq forwarded[i] \cup {r}
    BY <1>a, <1>5 DEF CancelForward, SetOK
  <2> QED
    BY <1>a, <1>0, <1>5, <2>1, <2>2, <2>3 DEF CancelForward, SetOK
<1>6. ASSUME NEW r \in Run, NEW i \in Replica, ForwardReceive(i, r)
      PROVE  CanceledIsForgotten'
  <2>1. r \in forgotten
    BY <1>6 DEF ForwardReceive, CanceledIsForgotten
  <2>2. \A s \in Run : s # r => cancel'[s] = cancel[s]
    BY <1>a, <1>6 DEF ForwardReceive, FoundLocally, CallOK
  <2>3. \A j \in Replica : forwarded'[j] \subseteq forwarded[j]
    BY <1>a, <1>6 DEF ForwardReceive, SetOK
  <2> QED
    BY <1>a, <1>0, <1>6, <2>1, <2>2, <2>3 DEF ForwardReceive, SetOK
<1>7. ASSUME NEW r \in Run, NEW i \in Replica, Forget(i, r)
      PROVE  CanceledIsForgotten'
  <2>1. \A j \in Replica : cleanup'[j] \subseteq cleanup[j] \cup {r}
    BY <1>a, <1>7 DEF Forget, Unroute, SetOK
  <2> QED
    BY <1>a, <1>0, <1>7, <2>1 DEF Forget, SetOK
<1>8. ASSUME NEW r \in Run, NEW i \in Replica, DeleteRoute(i, r)
      PROVE  CanceledIsForgotten'
  <2>1. \A j \in Replica : cleanup'[j] \subseteq cleanup[j]
    BY <1>a, <1>8 DEF DeleteRoute, SetOK
  <2> QED
    BY <1>a, <1>0, <1>8, <2>1 DEF DeleteRoute, SetOK
<1>9. ASSUME NEW i \in Replica, Restart(i)
      PROVE  CanceledIsForgotten'
  <2>1. \A j \in Replica : forwarded'[j] \subseteq forwarded[j] /\ cleanup'[j] \subseteq cleanup[j]
    BY <1>a, <1>9 DEF Restart, SetOK
  <2>2. ASSUME NEW r \in Run, cancel'[r].step # "none"
        PROVE  cancel[r].step # "none"
    <3>1. cancel[r].step = "none" => cancel[r].replica # i
      BY <1>a, RegistryAssumption DEF CallOK
    <3> QED
      BY <1>9, <2>2, <3>1 DEF Restart
  <2> QED
    BY <1>a, <1>0, <1>9, <2>1, <2>2 DEF Restart, SetOK
<1>10. ASSUME NEW c \in Connection, ConnectionNext(c)
       PROVE  CanceledIsForgotten'
  BY <1>1, <1>10 DEF ConnectionNext, Dial, RegisterLocal, RegisterPublish, StreamOpen,
       StreamSend, StreamEnd, DeregisterLocal, DeregisterPublish, Break,
       AbandonedRegister, callVars
<1>11. ASSUME NEW r \in Run, RunNext(r)
       PROVE  CanceledIsForgotten'
  BY <1>1, <1>2, <1>3, <1>4, <1>5, <1>6, <1>7, <1>8, <1>11
     DEF RunNext, Dispatch, DispatchPublish, JobEnds, callVars
<1> QED
  BY <1>1, <1>9, <1>10, <1>11 DEF Next, Expire, vars, callVars

-----------------------------------------------------------------------------
(* The routes.                                                              *)

\* A connection that has not begun Register, or is past StreamJobs, has no
\* routes to keep.
LEMMA NothingToRoute ==
    ASSUME NEW c \in Connection, conn'[c].state \notin Registered \cup {"calling"}
    PROVE  RoutedAt(c)'
BY DEF RoutedAt, Registered

\* The routes of a connection that goes on are kept if the Runs of its Worker
\* that nobody forgot keep theirs.
LEMMA RoutedKept ==
    ASSUME NEW c \in Connection, RunHasOneWorker, RoutedAt(c),
           NEW w \in Worker, NEW i \in Replica,
           conn[c].worker = w /\ conn'[c].worker = w,
           conn[c].replica = i /\ conn'[c].replica = i,
           conn'[c].active = conn[c].active,
           \/ conn'[c].state = conn[c].state
           \/ conn'[c].state = "streaming" /\ conn[c].state = "registered"
           \/ conn'[c].state \notin Registered \cup {"calling"},
           running'[w] \subseteq running[w],
           \A r \in Run : In(Job(r), c)' => In(Job(r), c),
           forgotten \subseteq forgotten',
           \A r \in Run \ forgotten' : DispatchedTo(r, w) =>
               /\ runToWorker[i][r] = w => runToWorker'[i][r] = w
               /\ Published(r, w, i) => Published(r, w, i)'
    PROVE  RoutedAt(c)'
<1>1. CASE conn'[c].state \notin Registered \cup {"calling"}
  BY <1>1, NothingToRoute
<1>2. CASE conn'[c].state \in Registered \cup {"calling"}
  <2>1. \A r \in Run : (r \in running[w] \/ In(Job(r), c)) => DispatchedTo(r, w)
    BY DEF RunHasOneWorker
  <2>2. conn'[c].state \in {"calling", "registering"} => running'[w] \subseteq conn'[c].active
    BY <1>2 DEF RoutedAt
  <2>3. ASSUME conn'[c].state \in Registered, NEW r \in Run \ forgotten'
        PROVE  /\ r \in running'[w] \/ In(Job(r), c)' => runToWorker'[i][r] = w
               /\ \/ In(Job(r), c)'
                  \/ r \in running'[w] /\ conn'[c].state # "registering"
                  => Published(r, w, i)'
    <3>1. conn[c].state \in Registered /\ r \in Run \ forgotten
      BY <2>3 DEF Registered
    <3>2. conn'[c].state # "registering" => conn[c].state # "registering"
      BY <2>3, <3>1
    <3>3. /\ r \in running[w] \/ In(Job(r), c) => runToWorker[i][r] = w
          /\ \/ In(Job(r), c)
             \/ r \in running[w] /\ conn[c].state # "registering"
             => Published(r, w, i)
      BY <3>1 DEF RoutedAt
    <3> QED
      BY <2>1, <2>3, <3>2, <3>3
  <2> QED
    BY <2>2, <2>3 DEF RoutedAt, Published
<1> QED
  BY <1>1, <1>2

\* Every step of the system keeps the routes.
LEMMA JobsAreRoutedStep ==
    ASSUME TypeInv, ConnectionInv, RunHasOneWorker, CanceledIsForgotten, JobsAreRouted,
           [Next]_vars
    PROVE  JobsAreRouted'
<1> SUFFICES ASSUME NEW c \in Connection
             PROVE  RoutedAt(c)'
  BY DEF JobsAreRouted
<1> DEFINE w == conn[c].worker
           i == conn[c].replica
           GoesOn == \/ conn'[c].state = conn[c].state
                     \/ conn'[c].state = "streaming" /\ conn[c].state = "registered"
                     \/ conn'[c].state \notin Registered \cup {"calling"}
           RoutesKept(r) == /\ runToWorker[i][r] = w => runToWorker'[i][r] = w
                            /\ Published(r, w, i) => Published(r, w, i)'
<1>a. ConnOK /\ ChannelOK /\ RouteOK /\ JobOK /\ CallOK /\ SetOK
  BY DEF TypeInv
<1>b. conn[c].state # "free" => w \in Worker /\ i \in Replica
  BY <1>a DEF ConnOK, HasItsEnds
<1>c. RoutedAt(c)
  BY DEF JobsAreRouted
<1>d. \A r \in Run : In(Job(r), c) => DispatchedTo(r, w)
  BY DEF RunHasOneWorker
<1>k. ASSUME Mild, GoesOn, conn[c].state # "free" => running'[w] \subseteq running[w],
             \A r \in Run : In(Job(r), c)' => In(Job(r), c),
             forgotten \subseteq forgotten',
             conn[c].state # "free" =>
                 \A r \in Run \ forgotten' : DispatchedTo(r, w) => RoutesKept(r)
      PROVE  RoutedAt(c)'
  <2>1. CASE conn[c].state = "free"
    BY <1>k, <2>1, NothingToRoute DEF Mild, Open, Registered
  <2>2. CASE conn[c].state # "free"
    <3>1. conn'[c].worker = w /\ conn'[c].replica = i /\ conn'[c].active = conn[c].active
      BY <1>k DEF Mild
    <3> QED
      BY <1>b, <1>c, <1>k, <2>2, <3>1, RoutedKept
  <2> QED
    BY <2>1, <2>2
<1>q. ASSUME Mild, GoesOn, UNCHANGED <<running, channel, runToWorker, runWorker, dispatch>>,
             forgotten \subseteq forgotten'
      PROVE  RoutedAt(c)'
  <2>1. \A r \in Run : In(Job(r), c)' => In(Job(r), c)
    BY <1>q DEF In, Job
  <2>2. \A r \in Run : RoutesKept(r)
    BY <1>q DEF Published, Mild
  <2> QED
    BY <1>k, <1>q, <2>1, <2>2
<1> HIDE DEF GoesOn, RoutesKept
<1>1. ASSUME NEW d \in Connection, NEW v \in Worker, NEW j \in Replica, Dial(d, v, j)
      PROVE  RoutedAt(c)'
  <2>1. /\ conn'[d].state = "calling" /\ conn'[d].worker = v /\ conn'[d].active = running[v]
        /\ \A e \in Connection : e # d => conn'[e] = conn[e]
        /\ UNCHANGED <<channel, runToWorker, runWorker, running, dispatch, forgotten>>
    BY <1>a, <1>1 DEF Dial, ConnOK, jobVars, callVars, localVars, redisVars
  <2>2. CASE c = d
    BY <2>1, <2>2 DEF RoutedAt, Registered
  <2>3. CASE c # d
    BY <1>c, <2>1, <2>3 DEF RoutedAt, Published, In, Job
  <2> QED
    BY <2>2, <2>3
<1>2. ASSUME NEW d \in Connection, RegisterLocal(d)
      PROVE  RoutedAt(c)'
  <2>0. /\ conn' = [conn EXCEPT ![d].state = "registering"]
        /\ conn[d].state = "calling"
        /\ UNCHANGED <<channel, runWorker, running, dispatch, forgotten>>
    BY <1>2 DEF RegisterLocal, redisVars, jobVars, callVars
  <2>1. \A r \in Run : In(Job(r), c)' => In(Job(r), c)
    BY <2>0 DEF In, Job
  <2>2. conn[d].worker \in Worker /\ conn[d].replica \in Replica
    BY <1>a, <2>0 DEF ConnOK, HasItsEnds
  <2>3. \A j \in Replica, r \in Run :
          /\ j = conn[d].replica /\ r \in conn[d].active => runToWorker'[j][r] = conn[d].worker
          /\ j # conn[d].replica \/ r \notin conn[d].active =>
               runToWorker'[j][r] = runToWorker[j][r]
    BY <1>a, <1>2, <2>2 DEF RegisterLocal, RouteOK
  <2>4. CASE c = d
    <3>1. running'[w] \subseteq conn[c].active
      BY <1>c, <2>0, <2>4 DEF RoutedAt
    <3>2. \A r \in Run : ~In(Job(r), c)'
      BY <2>0, <2>1, <2>4 DEF RunHasOneWorker
    <3>3. \A r \in running'[w] : r \in Run => runToWorker'[i][r] = w
      BY <2>2, <2>3, <2>4, <3>1
    <3>4. /\ conn'[c].state = "registering" /\ conn'[c].worker = w /\ conn'[c].replica = i
          /\ conn'[c].active = conn[c].active
      BY <1>a, <2>0, <2>4, StateChange
    <3> HIDE DEF w, i
    <3> QED
      BY <3>1, <3>2, <3>3, <3>4 DEF RoutedAt
  <2>5. CASE c # d
    <3>1. Mild
      BY <1>2, <2>0, ConnectionIsMild DEF ConnectionNext, Dial
    <3>2. GoesOn
      BY <1>a, <2>0, <2>5, StateChange DEF GoesOn
    <3>3. ASSUME conn[c].state # "free", NEW r \in Run, DispatchedTo(r, w)
          PROVE  RoutesKept(r)
      <4>1. r \in conn[d].active => conn[d].worker = w
        BY <3>3 DEF RunHasOneWorker, DispatchedTo
      <4>2. runToWorker[i][r] = w => runToWorker'[i][r] = w
        BY <1>b, <2>3, <3>3, <4>1
      <4> QED
        BY <2>0, <4>2 DEF RoutesKept, Published
    <3> QED
      BY <1>k, <2>0, <2>1, <3>1, <3>2, <3>3
  <2> QED
    BY <2>4, <2>5
<1>3. ASSUME NEW d \in Connection, RegisterPublish(d)
      PROVE  RoutedAt(c)'
  <2>0. /\ conn' = [conn EXCEPT ![d].state = "registered"]
        /\ conn[d].state = "registering"
        /\ UNCHANGED <<channel, runToWorker, running, dispatch, forgotten>>
    BY <1>3 DEF RegisterPublish, localVars, jobVars, callVars
  <2>1. \A r \in Run : In(Job(r), c)' => In(Job(r), c)
    BY <2>0 DEF In, Job
  <2>2. \A r \in Run : /\ r \in conn[d].active => runWorker'[r] = conn[d].worker
                       /\ r \notin conn[d].active => runWorker'[r] = runWorker[r]
    BY <1>3 DEF RegisterPublish
  <2>3. ASSUME NEW r \in Run, DispatchedTo(r, w), Published(r, w, i)
        PROVE  Published(r, w, i)'
    <3>1. r \in conn[d].active => conn[d].worker = w
      BY <2>3 DEF RunHasOneWorker, DispatchedTo
    <3>2. runWorker[r] = w => runWorker'[r] = w
      BY <2>2, <3>1
    <3>3. (dispatch[r].step = "publishing" /\ dispatch[r].replica = i) =>
             (dispatch'[r].step = "publishing" /\ dispatch'[r].replica = i)
      BY <2>0
    <3>4. conn'[c].worker = w /\ conn'[c].replica = i
      BY <1>a, <2>0, StateChange
    <3> HIDE DEF w, i
    <3> QED
      BY <2>3, <3>2, <3>3, <3>4 DEF Published, w, i
  <2>4. CASE c = d
    <3>1. running'[w] \subseteq conn[c].active
      BY <1>c, <2>0, <2>4 DEF RoutedAt
    <3>2. \A r \in running'[w] : r \in Run => runWorker'[r] = w
      BY <2>2, <2>4, <3>1
    <3>3. /\ conn'[c].state = "registered" /\ conn'[c].worker = w /\ conn'[c].replica = i
          /\ conn'[c].active = conn[c].active
      BY <1>a, <2>0, <2>4, StateChange
    <3>4. \A r \in Run \ forgotten :
             /\ r \in running[w] \/ In(Job(r), c) => runToWorker[i][r] = w
             /\ In(Job(r), c) => Published(r, w, i)
      BY <1>c, <2>0, <2>4 DEF RoutedAt, Registered
    <3>5. ASSUME NEW r \in Run \ forgotten'
          PROVE  /\ r \in running'[w] \/ In(Job(r), c)' => runToWorker'[i][r] = w
                 /\ r \in running'[w] \/ In(Job(r), c)' =>
                      \/ runWorker'[r] = w
                      \/ dispatch'[r].step = "publishing" /\ dispatch'[r].replica = i
      <4>1. r \in Run \ forgotten
        BY <2>0
      <4>2. r \in running'[w] \/ In(Job(r), c)' => runToWorker'[i][r] = w
        BY <2>0, <2>1, <3>4, <4>1
      <4>3. In(Job(r), c)' => DispatchedTo(r, w) /\ Published(r, w, i)
        BY <1>d, <2>1, <3>4, <4>1
      <4>4. In(Job(r), c)' => \/ runWorker'[r] = w
                              \/ dispatch'[r].step = "publishing" /\ dispatch'[r].replica = i
        <5>1. SUFFICES ASSUME In(Job(r), c)'
                       PROVE  \/ runWorker'[r] = w
                              \/ dispatch'[r].step = "publishing" /\ dispatch'[r].replica = i
          OBVIOUS
        <5>2. Published(r, w, i)'
          BY <2>3, <4>3, <5>1
        <5> QED
          BY <3>3, <5>2 DEF Published
      <4> QED
        BY <3>2, <4>2, <4>4
    <3> HIDE DEF w, i
    <3> QED
      BY <3>3, <3>5 DEF RoutedAt, Published
  <2>5. CASE c # d
    <3>1. Mild
      BY <1>3, <2>0, ConnectionIsMild DEF ConnectionNext, Dial
    <3>2. GoesOn
      BY <1>a, <2>0, <2>5, StateChange DEF GoesOn
    <3>3. ASSUME NEW r \in Run, DispatchedTo(r, w)
          PROVE  RoutesKept(r)
      BY <2>0, <2>3, <3>3 DEF RoutesKept
    <3> QED
      BY <1>k, <2>0, <2>1, <3>1, <3>2, <3>3
  <2> QED
    BY <2>4, <2>5
<1>4. ASSUME NEW d \in Connection, StreamSend(d)
      PROVE  RoutedAt(c)'
  <2>0. /\ conn[d].reads \in Connection /\ conn[d].reads = d
        /\ channel[d] # <<>> /\ channel' = [channel EXCEPT ![d] = Tail(@)]
        /\ conn[d].worker \in Worker /\ conn[d].state = "streaming"
        /\ UNCHANGED <<runToWorker, runWorker, dispatch, forgotten>>
    BY <1>a, <1>4 DEF StreamSend, ConnectionInv, EntryIsCurrent, ConnOK, HasItsEnds,
         localVars, redisVars, callVars
  <2>1. \A r \in Run : In(Job(r), c)' => In(Job(r), c)
    BY <1>a, <2>0, InAfterTail
  <2>2. Mild
    BY <1>4, <2>0, ConnectionIsMild DEF ConnectionNext, Dial
  <2>3. GoesOn
    <3>1. CASE UNCHANGED conn
      BY <3>1 DEF GoesOn
    <3>2. ASSUME NEW s \in {"streaming", "ending"}, conn' = [conn EXCEPT ![d].state = s]
          PROVE  GoesOn
      <4>1. c # d => conn'[c].state = conn[c].state
        BY <1>a, <3>2, StateChange
      <4>2. conn'[d].state = s
        BY <1>a, <3>2, StateChange
      <4> QED
        BY <2>0, <4>1, <4>2 DEF GoesOn, Registered
    <3> QED
      BY <1>4, <3>1, <3>2 DEF StreamSend
  <2>4. \A r \in Run : RoutesKept(r)
    BY <2>0, <2>2 DEF RoutesKept, Published, Mild
  <2>5. ASSUME \A v \in Worker : running'[v] \subseteq running[v]
        PROVE  RoutedAt(c)'
    BY <1>b, <1>k, <2>0, <2>1, <2>2, <2>3, <2>4, <2>5
  <2>6. CASE /\ conn[d].alive /\ Head(channel[d]).kind = "job"
             /\ running' = [running EXCEPT
                               ![conn[d].worker] = @ \cup {Head(channel[d]).run}]
             /\ UNCHANGED conn
    <3>1. CASE c # d
      <4>1. conn[c].state \in Registered \cup {"calling"} => conn[c].worker # conn[d].worker
        BY <2>0, <3>1 DEF ConnectionInv, OneOpenConnection, Open, Registered
      <4>2. conn[c].state \in Registered \cup {"calling"} => running'[w] = running[w]
        BY <1>a, <1>b, <2>6, <4>1 DEF JobOK, Registered
      <4>3. CASE conn[c].state \in Registered \cup {"calling"}
        BY <1>k, <2>0, <2>1, <2>2, <2>3, <2>4, <4>2, <4>3
      <4> QED
        BY <2>6, <4>3, NothingToRoute
    <3>2. CASE c = d
      <4> DEFINE s == Head(channel[c]).run
      <4>1. Head(channel[c]) \in Command
        BY <1>a, <2>0, <3>2 DEF ChannelOK
      <4>2. s \in Run /\ Head(channel[c]) = Job(s)
        BY <2>6, <3>2, <4>1 DEF Command, Job
      <4>3. In(Job(s), c)
        BY <1>a, <2>0, <3>2, <4>2, AfterTail DEF In
      <4> HIDE DEF s
      <4>4. \A r \in running'[w] : r \in running[w] \/ In(Job(r), c)
        <5>1. running'[w] = running[w] \cup {s}
          BY <1>a, <2>0, <2>6, <3>2 DEF JobOK, s
        <5> QED
          BY <4>3, <5>1
      <4>5. \A r \in Run \ forgotten : r \in running[w] \/ In(Job(r), c) =>
               runToWorker[i][r] = w /\ Published(r, w, i)
        BY <1>c, <2>0, <3>2 DEF RoutedAt, Registered
      <4>6. \A r \in Run : Published(r, w, i) => Published(r, w, i)'
        BY <2>4 DEF RoutesKept
      <4>7. conn'[c] = conn[c] /\ conn[c].state = "streaming"
        BY <2>0, <2>6, <3>2
      <4>8. ASSUME NEW r \in Run \ forgotten', r \in running'[w] \/ In(Job(r), c)'
            PROVE  runToWorker'[i][r] = w /\ Published(r, w, i)'
        BY <2>0, <2>1, <4>4, <4>5, <4>6, <4>8
      <4> HIDE DEF w, i
      <4>9. conn'[c].worker = w /\ conn'[c].replica = i
        BY <4>7 DEF w, i
      <4>10. \A r \in Run \ forgotten' : r \in running'[w] \/ In(Job(r), c)' =>
               runToWorker'[i][r] = w /\ (Published(r, conn[c].worker, conn[c].replica))'
        BY <4>8 DEF w, i
      <4> QED
        BY <4>7, <4>9, <4>10 DEF RoutedAt
    <3> QED
      BY <3>1, <3>2
  <2> QED
    BY <1>a, <1>4, <2>0, <2>5, <2>6 DEF StreamSend, Received, jobVars, JobOK
<1>5. ASSUME NEW s \in Run, NEW j \in Replica, NEW v \in Worker, Dispatch(j, s, v)
      PROVE  RoutedAt(c)'
  <2> DEFINE k == workers[j][v]
  <2>1. /\ k \in Connection /\ conn[k].worker = v /\ conn[k].replica = j
        /\ conn[k].state \notin {"free", "calling"}
    BY <1>a, <1>5 DEF Dispatch, HasRoom, RouteOK, ConnectionInv, EntryIsOwn
  <2>2. /\ Job(s) \in Command
        /\ channel' = [channel EXCEPT ![k] = Append(@, Job(s))]
        /\ UNCHANGED <<conn, running, runWorker, forgotten>>
        /\ dispatch[s].step = "none"
    BY <1>5 DEF Dispatch, Job, Command, jobVars, redisVars
  <2> HIDE DEF k
  <2>3. \A r \in Run : Job(r) = Job(s) => r = s
    BY DEF Job
  <2>4. \A r \in Run : In(Job(r), c)' => In(Job(r), c) \/ (r = s /\ c = k)
    <3>1. ASSUME NEW r \in Run, In(Job(r), c)'
          PROVE  In(Job(r), c) \/ (Job(r) = Job(s) /\ c = k)
      BY <1>a, <2>1, <2>2, <3>1, InAfterAppend
    <3> QED
      BY <2>3, <3>1
  <2>5. ASSUME conn[c].state # "free", NEW r \in Run, r # s
        PROVE  RoutesKept(r)
    <3>1. runToWorker'[i][r] = runToWorker[i][r]
      BY <1>a, <1>b, <1>5, <2>5 DEF Dispatch, RouteOK
    <3>2. dispatch'[r] = dispatch[r]
      BY <1>a, <1>5, <2>5 DEF Dispatch, CallOK
    <3> QED
      BY <2>2, <3>1, <3>2 DEF RoutesKept, Published
  <2>6. ASSUME NEW r \in Run, DispatchedTo(r, w)
        PROVE  r # s
    BY <2>2, <2>6 DEF DispatchedTo
  <2>7. CASE c # k
    <3>1. Mild /\ GoesOn
      BY <2>2 DEF Mild, GoesOn, Open
    <3> QED
      BY <1>k, <2>2, <2>4, <2>5, <2>6, <2>7, <3>1
  <2>8. CASE c = k
    <3>1. w = v /\ i = j /\ conn'[c] = conn[c] /\ conn[c].state # "free"
      BY <2>1, <2>2, <2>8
    <3>2. /\ runToWorker'[i][s] = w
          /\ dispatch'[s].step = "publishing" /\ dispatch'[s].replica = i
      BY <1>a, <1>5, <2>8, <3>1 DEF Dispatch, RouteOK, CallOK
    <3>3. Published(s, w, i)'
      BY <3>1, <3>2 DEF Published
    <3>4. \A r \in Run : r # s => (In(Job(r), c)' => In(Job(r), c)) /\ RoutesKept(r)
      BY <2>4, <2>5, <3>1
    <3>5. s \notin running[w]
      BY <1>b, <2>2, <3>1 DEF RunHasOneWorker, DispatchedTo
    <3>6. ASSUME conn[c].state \in Registered, NEW r \in Run \ forgotten
          PROVE  /\ r \in running[w] \/ In(Job(r), c)' => runToWorker'[i][r] = w
                 /\ \/ In(Job(r), c)'
                    \/ r \in running[w] /\ conn[c].state # "registering"
                    => Published(r, w, i)'
      <4>1. CASE r = s
        BY <3>2, <3>3, <4>1
      <4>2. CASE r # s
        <5>1. (In(Job(r), c)' => In(Job(r), c)) /\ RoutesKept(r)
          BY <3>4, <4>2
        <5>2. /\ r \in running[w] \/ In(Job(r), c) => runToWorker[i][r] = w
              /\ \/ In(Job(r), c)
                 \/ r \in running[w] /\ conn[c].state # "registering"
                 => Published(r, w, i)
          BY <1>c, <3>6 DEF RoutedAt
        <5> QED
          BY <5>1, <5>2 DEF RoutesKept
      <4> QED
        BY <4>1, <4>2
    <3>7. conn[c].state \in {"calling", "registering"} => running[w] \subseteq conn[c].active
      BY <1>c DEF RoutedAt
    <3> QED
      BY <2>2, <3>1, <3>6, <3>7 DEF RoutedAt
  <2> QED
    BY <2>7, <2>8
<1>6. ASSUME NEW s \in Run, DispatchPublish(s)
      PROVE  RoutedAt(c)'
  <2>1. /\ UNCHANGED <<conn, channel, running, runToWorker, forgotten>>
        /\ runWorker'[s] = dispatch[s].worker
        /\ \A r \in Run : r # s => runWorker'[r] = runWorker[r] /\ dispatch'[r] = dispatch[r]
    BY <1>a, <1>6 DEF DispatchPublish, RouteOK, CallOK, localVars, jobVars
  <2>2. Mild /\ GoesOn /\ \A r \in Run : In(Job(r), c)' => In(Job(r), c)
    BY <2>1 DEF Mild, GoesOn, Open, In, Job
  <2>3. ASSUME NEW r \in Run, DispatchedTo(r, w)
        PROVE  RoutesKept(r)
    BY <2>1, <2>3 DEF RoutesKept, Published, DispatchedTo
  <2> QED
    BY <1>k, <2>1, <2>2, <2>3
<1>7. ASSUME NEW s \in Run, NEW j \in Replica, s \in forgotten', forgotten \subseteq forgotten',
             runToWorker' = [runToWorker EXCEPT ![j][s] = None],
             \A r \in Run : In(Job(r), c)' => In(Job(r), c),
             UNCHANGED <<conn, running, runWorker, dispatch>>
      PROVE  RoutedAt(c)'
  <2>1. Mild /\ GoesOn
    BY <1>7 DEF Mild, GoesOn, Open
  <2>2. ASSUME conn[c].state # "free", NEW r \in Run \ forgotten'
        PROVE  RoutesKept(r)
    <3>1. runToWorker'[i][r] = runToWorker[i][r]
      BY <1>a, <1>b, <1>7, <2>2 DEF RouteOK
    <3> QED
      BY <1>7, <3>1 DEF RoutesKept, Published
  <2> QED
    BY <1>k, <1>7, <2>1, <2>2
<1>8. ASSUME NEW s \in Run, CancelPush(s)
      PROVE  RoutedAt(c)'
  <2>1. s \in forgotten /\ cancel[s].replica \in Replica
    BY <1>a, <1>8 DEF CancelPush, CanceledIsForgotten, CallOK
  <2> QED
    BY <1>7, <1>8, <2>1, CancelPushAddsNoJob DEF CancelPush, Unroute, redisVars, jobVars
<1>9. ASSUME NEW s \in Run, NEW j \in Replica, Forget(j, s)
      PROVE  RoutedAt(c)'
  <2>1. \A r \in Run : In(Job(r), c)' => In(Job(r), c)
    BY <1>9 DEF Forget, In, Job
  <2> QED
    BY <1>7, <1>9, <2>1 DEF Forget, Unroute, redisVars, jobVars
<1>10. ASSUME NEW s \in Run, NEW j \in Replica, DeleteRoute(j, s)
       PROVE  RoutedAt(c)'
  <2>1. /\ s \in forgotten
        /\ UNCHANGED <<conn, channel, running, runToWorker, dispatch, forgotten>>
        /\ \A r \in Run : r # s => runWorker'[r] = runWorker[r]
    BY <1>a, <1>10 DEF DeleteRoute, CanceledIsForgotten, RouteOK, localVars, jobVars
  <2>2. Mild /\ GoesOn /\ \A r \in Run : In(Job(r), c)' => In(Job(r), c)
    BY <2>1 DEF Mild, GoesOn, Open, In, Job
  <2>3. ASSUME NEW r \in Run \ forgotten'
        PROVE  RoutesKept(r)
    BY <2>1 DEF RoutesKept, Published
  <2> QED
    BY <1>k, <2>1, <2>2, <2>3
<1>11. ASSUME NEW s \in Run, NEW v \in Worker, JobEnds(v, s)
       PROVE  RoutedAt(c)'
  <2>1. /\ UNCHANGED <<conn, channel, runToWorker, runWorker, dispatch, forgotten>>
        /\ \A u \in Worker : running'[u] \subseteq running[u]
    BY <1>a, <1>11 DEF JobEnds, JobOK, localVars, redisVars, callVars
  <2>2. Mild /\ GoesOn /\ \A r \in Run : In(Job(r), c)' => In(Job(r), c) /\ RoutesKept(r)
    BY <2>1 DEF Mild, GoesOn, Open, In, Job, RoutesKept, Published
  <2>3. \A r \in Run : RoutesKept(r)
    BY <2>1 DEF RoutesKept, Published
  <2> QED
    BY <1>b, <1>k, <2>1, <2>2, <2>3
<1>12. ASSUME NEW j \in Replica, Restart(j)
       PROVE  RoutedAt(c)'
  <2>1. CASE i = j
    <3>1. conn'[c].state = "closed"
      BY <1>a, <1>12, <2>1 DEF Restart, ConnOK, ConnType
    <3> QED
      BY <3>1, NothingToRoute DEF Registered
  <2>2. CASE i # j
    <3>1. Mild /\ conn'[c] = conn[c]
      BY <1>12, <2>2, RestartIsMild DEF Restart
    <3>2. UNCHANGED <<running, channel, runWorker, forgotten>>
      BY <1>12 DEF Restart, jobVars, redisVars
    <3>3. GoesOn /\ \A r \in Run : In(Job(r), c)' => In(Job(r), c)
      BY <3>1, <3>2 DEF GoesOn, In, Job
    <3>4. ASSUME conn[c].state # "free", NEW r \in Run
          PROVE  RoutesKept(r)
      <4>1. runToWorker'[i][r] = runToWorker[i][r]
        BY <1>a, <1>b, <1>12, <2>2, <3>4 DEF Restart, RouteOK
      <4>2. dispatch[r].replica = i => dispatch'[r] = dispatch[r]
        BY <1>12, <2>2 DEF Restart
      <4> QED
        BY <3>1, <3>2, <4>1, <4>2 DEF RoutesKept, Published
    <3> QED
      BY <1>k, <3>1, <3>2, <3>3, <3>4
  <2> QED
    BY <2>1, <2>2
<1>13. ASSUME NEW d \in Connection, ConnectionNext(d)
       PROVE  RoutedAt(c)'
  <2>1. CASE \E v \in Worker, j \in Replica : Dial(d, v, j)
    BY <1>1, <2>1
  <2>2. CASE RegisterLocal(d) \/ RegisterPublish(d) \/ StreamSend(d)
    BY <1>2, <1>3, <1>4, <2>2
  <2>3. CASE /\ \/ StreamOpen(d) \/ StreamEnd(d) \/ DeregisterLocal(d) \/ DeregisterPublish(d)
                \/ Break(d) \/ AbandonedRegister(d)
             /\ ~\E v \in Worker, j \in Replica : Dial(d, v, j)
    <3>1. Mild
      BY <1>13, <2>3, ConnectionIsMild
    <3>2. UNCHANGED <<running, channel, runToWorker, runWorker, dispatch, forgotten>>
      BY <2>3 DEF StreamOpen, StreamEnd, DeregisterLocal, DeregisterPublish, Break,
           AbandonedRegister, jobVars, callVars, localVars, redisVars
    <3>3. GoesOn
      <4>1. CASE c # d
        BY <1>a, <2>3, <4>1 DEF StreamOpen, StreamEnd, DeregisterLocal, DeregisterPublish, Break,
             AbandonedRegister, ConnOK, GoesOn
      <4>2. CASE c = d
        <5>1. CASE StreamOpen(d)
          <6>1. conn[c].state = "registered" /\ conn'[c].state \in {"closed", "streaming"}
            BY <1>a, <4>2, <5>1 DEF StreamOpen, ConnOK, ConnType
          <6> QED
            BY <6>1 DEF GoesOn, Registered
        <5>2. CASE Break(d)
          <6>1. conn'[c].state \in {conn[c].state, "closed"}
            BY <1>a, <4>2, <5>2 DEF Break, ConnOK, ConnType
          <6> QED
            BY <6>1 DEF GoesOn, Registered
        <5>3. CASE \E s \in {"ending", "unpublishing", "closed"} :
                      conn' = [conn EXCEPT ![d].state = s]
          <6>1. conn'[c].state \in {"ending", "unpublishing", "closed"}
            BY <1>a, <4>2, <5>3, StateChange
          <6> QED
            BY <6>1 DEF GoesOn, Registered
        <5> QED
          BY <2>3, <5>1, <5>2, <5>3
             DEF StreamEnd, DeregisterLocal, DeregisterPublish, AbandonedRegister
      <4> QED
        BY <4>1, <4>2
    <3> QED
      BY <1>q, <3>1, <3>2, <3>3
  <2> QED
    BY <1>13, <2>1, <2>2, <2>3 DEF ConnectionNext
<1>14. CASE UNCHANGED <<conn, running, channel, runToWorker, runWorker, dispatch>>
            /\ forgotten \subseteq forgotten'
  BY <1>q, <1>14 DEF Mild, GoesOn, Open
<1>15. ASSUME NEW s \in Run, RunNext(s)
       PROVE  RoutedAt(c)'
  BY <1>5, <1>6, <1>8, <1>9, <1>10, <1>11, <1>14, <1>15
     DEF RunNext, CancelJob, CancelLookup, CancelForward, ForwardReceive, jobVars, localVars,
         redisVars
<1>16. ASSUME NEW v \in Worker, Expire(v)
       PROVE  RoutedAt(c)'
  BY <1>14, <1>16 DEF Expire, jobVars, callVars, localVars
<1>17. CASE UNCHANGED vars
  BY <1>14, <1>17 DEF vars, jobVars, callVars, localVars, redisVars
<1> QED
  BY <1>12, <1>13, <1>15, <1>16, <1>17 DEF Next

-----------------------------------------------------------------------------
(* The order of commands.                                                   *)

\* A step that leaves the channels and what Workers were told alone.
LEMMA BehindKept ==
    ASSUME CancelsAreBehind, UNCHANGED <<channel, told>>, forgotten \subseteq forgotten',
           \A k \in Connection, r \in Run : Open(k)' /\ In(Job(r), k) =>
               Open(k) /\ conn'[k].worker = conn[k].worker
    PROVE  CancelsAreBehind'
<1>1. \A k \in Connection, r \in Run :
        /\ In(Job(r), k)' => In(Job(r), k)
        /\ In(Cancel(r), k)' => In(Cancel(r), k)
  BY DEF In, Job, Cancel
<1>2. ASSUME NEW k \in Connection, NEW r \in Run, Open(k)', In(Job(r), k)'
      PROVE  r \notin told'[conn'[k].worker]
  BY <1>1, <1>2 DEF CancelsAreBehind
<1>3. ASSUME NEW k \in Connection, NEW r \in Run
      PROVE  \A p, q \in 1..Len(channel'[k]) :
               channel'[k][p] = Job(r) /\ channel'[k][q] = Cancel(r) => p < q
  BY DEF CancelsAreBehind
<1> QED
  BY <1>1, <1>2, <1>3 DEF CancelsAreBehind, Job, Cancel

\* The initial channels are empty.
LEMMA RoutingInit == Init => RoutingInv
<1> SUFFICES ASSUME Init PROVE RoutingInv
  OBVIOUS
<1>1. JobsAreRouted
  BY DEF Init, Unused, JobsAreRouted, RoutedAt, Registered
<1>2. CancelsAreBehind
  BY DEF Init, Unused, CancelsAreBehind, In
<1> QED
  BY <1>1, <1>2, ConnectionInit, OwnershipInit DEF RoutingInv

\* Every step keeps a CancelJob behind its JobAssignment.
LEMMA CancelsAreBehindStep ==
    ASSUME TypeInv, ConnectionInv, RunHasOneWorker, CanceledIsForgotten, CancelsAreBehind,
           [Next]_vars
    PROVE  CancelsAreBehind'
<1>a. ConnOK /\ ChannelOK /\ RouteOK /\ JobOK /\ CallOK /\ SetOK
  BY DEF TypeInv
<1>b. \A r \in Run : Job(r) \in Command /\ Cancel(r) \in Command
  BY DEF Job, Cancel, Command
<1>c. \A r, s \in Run : /\ Job(r) = Job(s) => r = s
                        /\ Cancel(r) = Cancel(s) => r = s
                        /\ Job(r) # Cancel(s)
  BY DEF Job, Cancel
<1>0. CASE Mild /\ UNCHANGED <<channel, told>> /\ forgotten \subseteq forgotten'
  BY <1>0, BehindKept DEF Mild
<1>1. ASSUME NEW c \in Connection, NEW w \in Worker, NEW i \in Replica, Dial(c, w, i)
      PROVE  CancelsAreBehind'
  <2>1. /\ conn[c].state = "free" /\ UNCHANGED <<channel, told, forgotten>>
        /\ \A k \in Connection : k # c => conn'[k] = conn[k]
    BY <1>a, <1>1 DEF Dial, ConnOK, jobVars, callVars
  <2>2. \A r \in Run : ~In(Job(r), c)
    BY <2>1 DEF RunHasOneWorker
  <2> QED
    BY <2>1, <2>2, BehindKept DEF Open
<1>2. ASSUME NEW c \in Connection, StreamSend(c)
      PROVE  CancelsAreBehind'
  <2>0. /\ conn[c].reads = c /\ conn[c].state = "streaming"
        /\ channel[c] # <<>> /\ channel' = [channel EXCEPT ![c] = Tail(@)]
        /\ conn[c].worker \in Worker
        /\ UNCHANGED forgotten
    BY <1>a, <1>2 DEF StreamSend, ConnectionInv, EntryIsCurrent, ConnOK, HasItsEnds, callVars
  <2>1. Mild
    BY <1>2, <2>0, ConnectionIsMild DEF ConnectionNext, Dial
  <2>2. \A k \in Connection, r \in Run : /\ In(Job(r), k)' => In(Job(r), k)
                                         /\ In(Cancel(r), k)' => In(Cancel(r), k)
    BY <1>a, <2>0, InAfterTail
  <2>3. ASSUME NEW k \in Connection, NEW r \in Run
        PROVE  \A p, q \in 1..Len(channel'[k]) :
                 channel'[k][p] = Job(r) /\ channel'[k][q] = Cancel(r) => p < q
    <3>1. CASE k # c
      BY <1>a, <2>0, <3>1, AfterTail DEF CancelsAreBehind
    <3>2. CASE k = c
      <4>1. SUFFICES ASSUME NEW p \in 1..Len(channel'[c]), NEW q \in 1..Len(channel'[c]),
                            channel'[c][p] = Job(r), channel'[c][q] = Cancel(r)
                     PROVE  p < q
        BY <3>2
      <4>2. /\ p + 1 \in 1..Len(channel[c]) /\ channel[c][p + 1] = Job(r)
            /\ q + 1 \in 1..Len(channel[c]) /\ channel[c][q + 1] = Cancel(r)
        BY <1>a, <2>0, <4>1, AfterTail
      <4>3. p + 1 < q + 1
        BY <4>2 DEF CancelsAreBehind
      <4> QED
        BY <4>3
    <3> QED
      BY <3>1, <3>2
  <2>4. CASE UNCHANGED told
    <3>1. ASSUME NEW k \in Connection, NEW r \in Run, Open(k)', In(Job(r), k)'
          PROVE  r \notin told'[conn'[k].worker]
      BY <2>1, <2>2, <2>4, <3>1 DEF CancelsAreBehind, Mild
    <3> QED
      BY <2>0, <2>2, <2>3, <2>4, <3>1 DEF CancelsAreBehind, Job, Cancel
  <2>5. CASE /\ Head(channel[c]).kind # "job" /\ UNCHANGED conn
             /\ told' = [told EXCEPT ![conn[c].worker] = @ \cup {Head(channel[c]).run}]
    <3>1. Head(channel[c]) \in Command
      BY <1>a, <2>0 DEF ChannelOK
    <3>2. PICK s \in Run : s = Head(channel[c]).run /\ Head(channel[c]) = Cancel(s)
      BY <2>5, <3>1 DEF Command, Cancel
    <3>3. 1 \in 1..Len(channel[c]) /\ channel[c][1] = Cancel(s)
      BY <1>a, <2>0, <3>2, AfterTail
    <3>4. s \in forgotten
      BY <3>2, <3>3 DEF CancelsAreBehind, In
    <3>5. /\ told'[conn[c].worker] = told[conn[c].worker] \cup {s}
          /\ \A v \in Worker : v # conn[c].worker => told'[v] = told[v]
      BY <1>a, <2>0, <2>5, <3>2 DEF JobOK
    <3>6. ~In(Job(s), c)'
      <4>1. SUFFICES ASSUME NEW p \in 1..Len(channel'[c]), channel'[c][p] = Job(s)
                     PROVE  FALSE
        BY DEF In, Job
      <4>2. p + 1 \in 1..Len(channel[c]) /\ channel[c][p + 1] = Job(s)
        BY <1>a, <2>0, <4>1, AfterTail
      <4>3. p + 1 < 1
        BY <3>2, <3>3, <4>2 DEF CancelsAreBehind
      <4> QED
        BY <4>2, <4>3
    <3>7. ASSUME NEW k \in Connection, NEW r \in Run, Open(k)', In(Job(r), k)'
          PROVE  r \notin told'[conn'[k].worker]
      <4>1. Open(k) /\ In(Job(r), k) /\ r \notin told[conn[k].worker]
        BY <2>1, <2>2, <3>7 DEF CancelsAreBehind, Mild
      <4>2. conn'[k].worker = conn[k].worker /\ conn[k].worker \in Worker
        BY <1>a, <2>5, <4>1 DEF ConnOK, HasItsEnds, Open
      <4>3. CASE conn[k].worker # conn[c].worker
        BY <3>5, <4>1, <4>2, <4>3
      <4>4. CASE conn[k].worker = conn[c].worker
        <5>1. k = c
          BY <2>0, <4>1, <4>4 DEF ConnectionInv, OneOpenConnection, Open
        <5>2. r # s
          BY <3>6, <3>7, <5>1
        <5> QED
          BY <3>5, <4>1, <4>2, <4>4, <5>2
      <4> QED
        BY <4>3, <4>4
    <3>8. \A v \in Worker : told'[v] \subseteq forgotten'
      BY <2>0, <3>4, <3>5 DEF CancelsAreBehind
    <3>9. \A k \in Connection, r \in Run : In(Cancel(r), k)' => r \in forgotten'
      BY <2>0, <2>2 DEF CancelsAreBehind
    <3> QED
      BY <2>3, <3>7, <3>8, <3>9 DEF CancelsAreBehind, Job, Cancel
  <2> QED
    <3>1. \/ UNCHANGED jobVars
          \/ Received(conn[c].worker, Head(channel[c])) /\ UNCHANGED conn
      BY <1>2, <2>0 DEF StreamSend
    <3> QED
      BY <2>4, <2>5, <3>1 DEF Received, jobVars
<1>3. ASSUME NEW s \in Run, NEW i \in Replica, NEW w \in Worker, Dispatch(i, s, w)
      PROVE  CancelsAreBehind'
  <2> DEFINE c == workers[i][w]
  <2>1. c \in Connection /\ conn[c].worker = w
    BY <1>a, <1>3 DEF Dispatch, HasRoom, RouteOK, ConnectionInv, EntryIsOwn
  <2>2. /\ channel' = [channel EXCEPT ![c] = Append(@, Job(s))]
        /\ UNCHANGED <<conn, told, forgotten>> /\ dispatch[s].step = "none"
    BY <1>3 DEF Dispatch, Job, jobVars
  <2> HIDE DEF c
  <2>3. s \notin forgotten
    BY <2>2 DEF CanceledIsForgotten
  <2>4. \A r \in Run, k \in Connection : In(Cancel(r), k)' => In(Cancel(r), k)
    BY <1>a, <1>b, <1>c, <2>1, <2>2, InAfterAppend
  <2>5. ASSUME NEW k \in Connection, NEW r \in Run, In(Job(r), k)', Open(k)'
        PROVE  r \notin told'[conn'[k].worker]
    <3>1. In(Job(r), k) \/ (Job(r) = Job(s) /\ k = c)
      BY <1>a, <1>b, <2>1, <2>2, <2>5, InAfterAppend
    <3>2. CASE In(Job(r), k)
      BY <2>2, <2>5, <3>2 DEF CancelsAreBehind, Open
    <3>3. CASE Job(r) = Job(s) /\ k = c
      <4>1. r = s
        BY <1>c, <3>3
      <4>2. conn'[k].worker = w /\ told'[w] = told[w] /\ told[w] \subseteq forgotten
        BY <2>1, <2>2, <3>3 DEF CancelsAreBehind
      <4> QED
        BY <2>3, <4>1, <4>2
    <3> QED
      BY <3>1, <3>2, <3>3
  <2>6. ASSUME NEW k \in Connection, NEW r \in Run
        PROVE  \A p, q \in 1..Len(channel'[k]) :
                 channel'[k][p] = Job(r) /\ channel'[k][q] = Cancel(r) => p < q
    <3>1. CASE k # c
      BY <1>a, <1>b, <2>1, <2>2, <3>1, AfterAppend DEF CancelsAreBehind
    <3>2. CASE k = c
      <4>1. SUFFICES ASSUME NEW p \in 1..Len(channel'[c]), NEW q \in 1..Len(channel'[c]),
                            channel'[c][p] = Job(r), channel'[c][q] = Cancel(r)
                     PROVE  p < q
        BY <3>2
      <4>2. In(Cancel(r), c)
        BY <2>1, <2>4, <4>1 DEF In, Cancel
      <4>3. r # s
        BY <2>1, <2>3, <4>2 DEF CancelsAreBehind
      <4>4. /\ Len(channel[c]) \in Nat
            /\ Len(channel'[c]) = Len(channel[c]) + 1
            /\ channel'[c][Len(channel[c]) + 1] = Job(s)
            /\ \A x \in 1..Len(channel[c]) : channel'[c][x] = channel[c][x]
        BY <1>a, <1>b, <2>1, <2>2, AfterAppend
      <4>5. p # Len(channel[c]) + 1 /\ q # Len(channel[c]) + 1
        BY <1>c, <4>1, <4>3, <4>4
      <4>6. p \in 1..Len(channel[c]) /\ q \in 1..Len(channel[c])
        BY <4>4, <4>5
      <4> QED
        BY <2>1, <4>1, <4>4, <4>6 DEF CancelsAreBehind
    <3> QED
      BY <3>1, <3>2
  <2> QED
    BY <2>2, <2>4, <2>5, <2>6 DEF CancelsAreBehind, Job, Cancel
<1>4. ASSUME NEW s \in Run, CancelPush(s)
      PROVE  CancelsAreBehind'
  <2> DEFINE c == cancel[s].channel
  <2>1. c \in Connection /\ s \in forgotten
    BY <1>a, <1>4 DEF CancelPush, CallOK, CanceledIsForgotten
  <2>2. /\ \/ channel' = [channel EXCEPT ![c] = Append(@, Cancel(s))]
           \/ channel' = channel
        /\ UNCHANGED <<conn, told, forgotten>>
    BY <1>a, <1>4, <2>1 DEF CancelPush, Cancel, ChannelOK, jobVars
  <2> HIDE DEF c
  <2>3. CASE channel' = channel
    BY <1>0, <2>2, <2>3 DEF Mild, Open
  <2>4. CASE channel' = [channel EXCEPT ![c] = Append(@, Cancel(s))]
    <3>1. \A r \in Run, k \in Connection : In(Job(r), k)' => In(Job(r), k)
      BY <1>4, CancelPushAddsNoJob
    <3>2. ASSUME NEW r \in Run, NEW k \in Connection, In(Cancel(r), k)'
          PROVE  r \in forgotten'
      <4>1. In(Cancel(r), k) \/ Cancel(r) = Cancel(s)
        BY <1>a, <1>b, <2>1, <2>4, <3>2, InAfterAppend
      <4> QED
        BY <1>c, <2>1, <2>2, <4>1 DEF CancelsAreBehind
    <3>3. ASSUME NEW k \in Connection, NEW r \in Run, In(Job(r), k)', Open(k)'
          PROVE  r \notin told'[conn'[k].worker]
      BY <2>2, <3>1, <3>3 DEF CancelsAreBehind, Open
    <3>4. ASSUME NEW k \in Connection, NEW r \in Run
          PROVE  \A p, q \in 1..Len(channel'[k]) :
                   channel'[k][p] = Job(r) /\ channel'[k][q] = Cancel(r) => p < q
      <4>1. CASE k # c
        BY <1>a, <1>b, <2>1, <2>4, <4>1, AfterAppend DEF CancelsAreBehind
      <4>2. CASE k = c
        <5>1. SUFFICES ASSUME NEW p \in 1..Len(channel'[c]), NEW q \in 1..Len(channel'[c]),
                              channel'[c][p] = Job(r), channel'[c][q] = Cancel(r)
                       PROVE  p < q
          BY <4>2
        <5>2. /\ Len(channel[c]) \in Nat
              /\ Len(channel'[c]) = Len(channel[c]) + 1
              /\ channel'[c][Len(channel[c]) + 1] = Cancel(s)
              /\ \A x \in 1..Len(channel[c]) : channel'[c][x] = channel[c][x]
          BY <1>a, <1>b, <2>1, <2>4, AfterAppend
        <5>3. p # Len(channel[c]) + 1
          BY <1>c, <5>1, <5>2
        <5>4. p \in 1..Len(channel[c])
          BY <5>2, <5>3
        <5>5. CASE q = Len(channel[c]) + 1
          BY <5>2, <5>4, <5>5
        <5>6. CASE q # Len(channel[c]) + 1
          <6>1. q \in 1..Len(channel[c])
            BY <5>2, <5>6
          <6> QED
            BY <2>1, <5>1, <5>2, <5>4, <6>1 DEF CancelsAreBehind
        <5> QED
          BY <5>5, <5>6
      <4> QED
        BY <4>1, <4>2
    <3> QED
      BY <2>2, <3>2, <3>3, <3>4 DEF CancelsAreBehind, Job, Cancel
  <2> QED
    BY <2>2, <2>3, <2>4
<1>5. CASE UNCHANGED <<conn, channel, told>> /\ forgotten \subseteq forgotten'
  BY <1>0, <1>5 DEF Mild, Open
<1>6. ASSUME NEW c \in Connection, ConnectionNext(c)
      PROVE  CancelsAreBehind'
  <2>1. CASE \E w \in Worker, i \in Replica : Dial(c, w, i)
    BY <1>1, <2>1
  <2>2. CASE StreamSend(c)
    BY <1>2, <2>2
  <2>3. CASE ~StreamSend(c) /\ ~\E w \in Worker, i \in Replica : Dial(c, w, i)
    <3>1. UNCHANGED <<told, channel, forgotten>>
      BY <1>6, <2>3 DEF ConnectionNext, RegisterLocal, RegisterPublish, StreamOpen, StreamEnd,
           DeregisterLocal, DeregisterPublish, Break, AbandonedRegister, jobVars, callVars
    <3> QED
      BY <1>0, <1>6, <2>3, <3>1, ConnectionIsMild
  <2> QED
    BY <2>1, <2>2, <2>3
<1>7. ASSUME NEW r \in Run, RunNext(r)
      PROVE  CancelsAreBehind'
  BY <1>3, <1>4, <1>5, <1>7 DEF RunNext, DispatchPublish, CancelJob, CancelLookup,
       CancelForward, ForwardReceive, Forget, DeleteRoute, JobEnds, jobVars, callVars
<1>8. ASSUME NEW i \in Replica, Restart(i)
      PROVE  CancelsAreBehind'
  BY <1>0, <1>8, RestartIsMild DEF Restart, jobVars
<1> QED
  BY <1>5, <1>6, <1>7, <1>8 DEF Next, Expire, vars, jobVars, callVars

-----------------------------------------------------------------------------
(* What follows for every behaviour in which replicas end broken streams    *)
(* before their Workers connect again.                                      *)

\* The two inductive invariants together.
LEMMA RoutingInvariant ==
    ASSUME PromptEnd = TRUE
    PROVE  Spec => [](TypeInv /\ RoutingInv)
<1>1. Init => TypeInv /\ RoutingInv
  BY TypeInit, RoutingInit
<1>2. TypeInv /\ RoutingInv /\ [Next]_vars => (TypeInv /\ RoutingInv)'
  <2> SUFFICES ASSUME TypeInv, RoutingInv, [Next]_vars
               PROVE  TypeInv' /\ RoutingInv'
    OBVIOUS
  <2>1. /\ ConnectionInv /\ RunHasOneWorker /\ CanceledIsForgotten /\ JobsAreRouted
        /\ CancelsAreBehind
    BY DEF RoutingInv
  <2>2. TypeInv'
    BY TypeStep
  <2>3. ConnectionInv'
    BY <2>1, ConnectionStep
  <2>4. RunHasOneWorker'
    BY <2>1, RunHasOneWorkerStep
  <2>5. CanceledIsForgotten'
    BY <2>1, CanceledIsForgottenStep
  <2>6. JobsAreRouted'
    BY <2>1, JobsAreRoutedStep
  <2>7. CancelsAreBehind'
    BY <2>1, CancelsAreBehindStep
  <2> QED
    BY <2>2, <2>3, <2>4, <2>5, <2>6, <2>7 DEF RoutingInv
<1> QED
  BY <1>1, <1>2, PTL DEF Spec

\* A connected Worker can be given work and can be found: the Registry of its
\* replica has the channel its stream reads, and Redis names that replica
\* (register and deregister in registry.go).
THEOREM ConnectedWorkersAreRoutable ==
    ASSUME PromptEnd = TRUE
    PROVE  Spec => []ConnectedWorkerIsRoutable
<1>1. RoutingInv => ConnectedWorkerIsRoutable
  BY DEF RoutingInv, ConnectionInv, EntryIsCurrent, ConnectedWorkerIsRoutable, Connected,
         Registered
<1> QED
  BY <1>1, RoutingInvariant, PTL

\* A Job that runs on a connected Worker can be canceled through its replica,
\* after any number of restarts and reconnections (register in registry.go).
THEOREM RunningRunsAreRoutable ==
    ASSUME PromptEnd = TRUE
    PROVE  Spec => []RunningRunIsRoutable
<1>1. RoutingInv => RunningRunIsRoutable
  BY DEF RoutingInv, JobsAreRouted, RoutedAt, RunningRunIsRoutable, Connected, Registered
<1> QED
  BY <1>1, RoutingInvariant, PTL

\* ... and through every other replica, once Dispatch has set the run-worker
\* key (Dispatch and register in registry.go).
THEOREM RunningRunsAreFoundInRedis ==
    ASSUME PromptEnd = TRUE
    PROVE  Spec => []RunningRunIsFoundInRedis
<1>1. RoutingInv => RunningRunIsFoundInRedis
  <2> SUFFICES ASSUME RoutingInv, NEW c \in Connection, NEW r \in Run, Connected(c),
                      r \in running[conn[c].worker] \ forgotten, dispatch[r].step = "done"
               PROVE  runWorker[r] = conn[c].worker
    BY DEF RunningRunIsFoundInRedis
  <2>1. Published(r, conn[c].worker, conn[c].replica)
    BY DEF RoutingInv, JobsAreRouted, RoutedAt, Connected, Registered
  <2> QED
    BY <2>1 DEF Published
<1> QED
  BY <1>1, RoutingInvariant, PTL

\* Only a stream that delivers a JobAssignment starts a Job, and the Worker
\* was not told to cancel its Run.
LEMMA StartsUntold ==
    ASSUME TypeInv, RoutingInv, [Next]_vars,
           NEW w \in Worker, NEW r \in Run, r \in running'[w] \ running[w]
    PROVE  r \notin told[w]
<1>a. ConnOK /\ ChannelOK /\ JobOK
  BY DEF TypeInv
<1>0. running' # running
  OBVIOUS
<1>1. PICK c \in Connection : StreamSend(c)
  <2>1. ~\E i \in Replica : Restart(i)
    BY <1>0 DEF Restart, jobVars
  <2>2. ~\E v \in Worker : Expire(v)
    BY <1>0 DEF Expire, jobVars
  <2>3. ~UNCHANGED vars
    BY <1>0 DEF vars, jobVars
  <2>4. ASSUME NEW s \in Run, RunNext(s)
        PROVE  FALSE
    <3>1. ASSUME NEW v \in Worker, JobEnds(v, s)
          PROVE  FALSE
      BY <1>a, <3>1 DEF JobEnds, JobOK
    <3> QED
      BY <1>0, <2>4, <3>1 DEF RunNext, Dispatch, DispatchPublish, CancelJob, CancelPush,
           CancelLookup, CancelForward, ForwardReceive, Forget, DeleteRoute, jobVars
  <2>5. PICK c \in Connection : ConnectionNext(c)
    BY <2>1, <2>2, <2>3, <2>4 DEF Next
  <2>6. StreamSend(c)
    BY <1>0, <2>5 DEF ConnectionNext, Dial, RegisterLocal, RegisterPublish, StreamOpen,
         StreamEnd, DeregisterLocal, DeregisterPublish, Break, AbandonedRegister, jobVars
  <2> QED
    BY <2>6
<1>2. conn[c].reads = c /\ conn[c].state = "streaming" /\ conn[c].worker \in Worker
  BY <1>a, <1>1 DEF StreamSend, RoutingInv, ConnectionInv, EntryIsCurrent, ConnOK, HasItsEnds
<1>3. /\ channel[c] # <<>> /\ channel' = [channel EXCEPT ![c] = Tail(@)]
      /\ Head(channel[c]).kind = "job"
      /\ running' = [running EXCEPT ![conn[c].worker] = @ \cup {Head(channel[c]).run}]
  BY <1>0, <1>1, <1>2 DEF StreamSend, Received, jobVars
<1>4. w = conn[c].worker /\ r = Head(channel[c]).run
  BY <1>a, <1>2, <1>3 DEF JobOK
<1>5. Head(channel[c]) \in Command
  BY <1>a, <1>3 DEF ChannelOK
<1>6. Head(channel[c]) = Job(r)
  BY <1>3, <1>4, <1>5 DEF Command, Job
<1>7. In(Job(r), c)
  BY <1>a, <1>3, <1>6, AfterTail DEF In
<1> QED
  BY <1>2, <1>4, <1>7 DEF RoutingInv, CancelsAreBehind, Open

\* A Worker never starts a Job it was already told to cancel (cancelLocal and
\* StreamJobs: both commands take the same channel, the Job first).
THEOREM CancelsArriveBehindTheirJobs ==
    ASSUME PromptEnd = TRUE
    PROVE  Spec => NoStartAfterCancel
<1>1. TypeInv /\ RoutingInv /\ [Next]_vars =>
        [\A w \in Worker, r \in Run : r \in running'[w] \ running[w] => r \notin told[w]]_vars
  BY StartsUntold
<1> QED
  BY <1>1, RoutingInvariant, PTL DEF Spec, NoStartAfterCancel

=============================================================================
