-------------------------- MODULE FleetOperations --------------------------
(***************************************************************************)
(* Fleet operations: triggered by a request, claimed by the Deploy         *)
(* Executor of one of several replicas, carried out over SSH, and followed *)
(* by clients over server-sent events.                                     *)
(*                                                                         *)
(*   batch[n]   the candidates replica n's poll has yet to claim           *)
(*   exec[o]    the goroutine that carries out operation o, with what it   *)
(*              has read; every read is a transaction of its own, so the   *)
(*              catalogue may change between any two                       *)
(*   remote     the docker-compose.yml of the deploy directories           *)
(*   stream[c]  a client's GET .../stream                                  *)
(*                                                                         *)
(* SSH and Redis are external: a connection may fail at any step, a        *)
(* command ends with some exit code, and a published message reaches the   *)
(* streams subscribed at the time or is lost.                              *)
(***************************************************************************)
EXTENDS FleetCatalog

CONSTANTS
    Replica, Stream,
    Follows,    \* the operation that each stream is opened for
    BatchSize,  \* operations that a poll reads
    Directory,  \* deploy directories of a host
    DeployDir,  \* the directory for a machine's settings and a compose file
    Joined,     \* the directory whose docker-compose.yml a target path names,
                \* seen from a directory; NoValue if it names another file
    Mentions,   \* the placeholders in a value that is used as a template
    MayAbort    \* whether an executor may die, and a write of its be lost

\* DeployDir is any function: slugify maps different names to one slug, and a
\* machine's base path is free text.  So is Joined: a target path is checked
\* for being there, and for nothing else.
ASSUME OperationAssumption ==
    /\ MayAbort \in BOOLEAN
    /\ BatchSize \in Nat \ {0}
    /\ NoValue \notin Directory
    /\ DeployDir \in [Setting \X FileId -> Directory]
    /\ Joined \in [Directory \X Target -> Directory \cup {NoValue}]
    /\ DOMAIN Mentions = Value
    /\ Follows \in [Stream -> OperationId]

VARIABLES batch, exec, remote, executions, stream

vars == <<catalogVars, batch, exec, remote, executions, stream>>
execVars == <<exec, remote, executions>>

\* A host, and a directory there.
Location == Name \X Directory

\* An executor that has not gone further may still write files.
MayWrite == {"none", "claimed", "loaded", "connected", "local", "global",
             "resolved", "rendered", "uploading"}
ExecStep == MayWrite \cup {"running", "finishing", "publishing", "ended", "dead"}

\* The types; the catalogue's rows are well-formed.
TypeOK ==
    /\ CatalogTypeOK
    /\ batch \in [Replica -> SUBSET OperationId]
    /\ \A o \in OperationId : exec[o].step \in ExecStep
    /\ DOMAIN remote \subseteq Location
    /\ executions \in [OperationId -> 0..2]
    /\ stream \in [Stream -> [state : {"idle", "subscribing", "open", "closed"},
                             message : BOOLEAN]]

NoExec == [step |-> "none"]
NoStream == [state |-> "idle", message |-> FALSE]
Closed == [state |-> "closed", message |-> FALSE]

Init ==
    /\ CatalogInit
    /\ batch = [n \in Replica |-> {}]
    /\ exec = [o \in OperationId |-> NoExec]
    /\ remote = << >>
    /\ executions = [o \in OperationId |-> 0]
    /\ stream = [c \in Stream |-> NoStream]

-----------------------------------------------------------------------------
(* TriggerOperationService: three transactions.                             *)

TriggerFile(q) ==
    /\ \E f \in db.files, t \in {"deploy", "other", "unstorable"} :
          Starts(q, [op |-> "triggerFile", file |-> f.id, type |-> t])
    /\ UNCHANGED <<db, operations, vault>>

TriggerMachine(q) ==
    /\ \E m \in db.machines :
          /\ ~m.archived
          /\ Continues(q, "triggerFile",
                [op |-> "triggerCreate", machine |-> m.id,
                 file |-> request[q].file, type |-> request[q].type])
    /\ UNCHANGED <<db, operations, vault>>

NewOperation(r) ==
    [status |-> "queued", file |-> r.file, machine |-> r.machine, type |-> r.type,
     exitCode |-> NoValue]

\* The INSERT fails if a row it references is gone, or on the CHECK on
\* operation_type, which knows nine of the fifteen types that Valid accepts.
InsertOperation(op) ==
    IF FileExists(op.file) /\ MachineExists(op.machine) /\ op.type # "unstorable"
    THEN \E o \in OperationId :
            /\ operations[o].status = "none"
            /\ operations' = [operations EXCEPT ![o] = op]
    ELSE UNCHANGED operations

TriggerCreate(q) ==
    /\ AnswersAfter(q, "triggerCreate")
    /\ InsertOperation(NewOperation(request[q]))
    /\ UNCHANGED <<db, vault>>

TriggerRequest(q) == TriggerFile(q) \/ TriggerMachine(q) \/ TriggerCreate(q)

-----------------------------------------------------------------------------
(* DeployExecutor.                                                          *)

Queued == {o \in OperationId : operations[o].status = "queued"}

\* What the query may return: as many operations as its LIMIT lets through.
\* Which of them are the oldest is left open.
FindQueuedCandidates ==
    {b \in SUBSET Queued :
        IF Cardinality(Queued) <= BatchSize THEN b = Queued
        ELSE Cardinality(b) = BatchSize}

\* The candidates are read in a transaction before the claims.
PollScan(n) ==
    /\ batch[n] = {}
    /\ Queued # {}
    /\ \E b \in FindQueuedCandidates : batch' = [batch EXCEPT ![n] = b]
    /\ UNCHANGED <<catalogVars, execVars, stream>>

\* Mutant: the claim forgets WHERE status = 'queued'.
TryClaimAny(o) == operations[o].status # "none"

\* TryClaim's UPDATE takes effect on a queued operation only.
TryClaim(o) == operations[o].status = "queued"

\* The conditional UPDATE; a lost claim is skipped.
PollClaim(n, o) ==
    /\ o \in batch[n]
    /\ batch' = [batch EXCEPT ![n] = @ \ {o}]
    /\ IF TryClaim(o)
       THEN /\ operations' = [operations EXCEPT ![o].status = "running"]
            /\ exec' = [exec EXCEPT ![o] = [step |-> "claimed"]]
       ELSE UNCHANGED <<operations, exec>>
    /\ UNCHANGED <<db, vault, request, remote, executions, stream>>

\* The goroutine goes on with what it has read; only its own state changes.
Goes(o, from, to) ==
    /\ exec[o].step = from
    /\ exec' = [exec EXCEPT ![o] = to]
    /\ UNCHANGED <<catalogVars, batch, remote, executions, stream>>

\* finishWithError: failed, without an exit code, and -1 for the streams.
Failing == [step |-> "finishing", status |-> "failed", exitCode |-> NoValue]

ExecLoad(o) ==
    \E f \in db.files :
        /\ f.id = operations[o].file
        /\ Goes(o, "claimed", [step |-> "loaded", content |-> f.content])

\* Mutant: the deploy directory is the machine's base path alone.
DeployPathOfHost(o, m) == <<m.host, CHOOSE d \in Directory : TRUE>>

\* path.Join(machine.DeployBasePath, slugify(composeFile.Name)), on the host.
DeployPath(o, m) == <<m.host, DeployDir[m.settings, operations[o].file]>>

\* The machine, and its credential from the vault or the row.
ExecMachine(o) ==
    \E m \in db.machines :
        /\ m.id = operations[o].machine
        /\ Goes(o, "loaded", [step |-> "connected", content |-> exec[o].content,
                               dir |-> DeployPath(o, m)])

\* resolveComposeVariables: three reads, then the secrets.
ExecLocal(o) ==
    Goes(o, "connected",
         [step |-> "local", content |-> exec[o].content, dir |-> exec[o].dir,
          local |-> VariablesOf(operations[o].file)])

ExecGlobal(o) ==
    Goes(o, "local",
         [step |-> "global", content |-> exec[o].content, dir |-> exec[o].dir,
          local |-> exec[o].local,
          global |-> {f.id : f \in {g \in db.files : g.isGlobal}} \ {operations[o].file}])

\* Mutant: a global variable is taken even if the file has its own.
CascadeBoth(local, fallback) == local \cup fallback

\* The file's own variables, and the global file's for all other keys.
Cascade(local, fallback) ==
    local \cup {v \in fallback : \A w \in local : w.key # v.key}

ExecFallback(o) ==
    LET fallback == UNION {VariablesOf(f) : f \in exec[o].global}
        all == Cascade(exec[o].local, fallback)
        readable == \A v \in all : v.type = "secret" => vault[v.secretRef] # NoValue
    IN  /\ exec[o].step = "global"
        /\ Goes(o, "global",
                IF readable
                THEN [step |-> "resolved", content |-> exec[o].content, dir |-> exec[o].dir,
                      local |-> exec[o].local, fallback |-> fallback, all |-> all]
                ELSE Failing)

\* Variables of all types are template values; these are more than that.
EnvVars(all, k) == {v.value : v \in {w \in all : w.type = "env" /\ w.key = k}}
FileVariables(all) == {v \in all : v.type = "file_template"}

\* SubstituteTemplateVars: every placeholder must have a value.
Undefined(placeholders, all) == placeholders \ {v.key : v \in all}

\* RenderCompose.  A service's own entries stay, and the environment variables
\* are added to every service.

InjectEnv(doc, all, s, k) ==
    IF doc.environment[s][k] # NoValue THEN {doc.environment[s][k]}
    ELSE EnvVars(all, k)

RenderCompose(o, networks, volumes) ==
    LET doc == exec[o].content
    IN  [by |-> o, file |-> operations[o].file, content |-> doc, local |-> exec[o].local,
         fallback |-> exec[o].fallback, networks |-> networks, volumes |-> volumes,
         environment |-> [s \in doc.services |->
                            [k \in Key |-> InjectEnv(doc, exec[o].all, s, k)]]]

\* A deploy reads what is attached, and renders the document and the file
\* variables; any other type uses what is on the host's disk.
ExecRender(o) ==
    LET f == operations[o].file
        deploy == operations[o].type = "deploy"
        files == IF deploy THEN FileVariables(exec[o].all) ELSE {}
        placeholders == IF deploy
                        THEN exec[o].content.placeholders
                               \cup UNION {Mentions[v.value] : v \in files}
                        ELSE {}
    IN  /\ exec[o].step = "resolved"
        /\ Goes(o, "resolved",
                IF Undefined(placeholders, exec[o].all) # {} THEN Failing
                ELSE [step |-> "rendered", dir |-> exec[o].dir, files |-> files,
                      rendered |-> IF deploy
                                   THEN {RenderCompose(o, NetworksOf(f), VolumesOf(f))}
                                   ELSE {}])

\* Each of these reads may fail; only a deploy reads attachments.
ExecReadFails(o) ==
    \E step \in {"claimed", "loaded", "connected", "local", "global", "resolved"} :
        /\ step = "resolved" => operations[o].type = "deploy"
        /\ Goes(o, step, Failing)

\* The documents after one was written into a directory.
Written(dir, doc) ==
    [x \in DOMAIN remote \cup {dir} |-> IF x = dir THEN doc ELSE remote[x]]

\* The files that are still to be written; then the command runs.  racing are
\* the other executors that may write after this one's document.
Sends(o, deployed, racing, files) ==
    exec' = [exec EXCEPT ![o] =
               [step |-> IF files = {} THEN "running" ELSE "uploading",
                dir |-> exec[o].dir, deployed |-> deployed, racing |-> racing,
                files |-> files]]

\* ssh.RunOperation writes the files one by one, the document first.
ExecUpload(o) ==
    /\ exec[o].step = "rendered"
    /\ Sends(o, exec[o].rendered # {},
             {p \in OperationId \ {o} : exec[p].step \in MayWrite}, exec[o].files)
    /\ remote' = IF exec[o].rendered = {} THEN remote
                 ELSE Written(exec[o].dir, CHOOSE d \in exec[o].rendered : TRUE)
    /\ UNCHANGED <<catalogVars, batch, executions, stream>>

\* A file variable where a compose document is expected.
FileDocument(o, v) ==
    [by |-> o, file |-> NoValue, from |-> exec[o].dir[2], target |-> v.target]

\* The compose file's own variables come before the global file's; the order
\* of the keys is left open.
ExecWriteFile(o) ==
    /\ exec[o].step = "uploading"
    /\ \E v \in exec[o].files :
          LET own == {w \in exec[o].files : w.file = operations[o].file}
              to == Joined[exec[o].dir[2], v.target]
          IN  /\ own # {} => v \in own
              /\ Sends(o, exec[o].deployed, exec[o].racing, exec[o].files \ {v})
              /\ remote' = IF to = NoValue THEN remote
                           ELSE Written(<<exec[o].dir[1], to>>, FileDocument(o, v))
    /\ UNCHANGED <<catalogVars, batch, executions, stream>>

\* Mutant: an SSH error is only logged.
ExecUploadFailsSilently(o) ==
    \E step \in {"rendered", "uploading"} : Goes(o, step, NoExec)

\* The connection, or any of the writes, may fail.
ExecUploadFails(o) ==
    \E step \in {"rendered", "uploading"} : Goes(o, step, Failing)

ExecCommand(o) ==
    /\ exec[o].step = "running"
    /\ executions' = [executions EXCEPT ![o] = @ + 1]
    /\ \E outcome \in {[step |-> "finishing", status |-> "success", exitCode |-> 0],
                       [step |-> "finishing", status |-> "failed", exitCode |-> 1],
                       Failing} :
          exec' = [exec EXCEPT ![o] = outcome]
    /\ UNCHANGED <<catalogVars, batch, remote, stream>>

\* UPDATE operations ... WHERE id = o, whatever its status is.
MarkFinished(o) ==
    operations' = [operations EXCEPT ![o].status = exec[o].status,
                                     ![o].exitCode = exec[o].exitCode]

\* The executor goes on to publish whether or not the row could be written.
ExecFinish(o) ==
    /\ exec[o].step = "finishing"
    /\ \/ /\ MarkFinished(o)
          /\ exec' = [exec EXCEPT ![o] = [step |-> "publishing", written |-> TRUE,
                                          exitCode |-> exec[o].exitCode]]
       \/ /\ MayAbort
          /\ exec' = [exec EXCEPT ![o] = [step |-> "publishing", written |-> FALSE,
                                          exitCode |-> exec[o].exitCode]]
          /\ UNCHANGED operations
    /\ UNCHANGED <<db, vault, request, batch, remote, executions, stream>>

\* Redis delivers to the streams that are subscribed now, or loses the message.
ExecPublish(o) ==
    /\ exec[o].step = "publishing"
    /\ exec' = [exec EXCEPT ![o] =
                  [step |-> IF exec[o].written THEN "ended" ELSE "dead"]]
    /\ \/ stream' = [c \in Stream |->
                       IF stream[c].state = "open" /\ Follows[c] = o
                       THEN [stream[c] EXCEPT !.message = TRUE] ELSE stream[c]]
       \/ UNCHANGED stream
    /\ UNCHANGED <<catalogVars, batch, remote, executions>>

\* The process stops, or the claimed operation cannot be loaded: nothing
\* picks up a running operation again.
ExecAbort(o) ==
    /\ MayAbort
    /\ \E step \in ExecStep \ {"none", "ended", "dead"} :
          Goes(o, step, [step |-> "dead"])

ExecNext(o) ==
    \/ ExecLoad(o) \/ ExecMachine(o) \/ ExecLocal(o) \/ ExecGlobal(o)
    \/ ExecFallback(o) \/ ExecRender(o) \/ ExecReadFails(o)
    \/ ExecUpload(o) \/ ExecWriteFile(o) \/ ExecUploadFails(o)
    \/ ExecCommand(o) \/ ExecFinish(o) \/ ExecPublish(o)

-----------------------------------------------------------------------------
(* StreamOperationHandler.                                                  *)

Terminal == {"success", "failed"}

StreamsOnly == UNCHANGED <<catalogVars, batch, execVars>>

StreamStart(c) ==
    /\ stream[c].state = "idle"
    /\ operations[Follows[c]].status # "none"
    /\ stream' = [stream EXCEPT ![c].state =
          IF operations[Follows[c]].status \in Terminal THEN "closed" ELSE "subscribing"]
    /\ StreamsOnly

StreamSubscribe(c) ==
    /\ stream[c].state = "subscribing"
    /\ stream' = [stream EXCEPT ![c].state = "open"]
    /\ StreamsOnly

StreamReceive(c) ==
    /\ stream[c] = [state |-> "open", message |-> TRUE]
    /\ stream' = [stream EXCEPT ![c] = Closed]
    /\ StreamsOnly

\* Mutant: there is no ticker beside the subscription.
StreamNoRecheck(c) == FALSE /\ UNCHANGED vars

\* The ticker reads the operation again; a read that fails is left to the next
\* tick.
StreamRecheck(c) ==
    /\ stream[c].state = "open"
    /\ operations[Follows[c]].status \in Terminal
    /\ stream' = [stream EXCEPT ![c] = Closed]
    /\ StreamsOnly

StreamNext(c) ==
    StreamStart(c) \/ StreamSubscribe(c) \/ StreamReceive(c) \/ StreamRecheck(c)

-----------------------------------------------------------------------------

Next ==
    \/ CatalogNext /\ UNCHANGED <<batch, execVars, stream>>
    \/ /\ \E q \in Request : TriggerRequest(q)
       /\ UNCHANGED <<batch, execVars, stream>>
    \/ \E n \in Replica : PollScan(n) \/ \E o \in OperationId : PollClaim(n, o)
    \/ \E o \in OperationId : ExecNext(o) \/ ExecAbort(o)
    \/ \E c \in Stream : StreamNext(c)

Spec == Init /\ [][Next]_vars

\* Tickers tick, goroutines are scheduled, calls return.  An executor that is
\* not aborted goes on; nobody has to send requests.
Fairness ==
    /\ \A n \in Replica : /\ WF_vars(PollScan(n))
                          /\ \A o \in OperationId : WF_vars(PollClaim(n, o))
    /\ \A o \in OperationId : WF_vars(ExecNext(o))
    /\ \A c \in Stream : /\ WF_vars(StreamSubscribe(c))
                         /\ WF_vars(StreamRecheck(c))

FairSpec == Spec /\ Fairness

-----------------------------------------------------------------------------
(* Properties.                                                              *)

\* However many replicas poll, an operation is carried out at most once, ends
\* once, and never succeeds without having been carried out.
Lifecycle == INSTANCE OperationLifecycle
    WITH OperationId <- OperationId,
         status <- [o \in OperationId |-> operations[o].status],
         executions <- executions
ImplementsOperationLifecycle == Lifecycle!Spec

\* Whatever is deleted between the checks of a trigger and its INSERT, and
\* while the operation waits, an operation always finds its compose file and
\* its machine: the executor's loads do not fail for want of a row.
OperationKeepsItsTargets ==
    \A o \in OperationId : operations[o].status # "none" =>
        FileExists(operations[o].file) /\ MachineExists(operations[o].machine)

\* Operations on one host run concurrently, different compose files may have
\* one directory, and a file variable may be aimed at a docker-compose.yml.
\* When a deploy's command starts, it finds the document that its executor
\* rendered, unless this was overwritten after the upload: by a later upload of
\* a compose file with the same directory, or by a file variable whose target
\* names that very document.
CommandFindsItsFile ==
    \A o \in OperationId : exec[o].step = "running" /\ exec[o].deployed =>
        LET doc == remote[exec[o].dir]
        IN  /\ doc.by \in {o} \cup exec[o].racing
            /\ \/ /\ doc.file = operations[doc.by].file
                  /\ \E s \in Setting : DeployDir[s, doc.file] = exec[o].dir[2]
               \/ /\ doc.file = NoValue
                  /\ Joined[doc.from, doc.target] = exec[o].dir[2]

\* What is rendered and deployed is, for every service and key: what the
\* service declares;
\* else the file's own env variable; else the global file's env variable,
\* unless the file has a variable of that key of any type.
Reference(d, s, k) ==
    LET own == {v \in d.local : v.key = k}
        shared == {v \in d.fallback : v.key = k}
        env(vs) == {v.value : v \in {w \in vs : w.type = "env"}}
        declared == {d.content.environment[s][k]} \ {NoValue}
    IN  IF declared # {} THEN declared
        ELSE IF own # {} THEN env(own) ELSE env(shared)
DeployedEnvironmentIsTheCascade ==
    \A dir \in DOMAIN remote : remote[dir].file # NoValue =>
        \A s \in remote[dir].content.services, k \in Key :
            remote[dir].environment[s][k] = Reference(remote[dir], s, k)

\* A machine that was archived stays so until a request unarchives it: neither
\* an update nor a connection check that read the row before writes it back.
ArchivalIsNotLost ==
    [][\A m \in db.machines : \A n \in db'.machines :
          m.id = n.id /\ m.archived /\ ~n.archived
              => \E q \in Request : UnarchiveMachine(q)]_vars

\* Saving a compose file never touches a variable of another type than env,
\* whatever was created or deleted after its variables were read.
SyncLeavesOtherTypesAlone ==
    [][(\E q \in Request : request[q].op = "syncing" /\ request'[q] # request[q])
          => \A v \in db.variables : v.type # "env" => v \in db'.variables]_vars

\* Every queued operation ends, unless its executor dies or cannot write.
OperationSettles ==
    \A o \in OperationId :
        operations[o].status = "queued"
            ~> operations[o].status \in Terminal \/ exec[o].step = "dead"

\* A client that follows an operation is told of its end, also when it
\* subscribed too late for the message, or the message was lost.
StreamIsClosed ==
    \A c \in Stream :
        (stream[c].state \in {"subscribing", "open"}
            /\ operations[Follows[c]].status \in Terminal)
            ~> stream[c].state = "closed"

=============================================================================
