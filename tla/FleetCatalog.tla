--------------------------- MODULE FleetCatalog ---------------------------
(***************************************************************************)
(* The Fleet catalogue of one Organization: machines, compose files,       *)
(* networks, volumes, the links between them, and the variables of compose *)
(* files, with the HTTP requests that change them.                         *)
(*                                                                         *)
(* db is the database, one field per table, each a set of rows.  A request *)
(* is a sequence of transactions; request[q] is where it is and what it    *)
(* has read so far.  One action is one transaction, or one call to the     *)
(* vault, with the local code around it.  A request that is refused by the *)
(* membership or permission check, or by the validation of its input,      *)
(* changes nothing and is left out: every check is a guard.                *)
(*                                                                         *)
(* A compose document is what the rendering looks at: its services, the    *)
(* environment each declares, and the {{ KEY }} placeholders in the text.  *)
(***************************************************************************)
EXTENDS Naturals, FiniteSetsExt, Functions

CONSTANTS
    Request,         \* numbers of HTTP requests
    MachineId, FileId, VariableId, Project,  \* ids, which are ordered
    OperationId, Network, Volume,
    Name,            \* names of machines
    Key, Value,      \* of variables and of declared environments
    Target,          \* paths that file variables are written to
    Service,         \* names of services in a document
    Content,         \* the documents that are ever saved
    Credential,      \* vault references and sealed secrets
    Setting,         \* ssh user, credential type and deploy path of a machine
    NoValue,         \* an absent value, NULL
    MaxDuplicateNameAttempts,
    InitialState     \* databases to start from, and the requests to come

VARIABLES
    db, operations,
    vault,           \* what the vault holds at each path Fleet writes
    request

catalogVars == <<db, operations, vault, request>>

-----------------------------------------------------------------------------
(* Rows.                                                                    *)

\* "file_template" stands for config_file too, which is treated alike.  The
\* target path of other types, which nothing reads, is left out.
VarType == {"kv", "secret", "env", "file_template"}
Path == Project \X FileId \X Key
Document == [services : SUBSET Service,
             environment : [Service -> [Key -> Value \cup {NoValue}]],
             placeholders : SUBSET Key]
MachineName == [base : Name, copy : 0..MaxDuplicateNameAttempts]

Machine == [id : MachineId, name : MachineName, host : Name,
            settings : Setting, storage : {"vault", "local"},
            credentialRef : Credential \cup {NoValue},
            encryptedCredential : Credential \cup {NoValue},
            connection : {"unknown", "online", "unreachable"},
            archived : BOOLEAN]
ComposeFile == [id : FileId, isGlobal : BOOLEAN, content : Content]
Variable == [id : VariableId, file : FileId, key : Key, type : VarType,
             value : Value \cup {NoValue}, secretRef : Path \cup {NoValue},
             target : Target \cup {NoValue}]

OperationStatus == {"queued", "running", "success", "failed"}
Operation == [status : OperationStatus \cup {"none"},
              file : FileId \cup {NoValue}, machine : MachineId \cup {NoValue},
              type : {"deploy", "other", "none"},
              exitCode : {0, 1, NoValue}]
NoOperation == [status |-> "none", file |-> NoValue, machine |-> NoValue,
                type |-> "none", exitCode |-> NoValue]

\* The shape of a stored credential: the reference of a vault machine, the
\* sealed secret of a local one, and never both.
CredentialColumns(m) ==
    [m EXCEPT !.credentialRef =
                  IF m.storage = "vault" THEN m.credentialRef ELSE NoValue,
              !.encryptedCredential =
                  IF m.storage = "local" THEN m.encryptedCredential ELSE NoValue]

CredentialShape(m) ==
    /\ (m.storage = "vault") <=> (m.credentialRef # NoValue)
    /\ (m.storage = "local") <=> (m.encryptedCredential # NoValue)

\* A secret has a reference, and a file variable has a target path.
VariableShape(v) ==
    /\ (v.type = "secret") <=> (v.secretRef # NoValue)
    /\ v.type = "file_template" => v.target # NoValue

Database == [machines : SUBSET Machine, files : SUBSET ComposeFile,
             networks : SUBSET Network, volumes : SUBSET Volume,
             networkLinks : SUBSET (FileId \X Network),
             volumeLinks : SUBSET (FileId \X Volume),
             projectLinks : SUBSET (FileId \X Project),
             variables : SUBSET Variable,
             spent : SUBSET (MachineId \cup FileId \cup VariableId)]

\* The uniqueness, CHECK and foreign key constraints of the schema that the
\* handlers rely on.  An id in use has been drawn.
Machines(d) ==
    /\ \A m \in d.machines : CredentialShape(m) /\ m.id \in d.spent
    /\ \A m, n \in d.machines : m.id = n.id \/ m.name = n.name => m = n
Files(d) ==
    /\ \A f \in d.files : f.id \in d.spent
    /\ \A f, g \in d.files : f.id = g.id \/ (f.isGlobal /\ g.isGlobal) => f = g
Links(d) ==
    /\ \A l \in d.networkLinks : l[2] \in d.networks
    /\ \A l \in d.volumeLinks : l[2] \in d.volumes
Variables(d) ==
    /\ \A v \in d.variables : VariableShape(v) /\ v.id \in d.spent
    /\ \A v, w \in d.variables :
          v.id = w.id \/ (v.file = w.file /\ v.key = w.key) => v = w

WellFormed(d) == d \in Database /\ Machines(d) /\ Files(d) /\ Links(d) /\ Variables(d)

\* The foreign keys of operations.
HasTargets(d, op) ==
    /\ \E f \in d.files : f.id = op.file
    /\ \E m \in d.machines : m.id = op.machine

ASSUME FleetAssumption ==
    /\ Content \subseteq Document
    /\ Project \cup Request \cup MachineId \cup FileId \cup VariableId \subseteq Nat
    /\ MachineId \cap FileId = {} /\ (MachineId \cup FileId) \cap VariableId = {}
    /\ NoValue \notin Value \cup Credential \cup Path \cup FileId \cup MachineId \cup Target
    /\ NoValue \notin 0..1
    /\ MaxDuplicateNameAttempts \in Nat \ {0}

\* What an earlier day left in the tables: operations may be waiting, and none
\* is being carried out.
ASSUME InitialAssumption ==
    \A i \in InitialState :
        /\ i.requests \subseteq Request
        /\ WellFormed(i.db)
        /\ i.operations \in [OperationId -> Operation]
        /\ \A o \in OperationId :
              \/ i.operations[o].status = "none"
              \/ i.operations[o].status = "queued" /\ HasTargets(i.db, i.operations[o])

CatalogTypeOK ==
    /\ WellFormed(db)
    /\ operations \in [OperationId -> Operation]
    /\ vault \in [Path -> Value \cup {NoValue}]

Idle == [op |-> "idle"]
Ended == [op |-> "ended"]

CatalogInit ==
    /\ \E i \in InitialState :
          /\ db = i.db
          /\ operations = i.operations
          /\ request = [q \in Request |-> IF q \in i.requests THEN Idle ELSE Ended]
    /\ vault = [p \in Path |-> NoValue]

-----------------------------------------------------------------------------
(* Requests.                                                                *)

\* A request starts, goes on with what it has read, or gives its answer.
\* Requests are numbered in the order in which they start.
Starts(q, r) ==
    /\ request[q] = Idle
    /\ \A p \in Request : p < q => request[p] # Idle
    /\ request' = [request EXCEPT ![q] = r]
Continues(q, op, r) ==
    request[q].op = op /\ request' = [request EXCEPT ![q] = r]
Answers(q) == Starts(q, Ended)
AnswersAfter(q, op) == Continues(q, op, Ended)

\* A new row's id is a fresh UUID, which no deleted row ever had: ids are
\* numbered in the order in which they are drawn.
Fresh(ids) == {i \in ids \ db.spent : \A j \in ids \ db.spent : i <= j}

\* The rows of a table with one row changed.
Changed(table, old, new) == (table \ {old}) \cup {new}

UnchangedButDb == UNCHANGED <<operations, vault>>

\* A request of one transaction on db.
Writes(q) == Answers(q) /\ UnchangedButDb

-----------------------------------------------------------------------------
(* Machines.                                                                *)

NewMachine(id, name, settings, storage, credential) ==
    CredentialColumns(
        [id |-> id, name |-> [base |-> name, copy |-> 0], host |-> name,
         settings |-> settings, storage |-> storage,
         credentialRef |-> credential, encryptedCredential |-> credential,
         connection |-> "unknown", archived |-> FALSE])

\* MachineRepository.Create: INSERT, refused if the name is taken.
NameTaken(name) == \E m \in db.machines : m.name = name
InsertMachine(m) ==
    db' = [db EXCEPT !.machines = @ \cup {m}, !.spent = @ \cup {m.id}]

CreateMachine(q) ==
    /\ Writes(q)
    /\ \E id \in Fresh(MachineId), n \in Name, s \in Setting,
          st \in {"vault", "local"}, c \in Credential :
          LET m == NewMachine(id, n, s, st, c)
          IN  ~NameTaken(m.name) /\ InsertMachine(m)

\* Mutant: the UPDATE also writes the archived column from the copy.
UpdateMachineAllColumns(copy) ==
    {IF m.id = copy.id THEN CredentialColumns(copy) ELSE m : m \in db.machines}

\* Mutant: the UPDATE writes the columns of the reference whatever the
\* storage is.
UpdateMachineBothCredentials(copy) ==
    {IF m.id = copy.id THEN [copy EXCEPT !.archived = m.archived] ELSE m :
        m \in db.machines}

\* MachineRepository.Update: writes every column but name, host and archived
\* from a copy that was read in an earlier transaction.
UpdateMachineRow(copy) ==
    {IF m.id = copy.id
     THEN [CredentialColumns(copy) EXCEPT !.archived = m.archived]
     ELSE m : m \in db.machines}

MachineExists(id) == \E m \in db.machines : m.id = id

UpdateMachineLoad(q) ==
    /\ \E m \in db.machines : Starts(q, [op |-> "updateMachine", copy |-> m])
    /\ UNCHANGED <<db, operations, vault>>

\* The fields that the request names are changed in the copy.  A reference
\* given for a local machine is accepted, and not written.
UpdateMachineSave(q) ==
    /\ AnswersAfter(q, "updateMachine")
    /\ \E s \in Setting, c \in Credential :
          LET m == request[q].copy
              copy == {[m EXCEPT !.settings = s], [m EXCEPT !.credentialRef = c]}
                        \cup {x \in {[m EXCEPT !.encryptedCredential = c]} :
                                 m.storage = "local"}
          IN  \E new \in copy :
                 db' = [db EXCEPT !.machines = UpdateMachineRow(new)]
    /\ UnchangedButDb

\* What a probe over SSH may find, an error included.
Probe == {"online", "unreachable"}

CheckConnectionLoad(q) ==
    /\ \E m \in db.machines : Starts(q, [op |-> "checkConnection", copy |-> m])
    /\ UNCHANGED <<db, operations, vault>>

CheckConnectionSave(q) ==
    /\ AnswersAfter(q, "checkConnection")
    /\ \E result \in Probe :
          db' = [db EXCEPT !.machines =
                    UpdateMachineRow([request[q].copy EXCEPT !.connection = result])]
    /\ UnchangedButDb

ArchiveRow(m) ==
    db' = [db EXCEPT !.machines = Changed(@, m, [m EXCEPT !.archived = TRUE])]
UnarchiveRow(m) ==
    db' = [db EXCEPT !.machines = Changed(@, m, [m EXCEPT !.archived = FALSE])]

ArchiveMachine(q) == Writes(q) /\ \E m \in db.machines : ArchiveRow(m)
UnarchiveMachine(q) == Writes(q) /\ \E m \in db.machines : UnarchiveRow(m)

\* Mutant: operations do not reference the machine they run on.
DeleteMachineRowWithHistory(m) == db' = [db EXCEPT !.machines = @ \ {m}]

\* The foreign key of operations keeps a machine with history.
DeleteMachineRow(m) ==
    /\ \A o \in OperationId : operations[o].machine # m.id
    /\ db' = [db EXCEPT !.machines = @ \ {m}]

DeleteMachine(q) == Writes(q) /\ \E m \in db.machines : DeleteMachineRow(m)

\* DuplicateMachineService: the source is read once; each attempt at a name
\* is a transaction of its own.  A name the caller gave is tried once, and
\* only then is the attempt's number 0.
DuplicateMachineLoad(q) ==
    /\ \E m \in db.machines, n \in Name, attempt \in {0, 1} :
          Starts(q, [op |-> "duplicateMachine", copy |-> m, given |-> n,
                     attempt |-> attempt])
    /\ UNCHANGED <<db, operations, vault>>

DuplicateName(r) ==
    [base |-> IF r.attempt = 0 THEN r.given ELSE r.copy.name.base,
     copy |-> r.attempt]

DuplicateMachineAttempt(q) ==
    LET r == request[q]
        name == DuplicateName(r)
    IN  /\ r.op = "duplicateMachine"
        /\ \/ /\ ~NameTaken(name)
              /\ \E id \in Fresh(MachineId) :
                    InsertMachine([r.copy EXCEPT !.id = id, !.name = name,
                                   !.connection = "unknown", !.archived = FALSE])
              /\ AnswersAfter(q, "duplicateMachine")
           \/ /\ NameTaken(name)
              /\ Continues(q, "duplicateMachine",
                    IF r.attempt \in 1..(MaxDuplicateNameAttempts - 1)
                    THEN [r EXCEPT !.attempt = @ + 1] ELSE Ended)
              /\ UNCHANGED db
        /\ UnchangedButDb

-----------------------------------------------------------------------------
(* Networks, volumes and links.                                             *)

InsertNetwork(n) == db' = [db EXCEPT !.networks = @ \cup {n}]
InsertVolume(v) == db' = [db EXCEPT !.volumes = @ \cup {v}]

\* The links reference the network and the volume ON DELETE CASCADE: they go
\* with it.
DeleteNetworkRow(n) ==
    db' = [db EXCEPT !.networks = @ \ {n}, !.networkLinks = {l \in @ : l[2] # n}]
DeleteVolumeRow(v) ==
    db' = [db EXCEPT !.volumes = @ \ {v}, !.volumeLinks = {l \in @ : l[2] # v}]

\* INSERT ... ON CONFLICT: attaching twice is one link.
InsertNetworkLink(f, n) == db' = [db EXCEPT !.networkLinks = @ \cup {<<f, n>>}]
InsertVolumeLink(f, v) == db' = [db EXCEPT !.volumeLinks = @ \cup {<<f, v>>}]
InsertProjectLink(f, p) == db' = [db EXCEPT !.projectLinks = @ \cup {<<f, p>>}]
DeleteNetworkLink(l) == db' = [db EXCEPT !.networkLinks = @ \ {l}]
DeleteVolumeLink(l) == db' = [db EXCEPT !.volumeLinks = @ \ {l}]
DeleteProjectLink(l) == db' = [db EXCEPT !.projectLinks = @ \ {l}]

\* What is linked to a compose file.
Linked(links, file) == {l[2] : l \in {x \in links : x[1] = file}}
NetworksOf(file) == Linked(db.networkLinks, file)
VolumesOf(file) == Linked(db.volumeLinks, file)
ProjectsOf(file) == Linked(db.projectLinks, file)

CreateNetwork(q) == Writes(q) /\ \E n \in Network \ db.networks : InsertNetwork(n)
DeleteNetwork(q) == Writes(q) /\ \E n \in db.networks : DeleteNetworkRow(n)
CreateVolume(q) == Writes(q) /\ \E v \in Volume \ db.volumes : InsertVolume(v)
DeleteVolume(q) == Writes(q) /\ \E v \in db.volumes : DeleteVolumeRow(v)

AttachNetwork(q) ==
    /\ Writes(q)
    /\ \E f \in db.files, n \in db.networks : InsertNetworkLink(f.id, n)

AttachVolume(q) ==
    /\ Writes(q)
    /\ \E f \in db.files, v \in db.volumes : InsertVolumeLink(f.id, v)

AttachProject(q) ==
    /\ Writes(q)
    /\ \E f \in db.files, p \in Project : InsertProjectLink(f.id, p)

DetachNetwork(q) == Writes(q) /\ \E l \in db.networkLinks : DeleteNetworkLink(l)
DetachVolume(q) == Writes(q) /\ \E l \in db.volumeLinks : DeleteVolumeLink(l)
DetachProject(q) == Writes(q) /\ \E l \in db.projectLinks : DeleteProjectLink(l)

-----------------------------------------------------------------------------
(* Compose files, and the environment variables synchronised from them.     *)

\* ValidateComposeContent: a document has services, which may all run.
ValidContent(doc) == doc.services # {}

\* scanComposeEnvironment: the keys that services declare.  The services are
\* visited in Go's order of a map, so any of the values declared for a key
\* may be the one that is kept.
DeclaredValues(doc, k) ==
    {doc.environment[s][k] : s \in doc.services} \ {NoValue}
DeclaredKeys(doc) == {k \in Key : DeclaredValues(doc, k) # {}}
ScanComposeEnvironment(doc) ==
    {found \in [DeclaredKeys(doc) -> Value] :
        \A k \in DeclaredKeys(doc) : found[k] \in DeclaredValues(doc, k)}

\* The first transaction of a save has committed; the synchronisation of its
\* variables follows in others.
Saved(file, doc) == [op |-> "sync", file |-> file, content |-> doc]

\* An Organization has one global compose file at most (a unique index).
InsertComposeFile(file) ==
    /\ file.isGlobal => \A f \in db.files : ~f.isGlobal
    /\ db' = [db EXCEPT !.files = @ \cup {file}, !.spent = @ \cup {file.id}]
UpdateContentRow(f, doc) ==
    db' = [db EXCEPT !.files = Changed(@, f, [f EXCEPT !.content = doc])]

\* Links and variables go with their file; operations keep it.
DeleteComposeFileRow(f) ==
    /\ \A o \in OperationId : operations[o].file # f.id
    /\ db' = [db EXCEPT !.files = @ \ {f},
                        !.networkLinks = {l \in @ : l[1] # f.id},
                        !.volumeLinks = {l \in @ : l[1] # f.id},
                        !.projectLinks = {l \in @ : l[1] # f.id},
                        !.variables = {v \in @ : v.file # f.id}]

CreateComposeFile(q) ==
    /\ \E id \in Fresh(FileId), g \in BOOLEAN, doc \in Content :
          /\ ValidContent(doc)
          /\ InsertComposeFile([id |-> id, isGlobal |-> g, content |-> doc])
          /\ Starts(q, Saved(id, doc))
    /\ UnchangedButDb

UpdateComposeFileContent(q) ==
    /\ \E f \in db.files, doc \in Content :
          /\ ValidContent(doc)
          /\ UpdateContentRow(f, doc)
          /\ Starts(q, Saved(f.id, doc))
    /\ UnchangedButDb

VariablesOf(file) == {v \in db.variables : v.file = file}

\* syncEnvVariablesFromCompose reads the variables once ...
SyncList(q) ==
    LET r == request[q]
    IN  /\ r.op = "sync"
        /\ \E found \in ScanComposeEnvironment(r.content) :
              Continues(q, "sync",
                IF DOMAIN found = {} THEN Ended
                ELSE [op |-> "syncing", file |-> r.file, found |-> found,
                      existing |-> VariablesOf(r.file)])
        /\ UNCHANGED <<db, operations, vault>>

EnvVariable(id, file, k, value) ==
    [id |-> id, file |-> file, key |-> k, type |-> "env", value |-> value,
     secretRef |-> NoValue, target |-> NoValue]

\* VariableRepository.Create: the key is unique in its compose file, whose
\* row must exist.
KeyTaken(file, k) == \E v \in db.variables : v.file = file /\ v.key = k
FileExists(file) == \E f \in db.files : f.id = file
InsertVariable(v) ==
    db' = [db EXCEPT !.variables = @ \cup {v}, !.spent = @ \cup {v.id}]

\* VariableRepository.Update: by id, the value, the reference and the target
\* of a copy.
UpdateVariableRow(copy) ==
    db' = [db EXCEPT !.variables =
             {IF v.id = copy.id
              THEN [v EXCEPT !.value = copy.value, !.secretRef = copy.secretRef,
                             !.target = copy.target]
              ELSE v : v \in @}]
VariableExists(id) == \E v \in db.variables : v.id = id

\* Mutant: the update takes the row of the key, whatever row that is by now.
SyncByKey(q, k) ==
    LET r == request[q]
        rest == IF DOMAIN r.found = {k} THEN Ended
                ELSE [r EXCEPT !.found = Restrict(@, DOMAIN @ \ {k})]
    IN  /\ db' = [db EXCEPT !.variables =
                    {IF v.file = r.file /\ v.key = k
                     THEN [v EXCEPT !.value = r.found[k]] ELSE v : v \in @}]
        /\ Continues(q, "syncing", rest)

\* ... and then creates or updates them one by one.  A key that belonged to a
\* variable of another type when the variables were read is left alone.  A
\* row created or deleted meanwhile fails the request half-way.
SyncKey(q, k) ==
    LET r == request[q]
        rest == IF DOMAIN r.found = {k} THEN Ended
                ELSE [r EXCEPT !.found = Restrict(@, DOMAIN @ \ {k})]
        current == {v \in r.existing : v.key = k}
    IN  \/ /\ \E v \in current : v.type # "env"
           /\ Continues(q, "syncing", rest)
           /\ UNCHANGED db
        \/ \E v \in current :
              /\ v.type = "env"
              /\ UpdateVariableRow([v EXCEPT !.value = r.found[k]])
              /\ Continues(q, "syncing",
                           IF VariableExists(v.id) THEN rest ELSE Ended)
        \/ /\ current = {}
           /\ IF KeyTaken(r.file, k) \/ ~FileExists(r.file)
              THEN AnswersAfter(q, "syncing") /\ UNCHANGED db
              ELSE /\ \E id \in Fresh(VariableId) :
                         InsertVariable(EnvVariable(id, r.file, k, r.found[k]))
                   /\ Continues(q, "syncing", rest)

SyncEnvVariables(q) ==
    /\ request[q].op = "syncing"
    /\ \E k \in DOMAIN request[q].found : SyncKey(q, k)
    /\ UnchangedButDb

DeleteComposeFile(q) ==
    Writes(q) /\ \E f \in db.files : DeleteComposeFileRow(f)

-----------------------------------------------------------------------------
(* Variables.                                                               *)

CreateVariable(q) ==
    /\ Writes(q)
    /\ \E id \in Fresh(VariableId), f \in db.files, k \in Key, x \in Value,
          t \in {"kv", "env", "file_template"}, path \in Target \cup {NoValue} :
          /\ (t = "file_template") <=> (path # NoValue)
          /\ ~KeyTaken(f.id, k)
          /\ InsertVariable([id |-> id, file |-> f.id, key |-> k, type |-> t,
                             value |-> x, secretRef |-> NoValue, target |-> path])

SecretVariable(id, file, k, path) ==
    [id |-> id, file |-> file, key |-> k, type |-> "secret", value |-> NoValue,
     secretRef |-> path, target |-> NoValue]

\* A reference to a path that the caller names.
CreateSecretReference(q) ==
    /\ Writes(q)
    /\ \E id \in Fresh(VariableId), f \in db.files, k \in Key, p \in Path :
          /\ ~KeyTaken(f.id, k)
          /\ InsertVariable(SecretVariable(id, f.id, k, p))

\* CreateSecretVariableService writes the value once for every project that
\* the file is linked to, in the order of their ids, and then inserts the
\* variable with the first path.
CreateSecretLoad(q) ==
    /\ \E f \in db.files, k \in Key, x \in Value :
          /\ ProjectsOf(f.id) # {}
          /\ Starts(q, [op |-> "writeSecret", file |-> f.id, key |-> k,
                        value |-> x, toWrite |-> ProjectsOf(f.id),
                        canonical |-> <<Min(ProjectsOf(f.id)), f.id, k>>])
    /\ UNCHANGED <<db, operations, vault>>

WriteSecret(q) ==
    LET r == request[q]
        p == Min(r.toWrite)
    IN  /\ r.op = "writeSecret"
        /\ vault' = [vault EXCEPT ![<<p, r.file, r.key>>] = r.value]
        /\ Continues(q, "writeSecret",
              IF r.toWrite = {p} THEN [r EXCEPT !.op = "insertSecret"]
              ELSE [r EXCEPT !.toWrite = @ \ {p}])
        /\ UNCHANGED <<db, operations>>

CreateSecretInsert(q) ==
    LET r == request[q]
    IN  /\ AnswersAfter(q, "insertSecret")
        /\ IF KeyTaken(r.file, r.key) \/ ~FileExists(r.file)
           THEN UNCHANGED db
           ELSE \E id \in Fresh(VariableId) :
                   InsertVariable(SecretVariable(id, r.file, r.key, r.canonical))
        /\ UnchangedButDb

UpdateVariableLoad(q) ==
    /\ \E v \in db.variables : Starts(q, [op |-> "updateVariable", copy |-> v])
    /\ UNCHANGED <<db, operations, vault>>

\* The value, and the path of a file variable, may be kept or replaced.
UpdateVariableSave(q) ==
    LET v == request[q].copy
        paths == IF v.type = "file_template" THEN Target ELSE {v.target}
    IN  /\ AnswersAfter(q, "updateVariable")
        /\ \/ /\ v.type = "secret"
              /\ \E p \in Path : UpdateVariableRow([v EXCEPT !.secretRef = p])
           \/ /\ v.type # "secret"
              /\ \E x \in Value, path \in paths :
                    UpdateVariableRow([v EXCEPT !.value = x, !.target = path])
        /\ UnchangedButDb

DeleteVariableRow(v) == db' = [db EXCEPT !.variables = @ \ {v}]
DeleteVariable(q) ==
    Writes(q) /\ \E v \in db.variables : DeleteVariableRow(v)

-----------------------------------------------------------------------------

MachineRequest(q) ==
    \/ CreateMachine(q) \/ UpdateMachineLoad(q) \/ UpdateMachineSave(q)
    \/ CheckConnectionLoad(q) \/ CheckConnectionSave(q)
    \/ ArchiveMachine(q) \/ UnarchiveMachine(q) \/ DeleteMachine(q)
    \/ DuplicateMachineLoad(q) \/ DuplicateMachineAttempt(q)

LinkRequest(q) ==
    \/ CreateNetwork(q) \/ DeleteNetwork(q) \/ CreateVolume(q) \/ DeleteVolume(q)
    \/ AttachNetwork(q) \/ DetachNetwork(q) \/ AttachVolume(q) \/ DetachVolume(q)
    \/ AttachProject(q) \/ DetachProject(q)

FileRequest(q) ==
    \/ CreateComposeFile(q) \/ UpdateComposeFileContent(q)
    \/ SyncList(q) \/ SyncEnvVariables(q) \/ DeleteComposeFile(q)

VariableRequest(q) ==
    \/ CreateVariable(q) \/ CreateSecretReference(q)
    \/ CreateSecretLoad(q) \/ WriteSecret(q) \/ CreateSecretInsert(q)
    \/ UpdateVariableLoad(q) \/ UpdateVariableSave(q) \/ DeleteVariable(q)

CatalogNext ==
    \E q \in Request :
        MachineRequest(q) \/ LinkRequest(q) \/ FileRequest(q) \/ VariableRequest(q)

=============================================================================
