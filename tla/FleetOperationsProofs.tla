----------------------- MODULE FleetOperationsProofs -----------------------
(***************************************************************************)
(* Proofs about FleetOperations, for any catalogue to start from, any      *)
(* number of requests, operations, replicas and streams.                   *)
(***************************************************************************)
EXTENDS FleetOperations, WellFoundedInduction, TLAPS

-----------------------------------------------------------------------------
(* The requests that are under way.                                         *)

TriggerType == {"deploy", "other", "unstorable"}
Found == UNION {[S -> Value] : S \in SUBSET Key}

MachineRequestRec == [op : {"updateMachine", "checkConnection"}, copy : Machine]
DuplicateRec == [op : {"duplicateMachine"}, copy : Machine, given : Name,
                 attempt : 0..MaxDuplicateNameAttempts]
SyncRec == [op : {"sync"}, file : FileId, content : Content]
SyncingRec == [op : {"syncing"}, file : FileId, found : Found, existing : SUBSET Variable]
SecretRec == [op : {"writeSecret", "insertSecret"}, file : FileId, key : Key, value : Value,
              toWrite : SUBSET Project, canonical : Path]
VariableRec == [op : {"updateVariable"}, copy : Variable]
TriggerRec == [op : {"triggerFile"}, file : FileId, type : TriggerType]
CreateRec == [op : {"triggerCreate"}, machine : MachineId, file : FileId, type : TriggerType]

\* What a request has read is what its next transaction needs.
RequestOK(r) ==
    /\ r.op \in {"updateMachine", "checkConnection"} => r \in MachineRequestRec
    /\ r.op = "duplicateMachine" => r \in DuplicateRec
    /\ r.op = "sync" => r \in SyncRec
    /\ r.op = "syncing" => r \in SyncingRec
    /\ r.op \in {"writeSecret", "insertSecret"} => r \in SecretRec
    /\ r.op = "updateVariable" => r \in VariableRec
    /\ r.op = "triggerFile" => r \in TriggerRec
    /\ r.op = "triggerCreate" => r \in CreateRec

\* A copy of a row may be stale, but not in the columns that are written once;
\* its id belongs to this row for ever.
MachineCopyOK(c) ==
    /\ CredentialShape(c) /\ c.id \in db.spent
    /\ \A m \in db.machines : m.id = c.id => m.name = c.name
VariableCopyOK(c) ==
    /\ VariableShape(c) /\ c.id \in db.spent
    /\ \A v \in db.variables : v.id = c.id => v.type = c.type

MachineOps == {"updateMachine", "checkConnection", "duplicateMachine"}

CopyOK(r) ==
    /\ r.op \in MachineOps => MachineCopyOK(r.copy)
    /\ r.op = "syncing" => \A v \in r.existing : VariableCopyOK(v)
    /\ r.op = "updateVariable" => VariableCopyOK(r.copy)

RequestsOK == DOMAIN request = Request /\ \A q \in Request : RequestOK(request[q])
CopiesOK == \A q \in Request : CopyOK(request[q])

CatalogInv == CatalogTypeOK /\ RequestsOK /\ CopiesOK

-----------------------------------------------------------------------------
(* What a transaction does to each table.                                   *)

\* Names stay with ids, and a machine with operations stays.
MachineStep ==
    /\ db'.machines \subseteq Machine /\ Machines(db)'
    /\ \A n \in db'.machines : n.id \in db.spent =>
         \E m \in db.machines : m.id = n.id /\ m.name = n.name
    /\ \A m \in db.machines : \/ \E n \in db'.machines : n.id = m.id
                              \/ \A o \in OperationId : operations[o].machine # m.id

\* A compose file with operations stays.
FileStep ==
    /\ db'.files \subseteq ComposeFile /\ Files(db)'
    /\ \A f \in db.files : \/ \E g \in db'.files : g.id = f.id
                           \/ \A o \in OperationId : operations[o].file # f.id

LinkStep ==
    /\ db'.networks \subseteq Network /\ db'.volumes \subseteq Volume
    /\ db'.networkLinks \subseteq FileId \X Network
    /\ db'.volumeLinks \subseteq FileId \X Volume
    /\ db'.projectLinks \subseteq FileId \X Project
    /\ Links(db)'

\* Types stay with ids.
VariableStep ==
    /\ db'.variables \subseteq Variable /\ Variables(db)'
    /\ \A w \in db'.variables : w.id \in db.spent =>
         \E v \in db.variables : v.id = w.id /\ v.type = w.type

SpentStep ==
    /\ db.spent \subseteq db'.spent
    /\ db'.spent \subseteq MachineId \cup FileId \cup VariableId

CatalogStep ==
    /\ db' \in Database
    /\ MachineStep /\ FileStep /\ LinkStep /\ VariableStep /\ SpentStep

\* A table that a step leaves alone.
LEMMA MachinesSame ==
    ASSUME WellFormed(db), db'.machines = db.machines, db.spent \subseteq db'.spent
    PROVE  MachineStep
<1>1. db.machines \subseteq Machine /\ Machines(db)
  BY DEF WellFormed, Database
<1>2. Machines(db)'
  BY <1>1 DEF Machines
<1> QED
  BY <1>1, <1>2 DEF MachineStep

\* The same of compose files.
LEMMA FilesSame ==
    ASSUME WellFormed(db), db'.files = db.files, db.spent \subseteq db'.spent
    PROVE  FileStep
<1>1. db.files \subseteq ComposeFile /\ Files(db)
  BY DEF WellFormed, Database
<1>2. Files(db)'
  BY <1>1 DEF Files
<1> QED
  BY <1>1, <1>2 DEF FileStep

\* The same of networks, volumes and links.
LEMMA LinksSame ==
    ASSUME WellFormed(db), db'.networks = db.networks, db'.volumes = db.volumes,
           db'.networkLinks = db.networkLinks, db'.volumeLinks = db.volumeLinks,
           db'.projectLinks = db.projectLinks
    PROVE  LinkStep
<1>1. /\ db.networks \subseteq Network /\ db.volumes \subseteq Volume
      /\ db.networkLinks \subseteq FileId \X Network
      /\ db.volumeLinks \subseteq FileId \X Volume
      /\ db.projectLinks \subseteq FileId \X Project /\ Links(db)
  BY DEF WellFormed, Database
<1>2. Links(db)'
  BY <1>1 DEF Links
<1> QED
  BY <1>1, <1>2 DEF LinkStep

\* The same of variables.
LEMMA VariablesSame ==
    ASSUME WellFormed(db), db'.variables = db.variables, db.spent \subseteq db'.spent
    PROVE  VariableStep
<1>1. db.variables \subseteq Variable /\ Variables(db)
  BY DEF WellFormed, Database
<1>2. Variables(db)'
  BY <1>1 DEF Variables
<1> QED
  BY <1>1, <1>2 DEF VariableStep

\* The same of the ids that are drawn.
LEMMA SpentSame ==
    ASSUME WellFormed(db), db'.spent = db.spent
    PROVE  SpentStep
BY DEF WellFormed, Database, SpentStep

\* A step that leaves the whole catalogue alone.
LEMMA DatabaseSame ==
    ASSUME WellFormed(db), db' = db
    PROVE  CatalogStep
BY MachinesSame, FilesSame, LinksSame, VariablesSame, SpentSame DEF CatalogStep, WellFormed

\* The tables make up the catalogue.
LEMMA CatalogStepKeepsWellFormed ==
    ASSUME CatalogStep
    PROVE  WellFormed(db)'
BY DEF CatalogStep, MachineStep, FileStep, LinkStep, VariableStep, WellFormed

-----------------------------------------------------------------------------
(* What a step of a request does to the requests.                           *)

\* Request q goes on with r, and the others stay where they are.
Moves(q, r) ==
    /\ DOMAIN request' = Request /\ request'[q] = r
    /\ \A p \in Request : p # q => request'[p] = request[p]

\* A request that starts was idle.
LEMMA StartsMoves ==
    ASSUME RequestsOK, NEW q \in Request, NEW r, Starts(q, r)
    PROVE  Moves(q, r) /\ request[q] = Idle
BY DEF RequestsOK, Starts, Moves

\* A request that goes on was where it goes on from.
LEMMA ContinuesMoves ==
    ASSUME RequestsOK, NEW q \in Request, NEW op, NEW r, Continues(q, op, r)
    PROVE  Moves(q, r) /\ request[q].op = op
BY DEF RequestsOK, Continues, Moves

\* A copy stays good whatever a transaction does: a row that is deleted leaves
\* its id spent, and a new row has another one.
LEMMA CopyStays ==
    ASSUME CatalogStep
    PROVE  \A r : CopyOK(r) => CopyOK(r)'
<1>1. ASSUME NEW c, MachineCopyOK(c)
      PROVE  MachineCopyOK(c)'
  BY <1>1 DEF MachineCopyOK, CatalogStep, MachineStep, SpentStep
<1>2. ASSUME NEW c, VariableCopyOK(c)
      PROVE  VariableCopyOK(c)'
  BY <1>2 DEF VariableCopyOK, CatalogStep, VariableStep, SpentStep
<1> QED
  BY <1>1, <1>2 DEF CopyOK

\* What it takes for a step of a request to keep the invariant.
LEMMA RequestStep ==
    ASSUME CatalogInv, CatalogStep, NEW q \in Request, NEW r, Moves(q, r),
           RequestOK(r), CopyOK(r)', operations' \in [OperationId -> Operation],
           vault' \in [Path -> Value \cup {NoValue}]
    PROVE  CatalogInv'
<1>1. CatalogTypeOK'
  BY CatalogStepKeepsWellFormed DEF CatalogInv, CatalogTypeOK
<1>2. RequestsOK'
  BY DEF CatalogInv, RequestsOK, Moves
<1>3. ASSUME NEW p \in Request
      PROVE  CopyOK(request[p])'
  <2>1. CASE p = q
    BY <2>1 DEF Moves, CopyOK, MachineCopyOK, VariableCopyOK
  <2>2. CASE p # q
    <3>1. CopyOK(request[p]) /\ request'[p] = request[p]
      BY <2>2 DEF CatalogInv, CopiesOK, Moves
    <3>2. PICK x : x = request[p]
      OBVIOUS
    <3>3. CopyOK(x)'
      BY <3>1, <3>2, CopyStays
    <3> QED
      BY <3>1, <3>2, <3>3 DEF CopyOK, MachineCopyOK, VariableCopyOK
  <2> QED
    BY <2>1, <2>2
<1> QED
  BY <1>1, <1>2, <1>3 DEF CatalogInv, CopiesOK

\* What every step of request q to the catalogue does.
Keeps(q) ==
    /\ CatalogInv' /\ CatalogStep /\ operations' = operations
    /\ \A p \in Request : p # q => request'[p] = request[p]

\* Idle and Ended have read nothing.
LEMMA EndedIsOK == RequestOK(Ended) /\ CopyOK(Ended) /\ CopyOK(Ended)'
BY DEF RequestOK, CopyOK, Ended, MachineOps

\* A request starts, and has read r.
LEMMA StartStep ==
    ASSUME CatalogInv, CatalogStep, NEW q \in Request, NEW r, Starts(q, r),
           RequestOK(r), CopyOK(r)', UNCHANGED <<operations, vault>>
    PROVE  Keeps(q) /\ request[q].op = "idle"
<1>1. Moves(q, r) /\ request[q] = Idle
  BY StartsMoves DEF CatalogInv
<1>2. CatalogInv'
  BY <1>1, RequestStep DEF CatalogInv, CatalogTypeOK
<1> QED
  BY <1>1, <1>2 DEF Keeps, Moves, Idle

\* A request goes on, and has read r.
LEMMA ContinueStep ==
    ASSUME CatalogInv, CatalogStep, NEW q \in Request, NEW op, NEW r, Continues(q, op, r),
           RequestOK(r), CopyOK(r)', UNCHANGED <<operations, vault>>
    PROVE  Keeps(q) /\ request[q].op = op
<1>1. Moves(q, r) /\ request[q].op = op
  BY ContinuesMoves DEF CatalogInv
<1>2. CatalogInv'
  BY <1>1, RequestStep DEF CatalogInv, CatalogTypeOK
<1> QED
  BY <1>1, <1>2 DEF Keeps, Moves

\* A request of one transaction.
LEMMA WritesStep ==
    ASSUME CatalogInv, CatalogStep, NEW q \in Request, Writes(q)
    PROVE  Keeps(q) /\ request[q].op = "idle"
BY StartStep, EndedIsOK DEF Writes, Answers, UnchangedButDb

\* The last transaction of a request.
LEMMA AnswersStep ==
    ASSUME CatalogInv, CatalogStep, NEW q \in Request, NEW op, AnswersAfter(q, op),
           UnchangedButDb
    PROVE  Keeps(q) /\ request[q].op = op
BY ContinueStep, EndedIsOK DEF AnswersAfter, UnchangedButDb

-----------------------------------------------------------------------------
(* Machines.                                                                *)

\* No machine is brought back.
ArchivedStays ==
    \A m \in db.machines : \A n \in db'.machines :
        m.id = n.id /\ m.archived => n.archived

\* The tables when only the machines change.
LEMMA MachinesOnly ==
    ASSUME WellFormed(db), NEW S, db' = [db EXCEPT !.machines = S], S \subseteq Machine
    PROVE  /\ db'.machines = S /\ db' \in Database /\ db'.spent = db.spent
           /\ FileStep /\ LinkStep /\ VariableStep /\ SpentStep
<1>1. db \in Database
  BY DEF WellFormed
<1>2. /\ db'.machines = S /\ db'.files = db.files /\ db'.networks = db.networks
      /\ db'.volumes = db.volumes /\ db'.networkLinks = db.networkLinks
      /\ db'.volumeLinks = db.volumeLinks /\ db'.projectLinks = db.projectLinks
      /\ db'.variables = db.variables /\ db'.spent = db.spent
  BY <1>1 DEF Database
<1>3. db' \in Database
  BY <1>1 DEF Database
<1> QED
  BY <1>2, <1>3, FilesSame, LinksSame, VariablesSame, SpentSame

\* Rows that are changed keep their ids and their names.
LEMMA MachinesChange ==
    ASSUME WellFormed(db), NEW S, db' = [db EXCEPT !.machines = S], S \subseteq Machine,
           \A n \in S : /\ CredentialShape(n)
                        /\ \E m \in db.machines : m.id = n.id /\ m.name = n.name,
           \A m \in db.machines : \E n \in S : n.id = m.id,
           \A m, n \in S : m.id = n.id => m = n
    PROVE  CatalogStep
<1>1. /\ db'.machines = S /\ db' \in Database /\ db'.spent = db.spent
      /\ FileStep /\ LinkStep /\ VariableStep /\ SpentStep
  BY MachinesOnly
<1>2. Machines(db)
  BY DEF WellFormed
<1>3. Machines(db)'
  BY <1>1, <1>2 DEF Machines
<1>4. MachineStep
  BY <1>1, <1>3 DEF MachineStep
<1> QED
  BY <1>1, <1>4 DEF CatalogStep

\* What MachineRepository.Update makes of the rows, given a copy that is good.
LEMMA UpdateMachineRowStep ==
    ASSUME WellFormed(db), NEW c \in Machine,
           (c.storage = "vault") => (c.credentialRef # NoValue),
           (c.storage = "local") => (c.encryptedCredential # NoValue),
           \A m \in db.machines : m.id = c.id => m.name = c.name,
           db' = [db EXCEPT !.machines = UpdateMachineRow(c)]
    PROVE  CatalogStep /\ ArchivedStays
<1> DEFINE x(m) == [CredentialColumns(c) EXCEPT !.archived = m.archived]
           S == UpdateMachineRow(c)
<1>a. db.machines \subseteq Machine /\ Machines(db)
  BY DEF WellFormed, Database
<1>1. CredentialColumns(c) \in Machine /\ CredentialColumns(c).id = c.id
      /\ CredentialColumns(c).name = c.name /\ CredentialColumns(c).storage = c.storage
      /\ CredentialShape(CredentialColumns(c))
  BY DEF CredentialColumns, CredentialShape, Machine
<1>2. ASSUME NEW m \in db.machines
      PROVE  /\ x(m) \in Machine /\ x(m).id = c.id /\ x(m).name = c.name
             /\ x(m).archived = m.archived /\ CredentialShape(x(m))
  BY <1>a, <1>1 DEF Machine, CredentialShape
<1>3. S = {IF m.id = c.id THEN x(m) ELSE m : m \in db.machines}
  BY DEF UpdateMachineRow
<1> HIDE DEF x, S
<1>4. ASSUME NEW n \in S
      PROVE  \E m \in db.machines : /\ m.id = n.id /\ m.name = n.name /\ m.archived = n.archived
                                    /\ n \in Machine /\ CredentialShape(n)
                                    /\ n = IF m.id = c.id THEN x(m) ELSE m
  <2>1. PICK m \in db.machines : n = IF m.id = c.id THEN x(m) ELSE m
    BY <1>3
  <2> QED
    BY <1>a, <1>2, <2>1 DEF Machines
<1>5. \A m \in db.machines : \E n \in S : n.id = m.id
  BY <1>2, <1>3
<1>6. \A m, n \in S : m.id = n.id => m = n
  BY <1>a, <1>4 DEF Machines
<1>7. S \subseteq Machine
  BY <1>4
<1>8. db' = [db EXCEPT !.machines = S]
  BY DEF S
<1>9. CatalogStep
  BY <1>4, <1>5, <1>6, <1>7, <1>8, MachinesChange
<1>10. db'.machines = S
  BY <1>7, <1>8, MachinesOnly
<1>11. ArchivedStays
  BY <1>a, <1>4, <1>10 DEF ArchivedStays, Machines
<1> QED
  BY <1>9, <1>11

\* ArchiveRow and UnarchiveRow.
LEMMA ArchiveRowStep ==
    ASSUME WellFormed(db), NEW m \in db.machines, NEW b \in BOOLEAN,
           db' = [db EXCEPT !.machines = Changed(@, m, [m EXCEPT !.archived = b])]
    PROVE  CatalogStep /\ (b => ArchivedStays)
<1> DEFINE x == [m EXCEPT !.archived = b]
           S == (db.machines \ {m}) \cup {x}
<1>a. db.machines \subseteq Machine /\ Machines(db) /\ db \in Database
  BY DEF WellFormed, Database
<1>1. x \in Machine /\ x.id = m.id /\ x.name = m.name /\ CredentialShape(x)
  BY <1>a DEF Machine, Machines, CredentialShape
<1>2. db' = [db EXCEPT !.machines = S]
  BY <1>a DEF Changed, Database
<1> HIDE DEF x
<1>3. CatalogStep
  BY <1>a, <1>1, <1>2, MachinesChange DEF Machines
<1>4. db'.machines = S
  BY <1>a, <1>1, <1>2, MachinesOnly
<1>5. ASSUME b
      PROVE  ArchivedStays
  <2>1. x.archived
    BY <1>a, <1>5 DEF x, Machine
  <2> QED
    BY <1>a, <1>1, <1>4, <2>1 DEF ArchivedStays, Machines
<1> QED
  BY <1>3, <1>5

\* A new machine, with an id that no machine had and a name that none has.
LEMMA InsertMachineStep ==
    ASSUME WellFormed(db), NEW m \in Machine, CredentialShape(m), m.id \in MachineId \ db.spent,
           ~NameTaken(m.name), InsertMachine(m)
    PROVE  CatalogStep /\ ArchivedStays
<1>a. db.machines \subseteq Machine /\ Machines(db) /\ db \in Database
      /\ db.spent \subseteq MachineId \cup FileId \cup VariableId
  BY DEF WellFormed, Database
<1>1. /\ db'.machines = db.machines \cup {m} /\ db'.files = db.files
      /\ db'.networks = db.networks
      /\ db'.volumes = db.volumes /\ db'.networkLinks = db.networkLinks
      /\ db'.volumeLinks = db.volumeLinks /\ db'.projectLinks = db.projectLinks
      /\ db'.variables = db.variables /\ db'.spent = db.spent \cup {m.id}
  BY <1>a DEF Database, InsertMachine
<1>2. db' \in Database
  BY <1>a DEF Database, InsertMachine
<1>3. FileStep /\ LinkStep /\ VariableStep
  BY <1>1, FilesSame, LinksSame, VariablesSame
<1>4. SpentStep
  BY <1>a, <1>1 DEF SpentStep
<1>5. Machines(db)'
  BY <1>a, <1>1 DEF Machines, NameTaken
<1>6. MachineStep
  BY <1>a, <1>1, <1>5 DEF MachineStep
<1>7. ArchivedStays
  BY <1>a, <1>1 DEF ArchivedStays, Machines
<1> QED
  BY <1>2, <1>3, <1>4, <1>6, <1>7 DEF CatalogStep

\* A machine without history may go.
LEMMA DeleteMachineRowStep ==
    ASSUME WellFormed(db), NEW m \in db.machines, DeleteMachineRow(m)
    PROVE  CatalogStep /\ ArchivedStays
<1>a. db.machines \subseteq Machine /\ Machines(db)
  BY DEF WellFormed, Database
<1>1. /\ db'.machines = db.machines \ {m} /\ db' \in Database /\ db'.spent = db.spent
      /\ FileStep /\ LinkStep /\ VariableStep /\ SpentStep
  <2>1. db' = [db EXCEPT !.machines = db.machines \ {m}]
    BY DEF DeleteMachineRow, WellFormed, Database
  <2> QED
    BY <1>a, <2>1, MachinesOnly
<1>2. Machines(db)'
  BY <1>a, <1>1 DEF Machines
<1>3. MachineStep
  BY <1>a, <1>1, <1>2 DEF MachineStep, DeleteMachineRow
<1>4. ArchivedStays
  BY <1>a, <1>1 DEF ArchivedStays, Machines
<1> QED
  BY <1>1, <1>3, <1>4 DEF CatalogStep

\* A request that has just read a machine.
LEMMA MachineRead ==
    ASSUME CatalogInv, NEW m \in db.machines
    PROVE  m \in Machine /\ MachineCopyOK(m)
BY DEF CatalogInv, CatalogTypeOK, WellFormed, Database, Machines, MachineCopyOK

\* A copy that a request took holds what the UPDATE needs.
LEMMA MachineCopied ==
    ASSUME CatalogInv, NEW q \in Request, request[q].op \in MachineOps
    PROVE  request[q].copy \in Machine /\ MachineCopyOK(request[q].copy)
<1>1. RequestOK(request[q]) /\ CopyOK(request[q])
  BY DEF CatalogInv, RequestsOK, CopiesOK
<1> QED
  BY <1>1 DEF RequestOK, CopyOK, MachineOps, MachineRequestRec, DuplicateRec

\* UpdateMachineService and CheckConnectionService, their first transaction.
LEMMA MachineLoadStep ==
    ASSUME CatalogInv, NEW q \in Request, NEW m \in db.machines,
           NEW op \in {"updateMachine", "checkConnection"},
           Starts(q, [op |-> op, copy |-> m]), UNCHANGED <<db, operations, vault>>
    PROVE  Keeps(q) /\ request[q].op = "idle"
<1> DEFINE r == [op |-> op, copy |-> m]
<1>1. CatalogStep
  BY DatabaseSame DEF CatalogInv, CatalogTypeOK
<1>2. m \in Machine /\ MachineCopyOK(m)
  BY MachineRead
<1>3. RequestOK(r)
  BY <1>2 DEF RequestOK, MachineRequestRec
<1>4. CopyOK(r)
  BY <1>2 DEF CopyOK
<1>5. CopyOK(r)'
  BY <1>1, <1>4, CopyStays
<1> QED
  BY <1>1, <1>3, <1>5, StartStep

\* DuplicateMachineService, its first transaction.
LEMMA DuplicateLoadStep ==
    ASSUME CatalogInv, NEW q \in Request, DuplicateMachineLoad(q)
    PROVE  Keeps(q) /\ request[q].op = "idle"
<1>1. PICK m \in db.machines, n \in Name, a \in {0, 1} :
        Starts(q, [op |-> "duplicateMachine", copy |-> m, given |-> n, attempt |-> a])
  BY DEF DuplicateMachineLoad
<1> DEFINE r == [op |-> "duplicateMachine", copy |-> m, given |-> n, attempt |-> a]
<1>2. CatalogStep
  BY DatabaseSame DEF CatalogInv, CatalogTypeOK, DuplicateMachineLoad
<1>3. m \in Machine /\ MachineCopyOK(m)
  BY MachineRead
<1>4. a \in 0..MaxDuplicateNameAttempts
  BY FleetAssumption
<1>5. RequestOK(r)
  BY <1>3, <1>4 DEF RequestOK, DuplicateRec
<1>6. CopyOK(r)
  BY <1>3 DEF CopyOK
<1>7. CopyOK(r)'
  BY <1>2, <1>6, CopyStays
<1> QED
  BY <1>1, <1>2, <1>5, <1>7, StartStep DEF DuplicateMachineLoad

\* UpdateMachineService, its second transaction.
LEMMA UpdateMachineSaveStep ==
    ASSUME CatalogInv, NEW q \in Request, UpdateMachineSave(q)
    PROVE  Keeps(q) /\ request[q].op = "updateMachine" /\ ArchivedStays
<1> DEFINE m == request[q].copy
<1>1. request[q].op = "updateMachine"
  BY DEF UpdateMachineSave, AnswersAfter, Continues
<1>2. m \in Machine /\ MachineCopyOK(m)
  BY <1>1, MachineCopied DEF MachineOps
<1>3. PICK s \in Setting, c \in Credential :
        \E new \in {[m EXCEPT !.settings = s], [m EXCEPT !.credentialRef = c]}
                      \cup {x \in {[m EXCEPT !.encryptedCredential = c]} : m.storage = "local"} :
          db' = [db EXCEPT !.machines = UpdateMachineRow(new)]
  BY DEF UpdateMachineSave
<1>4. PICK new : /\ \/ new = [m EXCEPT !.settings = s]
                    \/ new = [m EXCEPT !.credentialRef = c]
                    \/ new = [m EXCEPT !.encryptedCredential = c]
                 /\ db' = [db EXCEPT !.machines = UpdateMachineRow(new)]
  BY <1>3
<1>5. PICK y : y = m
  OBVIOUS
<1>6. /\ new \in Machine /\ new.id = y.id /\ new.name = y.name /\ new.storage = y.storage
      /\ new.credentialRef \in {y.credentialRef, c}
      /\ new.encryptedCredential \in {y.encryptedCredential, c}
  BY <1>2, <1>4, <1>5 DEF Machine
<1>7. /\ (new.storage = "vault") => (new.credentialRef # NoValue)
      /\ (new.storage = "local") => (new.encryptedCredential # NoValue)
      /\ \A n \in db.machines : n.id = new.id => n.name = new.name
  BY <1>2, <1>5, <1>6, FleetAssumption DEF MachineCopyOK, CredentialShape
<1>8. CatalogStep /\ ArchivedStays
  BY <1>4, <1>6, <1>7, UpdateMachineRowStep DEF CatalogInv, CatalogTypeOK
<1> QED
  BY <1>8, AnswersStep DEF UpdateMachineSave

\* CheckConnectionService, its second transaction.
LEMMA CheckConnectionSaveStep ==
    ASSUME CatalogInv, NEW q \in Request, CheckConnectionSave(q)
    PROVE  Keeps(q) /\ request[q].op = "checkConnection" /\ ArchivedStays
<1>1. request[q].op = "checkConnection"
  BY DEF CheckConnectionSave, AnswersAfter, Continues
<1>2. PICK y : y = request[q].copy
  OBVIOUS
<1>3. y \in Machine /\ MachineCopyOK(y)
  BY <1>1, <1>2, MachineCopied DEF MachineOps
<1>4. PICK result \in Probe :
        db' = [db EXCEPT !.machines = UpdateMachineRow([y EXCEPT !.connection = result])]
  BY <1>2 DEF CheckConnectionSave
<1> DEFINE new == [y EXCEPT !.connection = result]
<1>5. /\ new \in Machine /\ new.id = y.id /\ new.name = y.name /\ new.storage = y.storage
      /\ new.credentialRef = y.credentialRef
      /\ new.encryptedCredential = y.encryptedCredential
  BY <1>3 DEF Machine, Probe
<1> HIDE DEF new
<1>6. /\ (new.storage = "vault") => (new.credentialRef # NoValue)
      /\ (new.storage = "local") => (new.encryptedCredential # NoValue)
      /\ \A n \in db.machines : n.id = new.id => n.name = new.name
  BY <1>3, <1>5 DEF MachineCopyOK, CredentialShape
<1>7. CatalogStep /\ ArchivedStays
  <2>1. db' = [db EXCEPT !.machines = UpdateMachineRow(new)]
    BY <1>4 DEF new
  <2> QED
    BY <1>5, <1>6, <2>1, UpdateMachineRowStep DEF CatalogInv, CatalogTypeOK
<1> QED
  BY <1>7, AnswersStep DEF CheckConnectionSave

\* CreateMachineService.
LEMMA CreateMachineStep ==
    ASSUME CatalogInv, NEW q \in Request, CreateMachine(q)
    PROVE  Keeps(q) /\ request[q].op = "idle" /\ ArchivedStays
<1>1. PICK id \in Fresh(MachineId), n \in Name, s \in Setting,
           st \in {"vault", "local"}, c \in Credential :
        LET m == NewMachine(id, n, s, st, c) IN ~NameTaken(m.name) /\ InsertMachine(m)
  BY DEF CreateMachine
<1> DEFINE x == [id |-> id, name |-> [base |-> n, copy |-> 0], host |-> n,
                 settings |-> s, storage |-> st, credentialRef |-> c,
                 encryptedCredential |-> c, connection |-> "unknown", archived |-> FALSE]
           m == NewMachine(id, n, s, st, c)
<1>2. id \in MachineId \ db.spent /\ c # NoValue
  BY FleetAssumption DEF Fresh
<1>3. x \in Machine
  <2>1. [base |-> n, copy |-> 0] \in MachineName
    BY FleetAssumption DEF MachineName
  <2> QED
    BY <1>2, <2>1 DEF Machine
<1>4. m = CredentialColumns(x)
  BY DEF NewMachine
<1>5. x.id = id /\ x.storage = st /\ x.credentialRef = c /\ x.encryptedCredential = c
  OBVIOUS
<1> HIDE DEF x, m
<1>6. m \in Machine /\ m.id = id /\ CredentialShape(m)
  BY <1>2, <1>3, <1>4, <1>5 DEF CredentialColumns, CredentialShape, Machine
<1>7. ~NameTaken(m.name) /\ InsertMachine(m)
  BY <1>1 DEF m
<1>8. CatalogStep /\ ArchivedStays
  BY <1>2, <1>6, <1>7, InsertMachineStep DEF CatalogInv, CatalogTypeOK
<1> QED
  BY <1>8, WritesStep DEF CreateMachine

\* DuplicateMachineService, an attempt at a name.
LEMMA DuplicateAttemptStep ==
    ASSUME CatalogInv, NEW q \in Request, DuplicateMachineAttempt(q)
    PROVE  Keeps(q) /\ request[q].op = "duplicateMachine" /\ ArchivedStays
<1>1. PICK r : r = request[q]
  OBVIOUS
<1>2. r.op = "duplicateMachine" /\ UnchangedButDb
  BY <1>1 DEF DuplicateMachineAttempt
<1>3. r \in DuplicateRec /\ MachineCopyOK(r.copy)
  BY <1>1, <1>2, MachineCopied DEF CatalogInv, RequestsOK, RequestOK, MachineOps
<1>4. r.copy \in Machine /\ r.given \in Name /\ r.attempt \in 0..MaxDuplicateNameAttempts
  BY <1>3 DEF DuplicateRec
<1>5. DuplicateName(r) \in MachineName
  BY <1>4, FleetAssumption DEF DuplicateName, MachineName, Machine
<1>6. WellFormed(db)
  BY DEF CatalogInv, CatalogTypeOK
<1>7. ASSUME ~NameTaken(DuplicateName(r)), NEW id \in Fresh(MachineId),
             InsertMachine([r.copy EXCEPT !.id = id, !.name = DuplicateName(r),
                            !.connection = "unknown", !.archived = FALSE]),
             AnswersAfter(q, "duplicateMachine")
      PROVE  Keeps(q) /\ ArchivedStays
  <2> DEFINE x == [r.copy EXCEPT !.id = id, !.name = DuplicateName(r),
                   !.connection = "unknown", !.archived = FALSE]
  <2>1. id \in MachineId \ db.spent
    BY DEF Fresh
  <2>2. /\ x \in Machine /\ x.id = id /\ x.name = DuplicateName(r)
        /\ x.storage = r.copy.storage /\ x.credentialRef = r.copy.credentialRef
        /\ x.encryptedCredential = r.copy.encryptedCredential
    BY <1>4, <1>5, <2>1 DEF Machine
  <2>3. InsertMachine(x)
    BY <1>7
  <2> HIDE DEF x
  <2>4. CredentialShape(x)
    BY <1>3, <2>2 DEF MachineCopyOK, CredentialShape
  <2>5. CatalogStep /\ ArchivedStays
    BY <1>6, <1>7, <2>1, <2>2, <2>3, <2>4, InsertMachineStep
  <2> QED
    BY <1>2, <1>7, <2>5, AnswersStep
<1>8. ASSUME NEW s, Continues(q, "duplicateMachine", s), UNCHANGED db,
             s = IF r.attempt \in 1..(MaxDuplicateNameAttempts - 1)
                 THEN [r EXCEPT !.attempt = @ + 1] ELSE Ended
      PROVE  Keeps(q) /\ ArchivedStays
  <2>1. CatalogStep
    BY <1>6, <1>8, DatabaseSame
  <2>2. ArchivedStays
    BY <1>6, <1>8 DEF ArchivedStays, WellFormed, Machines
  <2>3. RequestOK(s) /\ CopyOK(s)
    <3>1. CASE s = Ended
      BY <3>1, EndedIsOK
    <3>2. CASE r.attempt \in 1..(MaxDuplicateNameAttempts - 1)
      <4>1. r.attempt + 1 \in 0..MaxDuplicateNameAttempts
        BY <3>2, FleetAssumption
      <4>2. s \in DuplicateRec /\ s.op = "duplicateMachine" /\ s.copy = r.copy
        BY <1>3, <1>8, <3>2, <4>1 DEF DuplicateRec
      <4> QED
        BY <1>3, <4>2 DEF RequestOK, CopyOK
    <3> QED
      BY <1>8, <3>1, <3>2
  <2>4. CopyOK(s)'
    BY <2>1, <2>3, CopyStays
  <2> QED
    BY <1>2, <1>8, <2>1, <2>2, <2>3, <2>4, ContinueStep DEF UnchangedButDb
<1> QED
  BY <1>1, <1>2, <1>7, <1>8 DEF DuplicateMachineAttempt

\* Every request about machines: none but unarchiving brings a machine back.
LEMMA MachineRequestStep ==
    ASSUME CatalogInv, NEW q \in Request, MachineRequest(q)
    PROVE  Keeps(q) /\ request[q].op # "syncing" /\ (ArchivedStays \/ UnarchiveMachine(q))
<1>1. WellFormed(db)
  BY DEF CatalogInv, CatalogTypeOK
<1>2. UNCHANGED db => ArchivedStays
  BY <1>1 DEF ArchivedStays, WellFormed, Machines
<1>3. CASE UpdateMachineLoad(q)
  BY <1>2, <1>3, MachineLoadStep DEF UpdateMachineLoad
<1>4. CASE CheckConnectionLoad(q)
  BY <1>2, <1>4, MachineLoadStep DEF CheckConnectionLoad
<1>5. CASE DuplicateMachineLoad(q)
  BY <1>2, <1>5, DuplicateLoadStep DEF DuplicateMachineLoad
<1>6. CASE ArchiveMachine(q)
  BY <1>1, <1>6, ArchiveRowStep, WritesStep DEF ArchiveMachine, ArchiveRow
<1>7. CASE UnarchiveMachine(q)
  BY <1>1, <1>7, ArchiveRowStep, WritesStep DEF UnarchiveMachine, UnarchiveRow
<1>8. CASE DeleteMachine(q)
  BY <1>1, <1>8, DeleteMachineRowStep, WritesStep DEF DeleteMachine
<1> QED
  BY <1>3, <1>4, <1>5, <1>6, <1>7, <1>8, CreateMachineStep, UpdateMachineSaveStep,
     CheckConnectionSaveStep, DuplicateAttemptStep DEF MachineRequest

-----------------------------------------------------------------------------
(* Networks, volumes and links.                                             *)

\* Nothing changes but networks, volumes and links.
OtherTables ==
    /\ db'.machines = db.machines /\ db'.files = db.files
    /\ db'.variables = db.variables /\ db'.spent = db.spent

\* The tables when only networks, volumes and links change.
LEMMA LinksOnly ==
    ASSUME WellFormed(db), db' \in Database, Links(db)', OtherTables
    PROVE  CatalogStep /\ ArchivedStays
<1>1. MachineStep /\ FileStep /\ VariableStep /\ SpentStep
  BY MachinesSame, FilesSame, VariablesSame, SpentSame DEF OtherTables
<1>2. LinkStep
  BY DEF Database, LinkStep
<1>3. ArchivedStays
  BY DEF ArchivedStays, WellFormed, Machines, OtherTables
<1> QED
  BY <1>1, <1>2, <1>3 DEF CatalogStep

\* Networks are created with new names, and take their links with them.
LEMMA NetworkRequestStep ==
    ASSUME CatalogInv, NEW q \in Request,
           \/ CreateNetwork(q) \/ DeleteNetwork(q) \/ AttachNetwork(q) \/ DetachNetwork(q)
    PROVE  Keeps(q) /\ request[q].op = "idle" /\ ArchivedStays
<1>1. WellFormed(db) /\ db \in Database /\ Links(db) /\ db.files \subseteq ComposeFile
  BY DEF CatalogInv, CatalogTypeOK, WellFormed, Database
<1>2. db' \in Database /\ OtherTables /\ Links(db)'
  <2>1. CASE CreateNetwork(q)
    <3>1. PICK n \in Network : InsertNetwork(n)
      BY <2>1 DEF CreateNetwork
    <3>2. /\ db' \in Database /\ OtherTables /\ db'.volumes = db.volumes
          /\ db'.networks = db.networks \cup {n} /\ db'.volumeLinks = db.volumeLinks
          /\ db'.networkLinks = db.networkLinks
      BY <1>1, <3>1 DEF Database, ComposeFile, OtherTables, InsertNetwork
    <3> QED
      BY <1>1, <3>2 DEF Links
  <2>2. CASE DeleteNetwork(q)
    <3>1. PICK n \in db.networks : DeleteNetworkRow(n)
      BY <2>2 DEF DeleteNetwork
    <3>2. /\ db' \in Database /\ OtherTables /\ db'.volumes = db.volumes
          /\ db'.networks = db.networks \ {n} /\ db'.volumeLinks = db.volumeLinks
          /\ db'.networkLinks = {l \in db.networkLinks : l[2] # n}
      BY <1>1, <3>1 DEF Database, ComposeFile, OtherTables, DeleteNetworkRow
    <3> QED
      BY <1>1, <3>2 DEF Links
  <2>3. CASE AttachNetwork(q)
    <3>1. PICK f \in db.files, n \in db.networks : InsertNetworkLink(f.id, n)
      BY <2>3 DEF AttachNetwork
    <3>2. /\ db' \in Database /\ OtherTables /\ db'.volumes = db.volumes
          /\ db'.networks = db.networks /\ db'.volumeLinks = db.volumeLinks
          /\ db'.networkLinks = db.networkLinks \cup {<<f.id, n>>}
      BY <1>1, <3>1 DEF Database, ComposeFile, OtherTables, InsertNetworkLink
    <3> QED
      BY <1>1, <3>2 DEF Links
  <2>4. CASE DetachNetwork(q)
    <3>1. PICK l \in db.networkLinks : DeleteNetworkLink(l)
      BY <2>4 DEF DetachNetwork
    <3>2. /\ db' \in Database /\ OtherTables /\ db'.volumes = db.volumes
          /\ db'.networks = db.networks /\ db'.volumeLinks = db.volumeLinks
          /\ db'.networkLinks = db.networkLinks \ {l}
      BY <1>1, <3>1 DEF Database, ComposeFile, OtherTables, DeleteNetworkLink
    <3> QED
      BY <1>1, <3>2 DEF Links
  <2> QED
    BY <2>1, <2>2, <2>3, <2>4
<1>3. Writes(q)
  BY DEF CreateNetwork, DeleteNetwork, AttachNetwork, DetachNetwork
<1> QED
  BY <1>1, <1>2, <1>3, LinksOnly, WritesStep

\* Volumes are created with new names, and take their links with them.
LEMMA VolumeRequestStep ==
    ASSUME CatalogInv, NEW q \in Request,
           \/ CreateVolume(q) \/ DeleteVolume(q) \/ AttachVolume(q) \/ DetachVolume(q)
    PROVE  Keeps(q) /\ request[q].op = "idle" /\ ArchivedStays
<1>1. WellFormed(db) /\ db \in Database /\ Links(db) /\ db.files \subseteq ComposeFile
  BY DEF CatalogInv, CatalogTypeOK, WellFormed, Database
<1>2. db' \in Database /\ OtherTables /\ Links(db)'
  <2>1. CASE CreateVolume(q)
    <3>1. PICK v \in Volume : InsertVolume(v)
      BY <2>1 DEF CreateVolume
    <3>2. /\ db' \in Database /\ OtherTables /\ db'.networks = db.networks
          /\ db'.volumes = db.volumes \cup {v} /\ db'.networkLinks = db.networkLinks
          /\ db'.volumeLinks = db.volumeLinks
      BY <1>1, <3>1 DEF Database, ComposeFile, OtherTables, InsertVolume
    <3> QED
      BY <1>1, <3>2 DEF Links
  <2>2. CASE DeleteVolume(q)
    <3>1. PICK v \in db.volumes : DeleteVolumeRow(v)
      BY <2>2 DEF DeleteVolume
    <3>2. /\ db' \in Database /\ OtherTables /\ db'.networks = db.networks
          /\ db'.volumes = db.volumes \ {v} /\ db'.networkLinks = db.networkLinks
          /\ db'.volumeLinks = {l \in db.volumeLinks : l[2] # v}
      BY <1>1, <3>1 DEF Database, ComposeFile, OtherTables, DeleteVolumeRow
    <3> QED
      BY <1>1, <3>2 DEF Links
  <2>3. CASE AttachVolume(q)
    <3>1. PICK f \in db.files, v \in db.volumes : InsertVolumeLink(f.id, v)
      BY <2>3 DEF AttachVolume
    <3>2. /\ db' \in Database /\ OtherTables /\ db'.networks = db.networks
          /\ db'.volumes = db.volumes /\ db'.networkLinks = db.networkLinks
          /\ db'.volumeLinks = db.volumeLinks \cup {<<f.id, v>>}
      BY <1>1, <3>1 DEF Database, ComposeFile, OtherTables, InsertVolumeLink
    <3> QED
      BY <1>1, <3>2 DEF Links
  <2>4. CASE DetachVolume(q)
    <3>1. PICK l \in db.volumeLinks : DeleteVolumeLink(l)
      BY <2>4 DEF DetachVolume
    <3>2. /\ db' \in Database /\ OtherTables /\ db'.networks = db.networks
          /\ db'.volumes = db.volumes /\ db'.networkLinks = db.networkLinks
          /\ db'.volumeLinks = db.volumeLinks \ {l}
      BY <1>1, <3>1 DEF Database, ComposeFile, OtherTables, DeleteVolumeLink
    <3> QED
      BY <1>1, <3>2 DEF Links
  <2> QED
    BY <2>1, <2>2, <2>3, <2>4
<1>3. Writes(q)
  BY DEF CreateVolume, DeleteVolume, AttachVolume, DetachVolume
<1> QED
  BY <1>1, <1>2, <1>3, LinksOnly, WritesStep

\* The links to projects.
LEMMA ProjectRequestStep ==
    ASSUME CatalogInv, NEW q \in Request, AttachProject(q) \/ DetachProject(q)
    PROVE  Keeps(q) /\ request[q].op = "idle" /\ ArchivedStays
<1>1. WellFormed(db) /\ db \in Database /\ Links(db) /\ db.files \subseteq ComposeFile
  BY DEF CatalogInv, CatalogTypeOK, WellFormed, Database
<1>2. PICK S \in SUBSET (FileId \X Project) : db' = [db EXCEPT !.projectLinks = S]
  <2>1. CASE AttachProject(q)
    <3>1. PICK f \in db.files, p \in Project : InsertProjectLink(f.id, p)
      BY <2>1 DEF AttachProject
    <3> DEFINE S == db.projectLinks \cup {<<f.id, p>>}
    <3>2. S \in SUBSET (FileId \X Project)
      BY <1>1 DEF Database, ComposeFile
    <3>3. db' = [db EXCEPT !.projectLinks = S]
      BY <3>1 DEF InsertProjectLink
    <3> HIDE DEF S
    <3> QED
      BY <3>2, <3>3
  <2>2. CASE DetachProject(q)
    <3>1. PICK l \in db.projectLinks : DeleteProjectLink(l)
      BY <2>2 DEF DetachProject
    <3> DEFINE S == db.projectLinks \ {l}
    <3>2. S \in SUBSET (FileId \X Project)
      BY <1>1 DEF Database
    <3>3. db' = [db EXCEPT !.projectLinks = S]
      BY <3>1 DEF DeleteProjectLink
    <3> HIDE DEF S
    <3> QED
      BY <3>2, <3>3
  <2> QED
    BY <2>1, <2>2
<1>3. /\ db' \in Database /\ OtherTables
      /\ db'.networks = db.networks /\ db'.networkLinks = db.networkLinks
      /\ db'.volumes = db.volumes /\ db'.volumeLinks = db.volumeLinks
  BY <1>1, <1>2 DEF Database, OtherTables
<1>4. Links(db)'
  BY <1>1, <1>3 DEF Links
<1>5. Writes(q)
  BY DEF AttachProject, DetachProject
<1> QED
  BY <1>1, <1>3, <1>4, <1>5, LinksOnly, WritesStep

\* Every request about networks, volumes and links.
LEMMA LinkRequestStep ==
    ASSUME CatalogInv, NEW q \in Request, LinkRequest(q)
    PROVE  Keeps(q) /\ request[q].op # "syncing" /\ ArchivedStays
BY NetworkRequestStep, VolumeRequestStep, ProjectRequestStep DEF LinkRequest

-----------------------------------------------------------------------------
(* Variables.                                                               *)

\* No variable of another type than env is touched.
OtherTypesStay == \A v \in db.variables : v.type # "env" => v \in db'.variables

\* The tables when only the variables, and the ids that are drawn, change.
LEMMA VariablesOnly ==
    ASSUME WellFormed(db), db' \in Database, VariableStep, db.spent \subseteq db'.spent,
           db'.machines = db.machines, db'.files = db.files,
           db'.networks = db.networks, db'.volumes = db.volumes,
           db'.networkLinks = db.networkLinks, db'.volumeLinks = db.volumeLinks,
           db'.projectLinks = db.projectLinks
    PROVE  CatalogStep /\ ArchivedStays
<1>1. MachineStep /\ FileStep /\ LinkStep
  BY MachinesSame, FilesSame, LinksSame
<1>2. SpentStep
  BY DEF SpentStep, Database
<1>3. ArchivedStays
  BY DEF ArchivedStays, WellFormed, Machines
<1> QED
  BY <1>1, <1>2, <1>3 DEF CatalogStep

\* VariableRepository.Create, given a key that is free and an id that is new.
LEMMA InsertVariableStep ==
    ASSUME WellFormed(db), NEW v \in Variable, VariableShape(v),
           v.id \in VariableId \ db.spent, ~KeyTaken(v.file, v.key), InsertVariable(v)
    PROVE  CatalogStep /\ ArchivedStays /\ OtherTypesStay
<1>1. db \in Database /\ Variables(db) /\ db.variables \subseteq Variable
  BY DEF WellFormed, Database
<1>2. /\ db'.machines = db.machines /\ db'.files = db.files
      /\ db'.networks = db.networks /\ db'.volumes = db.volumes
      /\ db'.networkLinks = db.networkLinks /\ db'.volumeLinks = db.volumeLinks
      /\ db'.projectLinks = db.projectLinks
      /\ db'.variables = db.variables \cup {v} /\ db'.spent = db.spent \cup {v.id}
  BY <1>1 DEF Database, InsertVariable
<1>3. db' \in Database
  BY <1>1 DEF Database, InsertVariable
<1>4. Variables(db)'
  BY <1>1, <1>2 DEF Variables, KeyTaken
<1>5. VariableStep
  BY <1>1, <1>2, <1>4 DEF VariableStep
<1>6. OtherTypesStay
  BY <1>2 DEF OtherTypesStay
<1> QED
  BY <1>2, <1>3, <1>5, <1>6, VariablesOnly

\* VariableRepository.Update, given a copy that is good.
LEMMA UpdateVariableRowStep ==
    ASSUME WellFormed(db), NEW c \in Variable, VariableShape(c),
           \A v \in db.variables : v.id = c.id => v.type = c.type, UpdateVariableRow(c)
    PROVE  CatalogStep /\ ArchivedStays /\ (c.type = "env" => OtherTypesStay)
<1> DEFINE x(v) == [v EXCEPT !.value = c.value, !.secretRef = c.secretRef,
                              !.target = c.target]
           S == {IF v.id = c.id THEN x(v) ELSE v : v \in db.variables}
<1>1. db \in Database /\ Variables(db) /\ db.variables \subseteq Variable
  BY DEF WellFormed, Database
<1>2. ASSUME NEW v \in db.variables
      PROVE  /\ x(v) \in Variable /\ x(v).id = v.id /\ x(v).file = v.file
             /\ x(v).key = v.key /\ x(v).type = v.type /\ x(v).secretRef = c.secretRef
             /\ x(v).target = c.target
  BY <1>1 DEF Variable
<1>3. db' = [db EXCEPT !.variables = S]
  BY DEF UpdateVariableRow
<1>4. \A v \in db.variables : IF v.id = c.id THEN x(v) \in S ELSE v \in S
  OBVIOUS
<1>5. ASSUME NEW w \in S
      PROVE  \E v \in db.variables : w = IF v.id = c.id THEN x(v) ELSE v
  BY <1>5
<1> HIDE DEF x, S
<1>6. ASSUME NEW w \in S
      PROVE  \E v \in db.variables :
               /\ w = IF v.id = c.id THEN x(v) ELSE v
               /\ v.id = w.id /\ v.type = w.type /\ v.file = w.file /\ v.key = w.key
               /\ w \in Variable /\ VariableShape(w)
  <2>1. PICK v \in db.variables : w = IF v.id = c.id THEN x(v) ELSE v
    BY <1>5
  <2> QED
    BY <1>1, <1>2, <2>1 DEF Variables, VariableShape
<1>7. S \subseteq Variable
  BY <1>6
<1>8. /\ db'.machines = db.machines /\ db'.files = db.files
      /\ db'.networks = db.networks /\ db'.volumes = db.volumes
      /\ db'.networkLinks = db.networkLinks /\ db'.volumeLinks = db.volumeLinks
      /\ db'.projectLinks = db.projectLinks /\ db'.variables = S /\ db'.spent = db.spent
  BY <1>1, <1>3 DEF Database
<1>9. db' \in Database
  BY <1>1, <1>3, <1>7 DEF Database
<1>10. Variables(db)'
  <2>1. \A w \in S : VariableShape(w) /\ w.id \in db.spent
    BY <1>1, <1>6 DEF Variables
  <2>2. ASSUME NEW w \in S, NEW y \in S, w.id = y.id \/ (w.file = y.file /\ w.key = y.key)
        PROVE  w = y
    <3>1. PICK v \in db.variables : /\ w = IF v.id = c.id THEN x(v) ELSE v
                                    /\ v.id = w.id /\ v.file = w.file /\ v.key = w.key
      BY <1>6
    <3>2. PICK u \in db.variables : /\ y = IF u.id = c.id THEN x(u) ELSE u
                                    /\ u.id = y.id /\ u.file = y.file /\ u.key = y.key
      BY <1>6
    <3>3. v = u
      BY <1>1, <2>2, <3>1, <3>2 DEF Variables
    <3> QED
      BY <3>1, <3>2, <3>3
  <2> QED
    BY <1>8, <2>1, <2>2 DEF Variables
<1>11. VariableStep
  BY <1>6, <1>7, <1>8, <1>10 DEF VariableStep
<1>12. c.type = "env" => OtherTypesStay
  BY <1>4, <1>8 DEF OtherTypesStay
<1> QED
  BY <1>8, <1>9, <1>11, <1>12, VariablesOnly

\* A variable goes.
LEMMA DeleteVariableStep ==
    ASSUME CatalogInv, NEW q \in Request, DeleteVariable(q)
    PROVE  Keeps(q) /\ request[q].op = "idle" /\ ArchivedStays
<1>1. WellFormed(db) /\ db \in Database /\ Variables(db) /\ db.variables \subseteq Variable
  BY DEF CatalogInv, CatalogTypeOK, WellFormed, Database
<1>2. PICK v \in db.variables : DeleteVariableRow(v)
  BY DEF DeleteVariable
<1>3. /\ db'.machines = db.machines /\ db'.files = db.files
      /\ db'.networks = db.networks /\ db'.volumes = db.volumes
      /\ db'.networkLinks = db.networkLinks /\ db'.volumeLinks = db.volumeLinks
      /\ db'.projectLinks = db.projectLinks /\ db'.variables = db.variables \ {v}
      /\ db'.spent = db.spent
  BY <1>1, <1>2 DEF Database, DeleteVariableRow
<1>4. db' \in Database
  BY <1>1, <1>2 DEF Database, DeleteVariableRow
<1>5. Variables(db)'
  BY <1>1, <1>3 DEF Variables
<1>6. VariableStep
  BY <1>1, <1>3, <1>5 DEF VariableStep
<1>7. CatalogStep /\ ArchivedStays
  BY <1>1, <1>3, <1>4, <1>6, VariablesOnly
<1> QED
  BY <1>7, WritesStep DEF DeleteVariable

\* CreateVariableService, of a plain value or of a reference to a secret.
LEMMA CreateVariableStep ==
    ASSUME CatalogInv, NEW q \in Request, CreateVariable(q) \/ CreateSecretReference(q)
    PROVE  Keeps(q) /\ request[q].op = "idle" /\ ArchivedStays
<1>1. WellFormed(db) /\ db.files \subseteq ComposeFile
  BY DEF CatalogInv, CatalogTypeOK, WellFormed, Database
<1>2. CASE CreateVariable(q)
  <2>1. PICK id \in Fresh(VariableId), f \in db.files, k \in Key, x \in Value,
             t \in {"kv", "env", "file_template"}, path \in Target \cup {NoValue} :
          /\ (t = "file_template") <=> (path # NoValue)
          /\ ~KeyTaken(f.id, k)
          /\ InsertVariable([id |-> id, file |-> f.id, key |-> k, type |-> t,
                             value |-> x, secretRef |-> NoValue, target |-> path])
    BY <1>2 DEF CreateVariable
  <2> DEFINE v == [id |-> id, file |-> f.id, key |-> k, type |-> t,
                   value |-> x, secretRef |-> NoValue, target |-> path]
  <2>2. id \in VariableId \ db.spent /\ f.id \in FileId
    BY <1>1 DEF Fresh, ComposeFile
  <2>3. v \in Variable
    BY <2>2 DEF Variable, VarType
  <2>4. v.id = id /\ v.file = f.id /\ v.key = k /\ VariableShape(v)
    BY <2>1 DEF VariableShape
  <2>5. ~KeyTaken(v.file, v.key) /\ InsertVariable(v)
    BY <2>1
  <2> HIDE DEF v
  <2>6. CatalogStep /\ ArchivedStays
    BY <1>1, <2>2, <2>3, <2>4, <2>5, InsertVariableStep
  <2> QED
    BY <1>2, <2>6, WritesStep DEF CreateVariable
<1>3. CASE CreateSecretReference(q)
  <2>1. PICK id \in Fresh(VariableId), f \in db.files, k \in Key, p \in Path :
          ~KeyTaken(f.id, k) /\ InsertVariable(SecretVariable(id, f.id, k, p))
    BY <1>3 DEF CreateSecretReference
  <2> DEFINE v == SecretVariable(id, f.id, k, p)
  <2>2. id \in VariableId \ db.spent /\ f.id \in FileId
    BY <1>1 DEF Fresh, ComposeFile
  <2>3. p # NoValue
    BY FleetAssumption
  <2>4. v \in Variable
    BY <2>2 DEF Variable, VarType, SecretVariable
  <2>5. v.id = id /\ v.file = f.id /\ v.key = k /\ VariableShape(v)
    BY <2>3 DEF SecretVariable, VariableShape
  <2>6. ~KeyTaken(v.file, v.key) /\ InsertVariable(v)
    BY <2>1, <2>5
  <2> HIDE DEF v
  <2>7. CatalogStep /\ ArchivedStays
    BY <1>1, <2>2, <2>4, <2>5, <2>6, InsertVariableStep
  <2> QED
    BY <1>3, <2>7, WritesStep DEF CreateSecretReference
<1> QED
  BY <1>2, <1>3

\* A set of ids that is not empty has a least one.
LEMMA MinIsMember ==
    ASSUME NEW S \in SUBSET Nat, S # {}
    PROVE  Min(S) \in S
<1>1. PICK x \in S : \A y \in S : ~(<<y, x>> \in OpToRel(<, Nat))
  BY WFMin, NatLessThanWellFounded
<1>2. ASSUME NEW y \in S
      PROVE  x <= y
  <2>1. <<y, x>> \in Nat \X Nat
    OBVIOUS
  <2>2. ~(y < x)
    BY <1>1, <2>1 DEF OpToRel
  <2> QED
    BY <2>2
<1> QED
  BY <1>2 DEF Min

\* CreateSecretVariableService, its first transaction.
LEMMA CreateSecretLoadStep ==
    ASSUME CatalogInv, NEW q \in Request, CreateSecretLoad(q)
    PROVE  Keeps(q) /\ request[q].op = "idle"
<1>1. PICK f \in db.files, k \in Key, x \in Value :
        /\ ProjectsOf(f.id) # {}
        /\ Starts(q, [op |-> "writeSecret", file |-> f.id, key |-> k,
                      value |-> x, toWrite |-> ProjectsOf(f.id),
                      canonical |-> <<Min(ProjectsOf(f.id)), f.id, k>>])
  BY DEF CreateSecretLoad
<1>2. WellFormed(db) /\ f.id \in FileId /\ db.projectLinks \subseteq FileId \X Project
  BY DEF CatalogInv, CatalogTypeOK, WellFormed, Database, ComposeFile
<1>3. ProjectsOf(f.id) \subseteq Project
  BY <1>2 DEF ProjectsOf, Linked
<1>4. PICK P \in SUBSET Project : P = ProjectsOf(f.id)
  BY <1>3
<1>5. Min(P) \in Project
  <2>1. P \in SUBSET Nat /\ P # {}
    BY <1>1, <1>4, FleetAssumption
  <2> QED
    BY <2>1, MinIsMember
<1>6. PICK c \in Path : c = <<Min(P), f.id, k>>
  BY <1>2, <1>5 DEF Path
<1>7. PICK r : r = [op |-> "writeSecret", file |-> f.id, key |-> k, value |-> x,
                    toWrite |-> P, canonical |-> c]
  OBVIOUS
<1>8. RequestOK(r)
  BY <1>2, <1>7 DEF RequestOK, SecretRec
<1>9. CopyOK(r)'
  BY <1>7 DEF CopyOK, MachineOps
<1>10. CatalogStep
  BY <1>2, DatabaseSame DEF CreateSecretLoad
<1>11. Starts(q, r)
  BY <1>1, <1>4, <1>6, <1>7
<1> QED
  BY <1>8, <1>9, <1>10, <1>11, StartStep DEF CreateSecretLoad

\* CreateSecretVariableService, a value written to the vault.
LEMMA WriteSecretStep ==
    ASSUME CatalogInv, NEW q \in Request, WriteSecret(q)
    PROVE  Keeps(q) /\ request[q].op = "writeSecret"
<1>1. PICK r, p : r = request[q] /\ p = Min(r.toWrite)
  OBVIOUS
<1>2. /\ r.op = "writeSecret" /\ UNCHANGED <<db, operations>>
      /\ vault' = [vault EXCEPT ![<<p, r.file, r.key>>] = r.value]
  BY <1>1 DEF WriteSecret
<1>3. PICK s : /\ Continues(q, "writeSecret", s)
               /\ s = IF r.toWrite = {p} THEN [r EXCEPT !.op = "insertSecret"]
                      ELSE [r EXCEPT !.toWrite = r.toWrite \ {p}]
  BY <1>1 DEF WriteSecret
<1>4. r \in SecretRec
  BY <1>1, <1>2 DEF CatalogInv, RequestsOK, RequestOK
<1>5. s \in SecretRec
  BY <1>3, <1>4 DEF SecretRec
<1>6. RequestOK(s) /\ CopyOK(s)'
  BY <1>5 DEF RequestOK, CopyOK, MachineOps, SecretRec
<1>7. CatalogStep
  BY <1>2, DatabaseSame DEF CatalogInv, CatalogTypeOK
<1>8. /\ vault' \in [Path -> Value \cup {NoValue}]
      /\ operations' \in [OperationId -> Operation]
  BY <1>2, <1>4 DEF SecretRec, CatalogInv, CatalogTypeOK
<1>9. Moves(q, s)
  BY <1>3, ContinuesMoves DEF CatalogInv
<1>10. CatalogInv'
  BY <1>6, <1>7, <1>8, <1>9, RequestStep
<1> QED
  BY <1>1, <1>2, <1>7, <1>9, <1>10 DEF Keeps, Moves

\* CreateSecretVariableService, the row.
LEMMA CreateSecretInsertStep ==
    ASSUME CatalogInv, NEW q \in Request, CreateSecretInsert(q)
    PROVE  Keeps(q) /\ request[q].op = "insertSecret" /\ ArchivedStays
<1>1. PICK r : r = request[q]
  OBVIOUS
<1>2. AnswersAfter(q, "insertSecret") /\ UnchangedButDb /\ r.op = "insertSecret"
  BY <1>1 DEF CreateSecretInsert, AnswersAfter, Continues
<1>3. r \in SecretRec
  BY <1>1, <1>2 DEF CatalogInv, RequestsOK, RequestOK
<1>4. WellFormed(db)
  BY DEF CatalogInv, CatalogTypeOK
<1>5. CatalogStep /\ ArchivedStays
  <2>1. CASE UNCHANGED db
    BY <1>4, <2>1, DatabaseSame DEF ArchivedStays, WellFormed, Machines
  <2>2. ASSUME NEW id \in Fresh(VariableId), ~KeyTaken(r.file, r.key),
               InsertVariable(SecretVariable(id, r.file, r.key, r.canonical))
        PROVE  CatalogStep /\ ArchivedStays
    <3> DEFINE v == SecretVariable(id, r.file, r.key, r.canonical)
    <3>1. id \in VariableId \ db.spent
      BY DEF Fresh
    <3>2. v \in Variable
      BY <1>3, <3>1 DEF Variable, VarType, SecretVariable, SecretRec
    <3>3. r.canonical # NoValue
      BY <1>3, FleetAssumption DEF SecretRec
    <3>4. v.id = id /\ v.file = r.file /\ v.key = r.key /\ VariableShape(v)
      BY <3>3 DEF SecretVariable, VariableShape
    <3>5. ~KeyTaken(v.file, v.key) /\ InsertVariable(v)
      BY <2>2, <3>4
    <3> HIDE DEF v
    <3> QED
      BY <1>4, <3>1, <3>2, <3>4, <3>5, InsertVariableStep
  <2> QED
    BY <1>1, <2>1, <2>2 DEF CreateSecretInsert
<1> QED
  BY <1>2, <1>5, AnswersStep

\* UpdateVariableService, its first transaction.
LEMMA UpdateVariableLoadStep ==
    ASSUME CatalogInv, NEW q \in Request, UpdateVariableLoad(q)
    PROVE  Keeps(q) /\ request[q].op = "idle"
<1>1. PICK v \in db.variables : Starts(q, [op |-> "updateVariable", copy |-> v])
  BY DEF UpdateVariableLoad
<1> DEFINE r == [op |-> "updateVariable", copy |-> v]
<1>2. CatalogStep
  BY DatabaseSame DEF CatalogInv, CatalogTypeOK, UpdateVariableLoad
<1>3. v \in Variable /\ VariableCopyOK(v)
  BY DEF CatalogInv, CatalogTypeOK, WellFormed, Database, Variables, VariableCopyOK
<1>4. RequestOK(r)
  BY <1>3 DEF RequestOK, VariableRec
<1>5. CopyOK(r)
  BY <1>3 DEF CopyOK, MachineOps
<1>6. CopyOK(r)'
  BY <1>2, <1>5, CopyStays
<1> QED
  BY <1>1, <1>2, <1>4, <1>6, StartStep DEF UpdateVariableLoad

\* UpdateVariableService, its second transaction.
LEMMA UpdateVariableSaveStep ==
    ASSUME CatalogInv, NEW q \in Request, UpdateVariableSave(q)
    PROVE  Keeps(q) /\ request[q].op = "updateVariable" /\ ArchivedStays
<1>1. PICK r : r = request[q]
  OBVIOUS
<1>2. AnswersAfter(q, "updateVariable") /\ UnchangedButDb /\ r.op = "updateVariable"
  BY <1>1 DEF UpdateVariableSave, AnswersAfter, Continues
<1>3. r \in VariableRec /\ CopyOK(r)
  BY <1>1, <1>2 DEF CatalogInv, RequestsOK, RequestOK, CopiesOK
<1>4. PICK v \in Variable : v = r.copy /\ VariableCopyOK(v)
  BY <1>2, <1>3 DEF VariableRec, CopyOK
<1>5. PICK c : /\ UpdateVariableRow(c)
               /\ \/ v.type = "secret" /\ \E p \in Path : c = [v EXCEPT !.secretRef = p]
                  \/ /\ v.type # "secret"
                     /\ \E x \in Value, path \in Target \cup {NoValue} :
                           /\ v.type = "file_template" => path \in Target
                           /\ c = [v EXCEPT !.value = x, !.target = path]
  BY <1>1, <1>4 DEF UpdateVariableSave, Variable
<1>6. c \in Variable /\ c.type = v.type /\ c.id = v.id /\ VariableShape(c)
  <2>1. VariableShape(v)
    BY <1>4 DEF VariableCopyOK
  <2>2. ASSUME NEW p \in Path, v.type = "secret", c = [v EXCEPT !.secretRef = p]
        PROVE  c \in Variable /\ c.type = v.type /\ c.id = v.id /\ VariableShape(c)
    <3>1. /\ c \in Variable /\ c.type = v.type /\ c.id = v.id
          /\ c.secretRef = p /\ p # NoValue
      BY <2>2, FleetAssumption DEF Variable
    <3> QED
      BY <2>2, <3>1 DEF VariableShape
  <2>3. ASSUME NEW x \in Value, NEW path \in Target \cup {NoValue},
               v.type = "file_template" => path \in Target,
               v.type # "secret", c = [v EXCEPT !.value = x, !.target = path]
        PROVE  c \in Variable /\ c.type = v.type /\ c.id = v.id /\ VariableShape(c)
    <3>1. /\ c \in Variable /\ c.type = v.type /\ c.id = v.id
          /\ c.secretRef = v.secretRef /\ c.target = path
      BY <2>3 DEF Variable
    <3>2. v.type = "file_template" => path # NoValue
      BY <2>3, FleetAssumption
    <3> QED
      BY <2>1, <2>3, <3>1, <3>2 DEF VariableShape
  <2> QED
    BY <1>5, <2>2, <2>3
<1>7. \A w \in db.variables : w.id = c.id => w.type = c.type
  BY <1>4, <1>6 DEF VariableCopyOK
<1>8. CatalogStep /\ ArchivedStays
  BY <1>5, <1>6, <1>7, UpdateVariableRowStep DEF CatalogInv, CatalogTypeOK
<1> QED
  BY <1>2, <1>8, AnswersStep

\* Every request about variables.
LEMMA VariableRequestStep ==
    ASSUME CatalogInv, NEW q \in Request, VariableRequest(q)
    PROVE  Keeps(q) /\ request[q].op # "syncing" /\ ArchivedStays
<1>1. UNCHANGED db => ArchivedStays
  BY DEF ArchivedStays, CatalogInv, CatalogTypeOK, WellFormed, Machines
<1>2. CASE CreateSecretLoad(q)
  BY <1>1, <1>2, CreateSecretLoadStep DEF CreateSecretLoad
<1>3. CASE WriteSecret(q)
  BY <1>1, <1>3, WriteSecretStep DEF WriteSecret
<1>4. CASE UpdateVariableLoad(q)
  BY <1>1, <1>4, UpdateVariableLoadStep DEF UpdateVariableLoad
<1> QED
  BY <1>2, <1>3, <1>4, CreateVariableStep, CreateSecretInsertStep, UpdateVariableSaveStep,
     DeleteVariableStep DEF VariableRequest

-----------------------------------------------------------------------------
(* Compose files.                                                           *)

\* A compose file is created; its variables follow.
LEMMA CreateComposeFileStep ==
    ASSUME CatalogInv, NEW q \in Request, CreateComposeFile(q)
    PROVE  Keeps(q) /\ request[q].op = "idle" /\ ArchivedStays
<1>1. PICK id \in Fresh(FileId), g \in BOOLEAN, doc \in Content :
        /\ InsertComposeFile([id |-> id, isGlobal |-> g, content |-> doc])
        /\ Starts(q, Saved(id, doc))
  BY DEF CreateComposeFile
<1>2. PICK f \in ComposeFile : /\ f = [id |-> id, isGlobal |-> g, content |-> doc]
                               /\ f.id \in FileId \ db.spent
  <2> DEFINE x == [id |-> id, isGlobal |-> g, content |-> doc]
  <2>1. x \in ComposeFile /\ x.id \in FileId \ db.spent
    BY DEF Fresh, ComposeFile
  <2> QED
    BY <2>1
<1>3. InsertComposeFile(f)
  BY <1>1, <1>2
<1>4. WellFormed(db) /\ db \in Database /\ Files(db) /\ db.files \subseteq ComposeFile
  BY DEF CatalogInv, CatalogTypeOK, WellFormed, Database
<1>5. /\ db'.machines = db.machines /\ db'.files = db.files \cup {f}
      /\ db'.networks = db.networks /\ db'.volumes = db.volumes
      /\ db'.networkLinks = db.networkLinks /\ db'.volumeLinks = db.volumeLinks
      /\ db'.projectLinks = db.projectLinks
      /\ db'.variables = db.variables /\ db'.spent = db.spent \cup {f.id}
  BY <1>3, <1>4 DEF Database, InsertComposeFile
<1>6. db' \in Database
  BY <1>2, <1>3, <1>4 DEF Database, InsertComposeFile
<1>7. Files(db)'
  BY <1>2, <1>3, <1>4, <1>5 DEF Files, InsertComposeFile
<1>8. FileStep
  BY <1>4, <1>5, <1>7 DEF FileStep
<1>9. SpentStep
  BY <1>5, <1>6 DEF SpentStep, Database
<1>10. MachineStep /\ LinkStep /\ VariableStep
  BY <1>4, <1>5, MachinesSame, LinksSame, VariablesSame
<1>11. CatalogStep
  BY <1>6, <1>8, <1>9, <1>10 DEF CatalogStep
<1>12. ArchivedStays
  BY <1>4, <1>5 DEF ArchivedStays, WellFormed, Machines
<1>13. RequestOK(Saved(id, doc)) /\ CopyOK(Saved(id, doc))'
  BY <1>2 DEF RequestOK, CopyOK, MachineOps, Saved, SyncRec
<1> QED
  BY <1>1, <1>11, <1>12, <1>13, StartStep DEF CreateComposeFile, UnchangedButDb

\* A compose file is saved; its variables follow.
LEMMA UpdateContentStep ==
    ASSUME CatalogInv, NEW q \in Request, UpdateComposeFileContent(q)
    PROVE  Keeps(q) /\ request[q].op = "idle" /\ ArchivedStays
<1>1. PICK f \in db.files, doc \in Content : UpdateContentRow(f, doc) /\ Starts(q, Saved(f.id, doc))
  BY DEF UpdateComposeFileContent
<1>2. WellFormed(db) /\ db \in Database /\ Files(db) /\ db.files \subseteq ComposeFile
  BY DEF CatalogInv, CatalogTypeOK, WellFormed, Database
<1>3. PICK x : x = [f EXCEPT !.content = doc]
  OBVIOUS
<1>a. x \in ComposeFile /\ x.id = f.id /\ x.isGlobal = f.isGlobal
  BY <1>2, <1>3 DEF ComposeFile
<1>4. /\ db'.machines = db.machines /\ db'.files = (db.files \ {f}) \cup {x}
      /\ db'.networks = db.networks /\ db'.volumes = db.volumes
      /\ db'.networkLinks = db.networkLinks /\ db'.volumeLinks = db.volumeLinks
      /\ db'.projectLinks = db.projectLinks
      /\ db'.variables = db.variables /\ db'.spent = db.spent
  BY <1>1, <1>2, <1>3 DEF Database, UpdateContentRow, Changed
<1>5. db' \in Database
  BY <1>1, <1>2, <1>3, <1>a DEF Database, UpdateContentRow, Changed
<1>6. Files(db)'
  BY <1>2, <1>a, <1>4 DEF Files
<1>7. FileStep
  BY <1>2, <1>a, <1>4, <1>6 DEF FileStep
<1>8. MachineStep /\ LinkStep /\ VariableStep /\ SpentStep
  BY <1>2, <1>4, MachinesSame, LinksSame, VariablesSame, SpentSame
<1>9. CatalogStep
  BY <1>5, <1>7, <1>8 DEF CatalogStep
<1>10. ArchivedStays
  BY <1>2, <1>4 DEF ArchivedStays, WellFormed, Machines
<1>11. RequestOK(Saved(f.id, doc)) /\ CopyOK(Saved(f.id, doc))'
  BY <1>2 DEF RequestOK, CopyOK, MachineOps, Saved, SyncRec, ComposeFile
<1> QED
  BY <1>1, <1>9, <1>10, <1>11, StartStep DEF UpdateComposeFileContent, UnchangedButDb

\* A compose file without history may go, with its links and variables.
LEMMA DeleteComposeFileStep ==
    ASSUME CatalogInv, NEW q \in Request, DeleteComposeFile(q)
    PROVE  Keeps(q) /\ request[q].op = "idle" /\ ArchivedStays
<1>1. PICK f \in db.files : DeleteComposeFileRow(f)
  BY DEF DeleteComposeFile
<1>2. /\ WellFormed(db) /\ db \in Database /\ Files(db) /\ Links(db) /\ Variables(db)
      /\ db.files \subseteq ComposeFile /\ db.variables \subseteq Variable
  BY DEF CatalogInv, CatalogTypeOK, WellFormed, Database
<1>3. /\ db'.machines = db.machines /\ db'.files = db.files \ {f}
      /\ db'.networks = db.networks /\ db'.volumes = db.volumes
      /\ db'.networkLinks = {l \in db.networkLinks : l[1] # f.id}
      /\ db'.volumeLinks = {l \in db.volumeLinks : l[1] # f.id}
      /\ db'.projectLinks = {l \in db.projectLinks : l[1] # f.id}
      /\ db'.variables = {v \in db.variables : v.file # f.id} /\ db'.spent = db.spent
  BY <1>1, <1>2 DEF Database, DeleteComposeFileRow
<1>4. db' \in Database
  BY <1>1, <1>2 DEF Database, DeleteComposeFileRow
<1>5. Files(db)'
  BY <1>2, <1>3 DEF Files
<1>6. FileStep
  BY <1>1, <1>2, <1>3, <1>5 DEF FileStep, DeleteComposeFileRow
<1>7. Links(db)'
  BY <1>2, <1>3 DEF Links
<1>8. LinkStep
  BY <1>4, <1>7 DEF LinkStep, Database
<1>9. Variables(db)'
  BY <1>2, <1>3 DEF Variables
<1>10. VariableStep
  BY <1>2, <1>3, <1>9 DEF VariableStep
<1>11. CatalogStep
  BY <1>2, <1>3, <1>4, <1>6, <1>8, <1>10, MachinesSame, SpentSame DEF CatalogStep
<1>12. ArchivedStays
  BY <1>2, <1>3 DEF ArchivedStays, WellFormed, Machines
<1> QED
  BY <1>11, <1>12, WritesStep DEF DeleteComposeFile

\* syncEnvVariablesFromCompose, the scan and the read of the variables.
LEMMA SyncListStep ==
    ASSUME CatalogInv, NEW q \in Request, SyncList(q)
    PROVE  Keeps(q) /\ request[q].op = "sync"
<1>1. PICK r : r = request[q]
  OBVIOUS
<1>2. PICK found \in ScanComposeEnvironment(r.content) :
        Continues(q, "sync",
            IF DOMAIN found = {} THEN Ended
            ELSE [op |-> "syncing", file |-> r.file, found |-> found,
                  existing |-> VariablesOf(r.file)])
  BY <1>1 DEF SyncList
<1>3. PICK rows : rows = VariablesOf(r.file)
  OBVIOUS
<1>4. PICK x : x = [op |-> "syncing", file |-> r.file, found |-> found, existing |-> rows]
  OBVIOUS
<1>5. PICK s : s \in {Ended, x} /\ Continues(q, "sync", s)
  BY <1>2, <1>3, <1>4
<1>6. r.op = "sync" /\ UNCHANGED <<db, operations, vault>>
  BY <1>1 DEF SyncList
<1>7. CatalogStep
  BY <1>6, DatabaseSame DEF CatalogInv, CatalogTypeOK
<1>8. rows \subseteq Variable /\ \A v \in rows : VariableCopyOK(v)
  BY <1>3 DEF VariablesOf, CatalogInv, CatalogTypeOK, WellFormed, Database, Variables,
              VariableCopyOK
<1>9. r \in SyncRec
  BY <1>1, <1>6 DEF CatalogInv, RequestsOK, RequestOK
<1>10. found \in Found
  <2>1. DeclaredKeys(r.content) \in SUBSET Key
    BY DEF DeclaredKeys
  <2>2. found \in [DeclaredKeys(r.content) -> Value]
    BY DEF ScanComposeEnvironment
  <2> QED
    BY <2>1, <2>2 DEF Found
<1>11. RequestOK(x) /\ CopyOK(x)
  <2>1. x \in SyncingRec
    BY <1>4, <1>8, <1>9, <1>10 DEF SyncingRec, SyncRec
  <2>2. x.op = "syncing" /\ x.existing = rows
    BY <1>4
  <2> QED
    BY <1>8, <2>1, <2>2 DEF RequestOK, CopyOK, MachineOps
<1>12. RequestOK(s) /\ CopyOK(s)
  BY <1>5, <1>11, EndedIsOK
<1>13. CopyOK(s)'
  BY <1>7, <1>12, CopyStays
<1> QED
  BY <1>5, <1>6, <1>7, <1>12, <1>13, ContinueStep

\* What is left to synchronise after a key.
LEMMA SyncRest ==
    ASSUME NEW r \in SyncingRec, CopyOK(r), NEW k
    PROVE  /\ RequestOK([r EXCEPT !.found = Restrict(@, DOMAIN @ \ {k})])
           /\ CopyOK([r EXCEPT !.found = Restrict(@, DOMAIN @ \ {k})])
<1>1. PICK S \in SUBSET Key : r.found \in [S -> Value]
  BY DEF SyncingRec, Found
<1>2. PICK g : g = Restrict(r.found, DOMAIN r.found \ {k})
  OBVIOUS
<1>3. g \in [S \ {k} -> Value]
  BY <1>1, <1>2 DEF Restrict
<1>4. g \in Found
  <2>1. S \ {k} \in SUBSET Key
    OBVIOUS
  <2> QED
    BY <1>3, <2>1 DEF Found
<1>5. PICK s : s = [r EXCEPT !.found = g]
  OBVIOUS
<1>6. s \in SyncingRec /\ s.op = "syncing" /\ s.existing = r.existing /\ r.op = "syncing"
  BY <1>4, <1>5 DEF SyncingRec
<1>7. RequestOK(s) /\ CopyOK(s)
  BY <1>6 DEF RequestOK, CopyOK, MachineOps
<1> QED
  BY <1>2, <1>5, <1>7

\* syncEnvVariablesFromCompose, one key: whatever happened to the rows since
\* they were read, the UPDATE by id meets an env variable or none.
LEMMA SyncKeyStep ==
    ASSUME CatalogInv, NEW q \in Request, request[q].op = "syncing", UnchangedButDb,
           NEW k \in DOMAIN request[q].found, SyncKey(q, k)
    PROVE  Keeps(q) /\ ArchivedStays /\ OtherTypesStay
<1>1. PICK r : r = request[q]
  OBVIOUS
<1>2. r \in SyncingRec /\ CopyOK(r) /\ r.op = "syncing"
  BY <1>1 DEF CatalogInv, RequestsOK, RequestOK, CopiesOK
<1>3. PICK rest : rest = IF DOMAIN r.found = {k} THEN Ended
                         ELSE [r EXCEPT !.found = Restrict(@, DOMAIN @ \ {k})]
  OBVIOUS
<1>4. RequestOK(rest) /\ CopyOK(rest)
  BY <1>2, <1>3, SyncRest, EndedIsOK
<1>5. WellFormed(db) /\ db.variables \subseteq Variable
  BY DEF CatalogInv, CatalogTypeOK, WellFormed, Database
<1>6. r.found[k] \in Value /\ k \in Key
  BY <1>1, <1>2 DEF SyncingRec, Found
<1>7. /\ r.existing \subseteq Variable /\ r.file \in FileId
      /\ \A v \in r.existing : VariableCopyOK(v)
  BY <1>2 DEF SyncingRec, CopyOK
<1>8. ASSUME CatalogStep, NEW s, Continues(q, "syncing", s), s \in {rest, Ended}
      PROVE  Keeps(q)
  <2>1. RequestOK(s) /\ CopyOK(s)
    BY <1>4, <1>8, EndedIsOK
  <2>2. CopyOK(s)'
    BY <1>8, <2>1, CopyStays
  <2> QED
    BY <1>8, <2>1, <2>2, ContinueStep DEF UnchangedButDb
<1>9. UNCHANGED db => CatalogStep /\ ArchivedStays /\ OtherTypesStay
  BY <1>5, DatabaseSame DEF ArchivedStays, OtherTypesStay, WellFormed, Machines
<1>10. CASE Continues(q, "syncing", rest) /\ UNCHANGED db
  BY <1>8, <1>9, <1>10
<1>11. ASSUME NEW v \in r.existing, v.type = "env",
              UpdateVariableRow([v EXCEPT !.value = r.found[k]]),
              NEW s, Continues(q, "syncing", s), s \in {rest, Ended}
       PROVE  Keeps(q) /\ ArchivedStays /\ OtherTypesStay
  <2>1. PICK c : c = [v EXCEPT !.value = r.found[k]]
    OBVIOUS
  <2>2. /\ c \in Variable /\ c.id = v.id /\ c.type = "env" /\ c.secretRef = v.secretRef
        /\ v.secretRef = NoValue /\ VariableShape(c)
    BY <1>6, <1>7, <1>11, <2>1 DEF Variable, VariableCopyOK, VariableShape
  <2>3. \A w \in db.variables : w.id = c.id => w.type = c.type
    BY <1>7, <1>11, <2>2 DEF VariableCopyOK
  <2>4. CatalogStep /\ ArchivedStays /\ OtherTypesStay
    BY <1>5, <1>11, <2>1, <2>2, <2>3, UpdateVariableRowStep
  <2> QED
    BY <1>8, <1>11, <2>4
<1>12. ASSUME ~KeyTaken(r.file, k), NEW id \in Fresh(VariableId),
              InsertVariable(EnvVariable(id, r.file, k, r.found[k])),
              Continues(q, "syncing", rest)
       PROVE  Keeps(q) /\ ArchivedStays /\ OtherTypesStay
  <2>1. PICK v : v = EnvVariable(id, r.file, k, r.found[k])
    OBVIOUS
  <2>2. id \in VariableId \ db.spent
    BY DEF Fresh
  <2>3. /\ v \in Variable /\ v.id = id /\ v.file = r.file /\ v.key = k
        /\ v.type = "env" /\ VariableShape(v)
    BY <1>6, <1>7, <2>1, <2>2 DEF EnvVariable, Variable, VarType, VariableShape
  <2>4. CatalogStep /\ ArchivedStays /\ OtherTypesStay
    BY <1>5, <1>12, <2>1, <2>2, <2>3, InsertVariableStep
  <2> QED
    BY <1>8, <1>12, <2>4
<1>13. CASE AnswersAfter(q, "syncing") /\ UNCHANGED db
  BY <1>8, <1>9, <1>13 DEF AnswersAfter
<1>14. \/ Continues(q, "syncing", rest) /\ UNCHANGED db
       \/ \E v \in r.existing :
             /\ v.type = "env"
             /\ UpdateVariableRow([v EXCEPT !.value = r.found[k]])
             /\ Continues(q, "syncing", IF VariableExists(v.id) THEN rest ELSE Ended)
       \/ AnswersAfter(q, "syncing") /\ UNCHANGED db
       \/ /\ ~KeyTaken(r.file, k)
          /\ \E id \in Fresh(VariableId) :
                InsertVariable(EnvVariable(id, r.file, k, r.found[k]))
          /\ Continues(q, "syncing", rest)
  BY <1>1, <1>3 DEF SyncKey
<1>15. CASE \E v \in r.existing :
             /\ v.type = "env"
             /\ UpdateVariableRow([v EXCEPT !.value = r.found[k]])
             /\ Continues(q, "syncing", IF VariableExists(v.id) THEN rest ELSE Ended)
  <2>1. PICK v \in r.existing :
             /\ v.type = "env"
             /\ UpdateVariableRow([v EXCEPT !.value = r.found[k]])
             /\ Continues(q, "syncing", IF VariableExists(v.id) THEN rest ELSE Ended)
    BY <1>15
  <2>2. PICK s : s \in {rest, Ended} /\ Continues(q, "syncing", s)
    BY <2>1
  <2> QED
    BY <1>11, <2>1, <2>2
<1> QED
  BY <1>10, <1>12, <1>13, <1>14, <1>15

\* Every request about compose files; saving one leaves variables of other
\* types alone.
LEMMA FileRequestStep ==
    ASSUME CatalogInv, NEW q \in Request, FileRequest(q)
    PROVE  Keeps(q) /\ ArchivedStays /\ (request[q].op = "syncing" => OtherTypesStay)
<1>1. CASE SyncList(q)
  BY <1>1, SyncListStep DEF SyncList, ArchivedStays, CatalogInv, CatalogTypeOK, WellFormed,
     Machines
<1>2. CASE SyncEnvVariables(q)
  BY <1>2, SyncKeyStep DEF SyncEnvVariables
<1> QED
  BY <1>1, <1>2, CreateComposeFileStep, UpdateContentStep, DeleteComposeFileStep
  DEF FileRequest

\* Every step of the catalogue.
LEMMA CatalogNextStep ==
    ASSUME CatalogInv, CatalogNext
    PROVE  \E q \in Request :
             /\ Keeps(q) /\ (ArchivedStays \/ UnarchiveMachine(q))
             /\ request[q].op = "syncing" => OtherTypesStay
BY MachineRequestStep, LinkRequestStep, FileRequestStep, VariableRequestStep DEF CatalogNext

-----------------------------------------------------------------------------
(* The executor.                                                            *)

Working == {"claimed", "loaded", "connected", "local", "global", "resolved",
            "rendered", "uploading", "running", "finishing"}
NotStarted == {"none"} \cup (Working \ {"finishing"})
WithDir == {"connected", "local", "global", "resolved", "rendered", "uploading", "running"}

\* A document has, for every service and key, what the reference says.
AsReferred(d) ==
    \A s \in d.content.services, k \in Key : d.environment[s][k] = Reference(d, s, k)

\* An operation that waits has no executor; one that has an executor at work
\* is running, and its command was not started before the executor gets there.
StepOK(e, status, n) ==
    /\ e.step \in ExecStep
    /\ e.step = "none" <=> status \in {"none", "queued"}
    /\ e.step \in Working => status = "running"
    /\ n \in {0, 1}
    /\ e.step \in NotStarted => n = 0

\* A directory on a host, of a machine's settings and a compose file.
DirOK(dir, file) ==
    dir \in Location /\ \E s \in Setting : dir[2] = DeployDir[s, file]

\* Variables that can be written as files.
Writable == {v \in Variable : v.type = "file_template" => v.target \in Target}

\* What the executor has read, and what it is about to write.
ReadOK(e, file, n) ==
    /\ e.step \in WithDir => DirOK(e.dir, file)
    /\ e.step \in {"local", "global"} => e.local \subseteq Writable
    /\ e.step = "resolved" => /\ e.all = Cascade(e.local, e.fallback)
                              /\ e.all \subseteq Writable
    /\ e.step = "rendered" => \A d \in e.rendered : d.file = file /\ AsReferred(d)
    /\ e.step \in {"rendered", "uploading"} => e.files \subseteq FileVariables(Writable)
    /\ e.step = "finishing" => /\ e.status \in {"success", "failed"}
                               /\ e.exitCode \in {0, 1, NoValue}
                               /\ e.status = "success" => n = 1

ExecOK(o) ==
    /\ StepOK(exec[o], operations[o].status, executions[o])
    /\ ReadOK(exec[o], operations[o].file, executions[o])

RemoteInv ==
    /\ DOMAIN remote \subseteq Location
    /\ \A dir \in DOMAIN remote : remote[dir].file # NoValue => AsReferred(remote[dir])

ExecutorInv ==
    /\ DOMAIN exec = OperationId
    /\ executions \in [OperationId -> 0..2]
    /\ \A o \in OperationId : ExecOK(o)

StreamInv == stream \in [Stream -> [state : {"idle", "subscribing", "open", "closed"},
                                    message : BOOLEAN]]
BatchInv == batch \in [Replica -> SUBSET OperationId]

FleetInv == /\ CatalogInv /\ OperationKeepsItsTargets
            /\ ExecutorInv /\ RemoteInv
            /\ StreamInv /\ BatchInv

\* The initial states.
LEMMA FleetInit ==
    ASSUME Init
    PROVE  FleetInv
<1>1. PICK i \in InitialState :
        /\ db = i.db /\ operations = i.operations
        /\ request = [q \in Request |-> IF q \in i.requests THEN Idle ELSE Ended]
  BY DEF Init, CatalogInit
<1>2. /\ WellFormed(db) /\ operations \in [OperationId -> Operation]
      /\ \A o \in OperationId :
            \/ operations[o].status = "none"
            \/ operations[o].status = "queued" /\ HasTargets(db, operations[o])
  BY <1>1, InitialAssumption
<1>3. CatalogInv
  <2>1. CatalogTypeOK
    BY <1>2 DEF CatalogTypeOK, Init, CatalogInit
  <2>2. RequestOK(Idle) /\ CopyOK(Idle)
    BY DEF RequestOK, CopyOK, Idle, MachineOps
  <2>3. \A q \in Request : request[q] \in {Idle, Ended}
    BY <1>1
  <2>4. RequestsOK
    BY <1>1, <2>2, <2>3, EndedIsOK DEF RequestsOK
  <2>5. CopiesOK
    BY <2>2, <2>3, EndedIsOK DEF CopiesOK
  <2> QED
    BY <2>1, <2>4, <2>5 DEF CatalogInv
<1>4. OperationKeepsItsTargets
  BY <1>2 DEF OperationKeepsItsTargets, HasTargets, FileExists, MachineExists
<1>5. ExecutorInv
  <2>1. ASSUME NEW o \in OperationId
        PROVE  ExecOK(o)
    BY <1>2 DEF Init, ExecOK, StepOK, ReadOK, NoExec, ExecStep, MayWrite, Working,
                NotStarted, WithDir
  <2> QED
    BY <2>1 DEF ExecutorInv, Init
<1>6. RemoteInv
  BY DEF Init, RemoteInv
<1>7. StreamInv /\ BatchInv
  BY DEF Init, StreamInv, BatchInv, NoStream
<1> QED
  BY <1>3, <1>4, <1>5, <1>6, <1>7 DEF FleetInv

\* A step of one executor: what it takes to keep the invariant.
LEMMA ExecutorStep ==
    ASSUME ExecutorInv, NEW o \in OperationId, DOMAIN exec' = OperationId,
           executions' \in [OperationId -> 0..2],
           \A p \in OperationId : p # o =>
               /\ exec'[p] = exec[p] /\ executions'[p] = executions[p]
               /\ operations'[p] = operations[p],
           StepOK(exec'[o], operations'[o].status, executions'[o]),
           ReadOK(exec'[o], operations'[o].file, executions'[o])
    PROVE  ExecutorInv'
<1>1. ASSUME NEW p \in OperationId, p # o
      PROVE  ExecOK(p)'
  BY <1>1 DEF ExecutorInv, ExecOK
<1>2. ExecOK(o)'
  BY DEF ExecOK
<1> QED
  BY <1>1, <1>2 DEF ExecutorInv

\* Whatever the catalogue's requests delete, an operation keeps its targets.
LEMMA TargetsStay ==
    ASSUME OperationKeepsItsTargets, CatalogStep, operations' = operations
    PROVE  OperationKeepsItsTargets'
<1>1. ASSUME NEW o \in OperationId, operations[o].status # "none"
      PROVE  FileExists(operations[o].file)' /\ MachineExists(operations[o].machine)'
  BY <1>1 DEF OperationKeepsItsTargets, CatalogStep, FileStep, MachineStep, FileExists,
              MachineExists
<1> QED
  BY <1>1 DEF OperationKeepsItsTargets, FileExists, MachineExists

\* Steps of requests that change no operation.
LEMMA RequestKeeps ==
    ASSUME FleetInv, NEW q \in Request, Keeps(q), UNCHANGED <<batch, execVars, stream>>
    PROVE  FleetInv'
<1>1. CatalogInv' /\ OperationKeepsItsTargets'
  BY TargetsStay DEF FleetInv, Keeps
<1>2. ExecutorInv' /\ RemoteInv'
  BY DEF FleetInv, Keeps, ExecutorInv, ExecOK, RemoteInv, execVars
<1>3. StreamInv' /\ BatchInv'
  BY DEF FleetInv, StreamInv, BatchInv
<1> QED
  BY <1>1, <1>2, <1>3 DEF FleetInv

\* TriggerOperationService, its reads.
LEMMA TriggerReadStep ==
    ASSUME CatalogInv, NEW q \in Request, TriggerFile(q) \/ TriggerMachine(q)
    PROVE  Keeps(q) /\ request[q].op # "syncing" /\ UNCHANGED db
<1>1. CatalogStep /\ UNCHANGED db
  BY DatabaseSame DEF CatalogInv, CatalogTypeOK, TriggerFile, TriggerMachine
<1>2. CASE TriggerFile(q)
  <2>1. PICK f \in db.files, t \in TriggerType :
          Starts(q, [op |-> "triggerFile", file |-> f.id, type |-> t])
    BY <1>2 DEF TriggerFile, TriggerType
  <2>2. PICK r : r = [op |-> "triggerFile", file |-> f.id, type |-> t]
    OBVIOUS
  <2>3. f.id \in FileId
    BY DEF CatalogInv, CatalogTypeOK, WellFormed, Database, ComposeFile
  <2>4. RequestOK(r) /\ CopyOK(r)'
    BY <2>2, <2>3 DEF RequestOK, TriggerRec, CopyOK, MachineOps
  <2> QED
    BY <1>1, <1>2, <2>1, <2>2, <2>4, StartStep DEF TriggerFile
<1>3. CASE TriggerMachine(q)
  <2>1. PICK m \in db.machines :
          Continues(q, "triggerFile",
                    [op |-> "triggerCreate", machine |-> m.id,
                     file |-> request[q].file, type |-> request[q].type])
    BY <1>3 DEF TriggerMachine
  <2>2. PICK r : r = [op |-> "triggerCreate", machine |-> m.id,
                      file |-> request[q].file, type |-> request[q].type]
    OBVIOUS
  <2>3. request[q] \in TriggerRec
    BY <2>1 DEF Continues, CatalogInv, RequestsOK, RequestOK
  <2>4. m.id \in MachineId
    BY DEF CatalogInv, CatalogTypeOK, WellFormed, Database, Machine
  <2>5. RequestOK(r) /\ CopyOK(r)'
    BY <2>2, <2>3, <2>4 DEF RequestOK, TriggerRec, CreateRec, CopyOK, MachineOps
  <2> QED
    BY <1>1, <1>3, <2>1, <2>2, <2>5, ContinueStep DEF TriggerMachine
<1> QED
  BY <1>2, <1>3

\* TriggerOperationService, the INSERT: the foreign keys are checked with it,
\* whatever happened since the reads.
LEMMA TriggerCreateStep ==
    ASSUME FleetInv, NEW q \in Request, TriggerCreate(q),
           UNCHANGED <<batch, execVars, stream>>
    PROVE  /\ FleetInv' /\ request[q].op = "triggerCreate" /\ UNCHANGED db
           /\ \A p \in Request : p # q => request'[p] = request[p]
           /\ \/ UNCHANGED operations
              \/ \E o \in OperationId :
                   /\ operations[o].status = "none"
                   /\ \E op : op.status = "queued" /\ operations' = [operations EXCEPT ![o] = op]
<1>1. PICK r : r = request[q]
  OBVIOUS
<1>2. r.op = "triggerCreate" /\ UNCHANGED <<db, vault>> /\ Moves(q, Ended)
  BY <1>1, ContinuesMoves DEF TriggerCreate, AnswersAfter, FleetInv, CatalogInv
<1>3. r \in CreateRec
  BY <1>1, <1>2 DEF FleetInv, CatalogInv, RequestsOK, RequestOK
<1>4. CatalogStep
  BY <1>2, DatabaseSame DEF FleetInv, CatalogInv, CatalogTypeOK
<1>5. operations \in [OperationId -> Operation]
  BY DEF FleetInv, CatalogInv, CatalogTypeOK
<1>6. RemoteInv' /\ StreamInv' /\ BatchInv'
  BY DEF FleetInv, RemoteInv, StreamInv, BatchInv, execVars
<1>7. CASE UNCHANGED operations
  <2>1. CatalogInv'
    BY <1>2, <1>4, <1>7, RequestStep, EndedIsOK DEF FleetInv, CatalogInv, CatalogTypeOK
  <2>2. OperationKeepsItsTargets'
    BY <1>4, <1>7, TargetsStay DEF FleetInv
  <2>3. ExecutorInv'
    BY <1>7 DEF FleetInv, ExecutorInv, ExecOK, execVars
  <2> QED
    BY <1>1, <1>2, <1>6, <1>7, <2>1, <2>2, <2>3 DEF FleetInv, Moves
<1>8. ASSUME NEW o \in OperationId, operations[o].status = "none",
             NEW op, op = NewOperation(r), op.type # "unstorable",
             FileExists(op.file), MachineExists(op.machine),
             operations' = [operations EXCEPT ![o] = op]
      PROVE  FleetInv'
  <2>1. op \in Operation /\ op.status = "queued"
    BY <1>3, <1>8 DEF NewOperation, Operation, OperationStatus, CreateRec, TriggerType
  <2>2. operations' \in [OperationId -> Operation] /\ operations'[o] = op
    BY <1>5, <1>8, <2>1
  <2>3. \A p \in OperationId : p # o => operations'[p] = operations[p]
    BY <1>5, <1>8
  <2>4. CatalogInv'
    BY <1>2, <1>4, <2>2, RequestStep, EndedIsOK DEF FleetInv, CatalogInv, CatalogTypeOK
  <2>5. OperationKeepsItsTargets'
    BY <1>2, <1>8, <2>2, <2>3 DEF FleetInv, OperationKeepsItsTargets, FileExists, MachineExists
  <2>6. ExecutorInv'
    <3>1. ExecOK(o) /\ exec' = exec /\ executions' = executions
      BY DEF FleetInv, ExecutorInv, execVars
    <3>2. exec[o].step = "none"
      BY <1>8, <3>1 DEF ExecOK, StepOK
    <3>3. StepOK(exec[o], op.status, executions[o]) /\ ReadOK(exec[o], op.file, executions[o])
      BY <2>1, <3>1, <3>2 DEF ExecOK, StepOK, ReadOK, Working, WithDir
    <3> QED
      BY <2>2, <2>3, <3>1, <3>3, ExecutorStep DEF FleetInv, ExecutorInv
  <2> QED
    BY <1>6, <2>4, <2>5, <2>6 DEF FleetInv
<1>9. CASE ~UNCHANGED operations
  <2>1. PICK op : op = NewOperation(r)
    OBVIOUS
  <2>2. PICK o \in OperationId :
          /\ FileExists(op.file) /\ MachineExists(op.machine) /\ op.type # "unstorable"
          /\ operations[o].status = "none" /\ operations' = [operations EXCEPT ![o] = op]
    BY <1>1, <1>9, <2>1 DEF TriggerCreate, InsertOperation
  <2>3. op.status = "queued"
    BY <2>1 DEF NewOperation
  <2>4. FleetInv'
    BY <1>8, <2>1, <2>2
  <2> QED
    BY <1>1, <1>2, <2>2, <2>3, <2>4 DEF Moves
<1> QED
  BY <1>7, <1>9

\* Steps of executors and streams leave the catalogue and the requests alone,
\* and what an operation is about.
LEMMA CatalogIdle ==
    ASSUME FleetInv, UNCHANGED <<db, vault, request>>,
           operations' \in [OperationId -> Operation],
           \A o \in OperationId :
               /\ operations'[o].file = operations[o].file
               /\ operations'[o].machine = operations[o].machine
               /\ operations[o].status = "none" => operations'[o].status = "none"
    PROVE  CatalogInv' /\ OperationKeepsItsTargets'
<1>1. CatalogStep
  BY DatabaseSame DEF FleetInv, CatalogInv, CatalogTypeOK
<1>2. CatalogTypeOK'
  BY <1>1, CatalogStepKeepsWellFormed DEF FleetInv, CatalogInv, CatalogTypeOK
<1>3. RequestsOK'
  BY DEF FleetInv, CatalogInv, RequestsOK
<1>4. ASSUME NEW p \in Request
      PROVE  CopyOK(request[p])'
  <2>1. PICK x : x = request[p]
    OBVIOUS
  <2>2. CopyOK(x)'
    BY <1>1, <2>1, CopyStays DEF FleetInv, CatalogInv, CopiesOK
  <2> QED
    BY <2>1, <2>2 DEF CopyOK, MachineCopyOK, VariableCopyOK
<1>5. CatalogInv'
  BY <1>2, <1>3, <1>4 DEF CatalogInv, CopiesOK
<1>6. OperationKeepsItsTargets'
  BY DEF FleetInv, OperationKeepsItsTargets, FileExists, MachineExists
<1> QED
  BY <1>5, <1>6

\* The same when no operation changes.
LEMMA CatalogUnchanged ==
    ASSUME FleetInv, UNCHANGED catalogVars
    PROVE  CatalogInv' /\ OperationKeepsItsTargets'
<1>1. operations \in [OperationId -> Operation] /\ operations' = operations
      /\ UNCHANGED <<db, vault, request>>
  BY DEF FleetInv, CatalogInv, CatalogTypeOK, catalogVars
<1> QED
  BY <1>1, CatalogIdle

\* The executor of o goes on by itself.
LEMMA GoesStep ==
    ASSUME FleetInv, NEW o \in OperationId, NEW from, NEW to, Goes(o, from, to),
           StepOK(to, operations[o].status, executions[o]),
           ReadOK(to, operations[o].file, executions[o])
    PROVE  FleetInv'
<1>1. CatalogInv' /\ OperationKeepsItsTargets'
  BY CatalogUnchanged DEF Goes
<1>2. RemoteInv' /\ StreamInv' /\ BatchInv'
  BY DEF Goes, FleetInv, RemoteInv, StreamInv, BatchInv
<1>3. /\ operations' = operations /\ executions' = executions /\ exec'[o] = to
      /\ DOMAIN exec' = OperationId /\ executions \in [OperationId -> 0..2]
      /\ \A p \in OperationId : p # o => exec'[p] = exec[p]
  BY DEF Goes, FleetInv, ExecutorInv, catalogVars
<1>4. ExecutorInv'
  BY <1>3, ExecutorStep DEF FleetInv
<1> QED
  BY <1>1, <1>2, <1>4 DEF FleetInv

\* An executor is at step `from' of an operation that it works on.
LEMMA AtStep ==
    ASSUME FleetInv, NEW o \in OperationId, exec[o].step \in Working
    PROVE  /\ operations[o].status = "running" /\ executions[o] \in {0, 1}
           /\ exec[o].step # "finishing" => executions[o] = 0
           /\ ReadOK(exec[o], operations[o].file, executions[o])
BY DEF FleetInv, ExecutorInv, ExecOK, StepOK, NotStarted

\* finishWithError.
LEMMA FailingStep ==
    ASSUME FleetInv, NEW o \in OperationId, NEW from \in Working, Goes(o, from, Failing)
    PROVE  FleetInv'
<1>1. operations[o].status = "running" /\ executions[o] \in {0, 1}
  BY AtStep DEF Goes
<1>2. StepOK(Failing, operations[o].status, executions[o])
  BY <1>1 DEF StepOK, Failing, Working, NotStarted, ExecStep, MayWrite
<1>3. ReadOK(Failing, operations[o].file, executions[o])
  BY DEF ReadOK, Failing, WithDir
<1> QED
  BY <1>2, <1>3, GoesStep

\* The compose file is read.
LEMMA ExecLoadStep ==
    ASSUME FleetInv, NEW o \in OperationId, ExecLoad(o)
    PROVE  FleetInv'
<1>1. PICK f \in db.files : Goes(o, "claimed", [step |-> "loaded", content |-> f.content])
  BY DEF ExecLoad
<1>2. PICK to : to = [step |-> "loaded", content |-> f.content]
  OBVIOUS
<1>3. to.step = "loaded" /\ operations[o].status = "running" /\ executions[o] = 0
  BY <1>1, <1>2, AtStep DEF Goes, Working
<1>4. /\ StepOK(to, operations[o].status, executions[o])
      /\ ReadOK(to, operations[o].file, executions[o])
  BY <1>3 DEF StepOK, ReadOK, Working, NotStarted, ExecStep, MayWrite, WithDir
<1> QED
  BY <1>1, <1>2, <1>4, GoesStep

\* A read fails.
LEMMA ExecReadFailsStep ==
    ASSUME FleetInv, NEW o \in OperationId, ExecReadFails(o)
    PROVE  FleetInv'
<1>1. PICK from \in Working : Goes(o, from, Failing)
  BY DEF ExecReadFails, Working
<1> QED
  BY <1>1, FailingStep

\* An operation that is carried out has a compose file.
LEMMA FileOfOperation ==
    ASSUME FleetInv, NEW o \in OperationId, operations[o].status # "none"
    PROVE  operations[o].file \in FileId /\ operations[o].file # NoValue
<1>1. operations[o].file \in FileId
  BY DEF FleetInv, OperationKeepsItsTargets, FileExists, CatalogInv, CatalogTypeOK,
         WellFormed, Database, ComposeFile
<1> QED
  BY <1>1, FleetAssumption

\* The variables of a compose file can be written.
LEMMA VariablesAreWritable ==
    ASSUME FleetInv, NEW f
    PROVE  VariablesOf(f) \subseteq Writable
<1>1. db.variables \subseteq Variable /\ Variables(db)
  BY DEF FleetInv, CatalogInv, CatalogTypeOK, WellFormed, Database
<1> QED
  BY <1>1 DEF VariablesOf, Writable, Variables, VariableShape, Variable

\* The machine is read.
LEMMA ExecMachineStep ==
    ASSUME FleetInv, NEW o \in OperationId, ExecMachine(o)
    PROVE  FleetInv'
<1>1. PICK m \in db.machines :
        Goes(o, "loaded", [step |-> "connected", content |-> exec[o].content,
                           dir |-> DeployPath(o, m)])
  BY DEF ExecMachine
<1>2. PICK dir, to : /\ dir = DeployPath(o, m)
                     /\ to = [step |-> "connected", content |-> exec[o].content, dir |-> dir]
  OBVIOUS
<1>3. m.host \in Name /\ m.settings \in Setting
  BY DEF FleetInv, CatalogInv, CatalogTypeOK, WellFormed, Database, Machine
<1>4. operations[o].status = "running" /\ executions[o] = 0
  BY <1>1, AtStep DEF Goes, Working
<1>5. operations[o].file \in FileId
  BY <1>4, FileOfOperation
<1>6. DirOK(dir, operations[o].file)
  BY <1>2, <1>3, <1>5, OperationAssumption DEF DirOK, Location, DeployPath
<1>7. to.step = "connected" /\ to.dir = dir
  BY <1>2
<1>8. /\ StepOK(to, operations[o].status, executions[o])
      /\ ReadOK(to, operations[o].file, executions[o])
  BY <1>4, <1>6, <1>7 DEF StepOK, ReadOK, Working, NotStarted, ExecStep, MayWrite, WithDir
<1> QED
  BY <1>1, <1>2, <1>8, GoesStep

\* The reads of resolveComposeVariables.
LEMMA ExecResolveStep ==
    ASSUME FleetInv, NEW o \in OperationId, ExecLocal(o) \/ ExecGlobal(o)
    PROVE  FleetInv'
<1>1. PICK from, to : /\ Goes(o, from, to) /\ from \in {"connected", "local"}
                      /\ to.step \in {"local", "global"} /\ to.dir = exec[o].dir
                      /\ \/ to.local = VariablesOf(operations[o].file)
                         \/ from = "local" /\ to.local = exec[o].local
  BY DEF ExecLocal, ExecGlobal
<1>2. exec[o].step \in Working /\ exec[o].step \in WithDir /\ exec[o].step # "finishing"
  BY <1>1 DEF Goes, Working, WithDir
<1>3. /\ DirOK(to.dir, operations[o].file)
      /\ operations[o].status = "running" /\ executions[o] = 0
  BY <1>1, <1>2, AtStep DEF ReadOK
<1>4. to.local \subseteq Writable
  BY <1>1, <1>2, AtStep, VariablesAreWritable DEF ReadOK, Goes
<1>5. /\ StepOK(to, operations[o].status, executions[o])
      /\ ReadOK(to, operations[o].file, executions[o])
  BY <1>1, <1>3, <1>4 DEF StepOK, ReadOK, Working, NotStarted, ExecStep, MayWrite, WithDir
<1> QED
  BY <1>1, <1>5, GoesStep

\* The last read of resolveComposeVariables, and the secrets.
LEMMA ExecFallbackStep ==
    ASSUME FleetInv, NEW o \in OperationId, ExecFallback(o)
    PROVE  FleetInv'
<1>1. PICK fallback, all, to :
        /\ fallback = UNION {VariablesOf(f) : f \in exec[o].global}
        /\ all = Cascade(exec[o].local, fallback)
        /\ to = [step |-> "resolved", content |-> exec[o].content, dir |-> exec[o].dir,
                 local |-> exec[o].local, fallback |-> fallback, all |-> all]
        /\ Goes(o, "global", to) \/ Goes(o, "global", Failing)
  BY DEF ExecFallback
<1>2. CASE Goes(o, "global", Failing)
  BY <1>2, FailingStep DEF Working
<1>3. CASE Goes(o, "global", to)
  <2>1. /\ DirOK(exec[o].dir, operations[o].file) /\ exec[o].local \subseteq Writable
        /\ operations[o].status = "running" /\ executions[o] = 0
    BY <1>3, AtStep DEF ReadOK, Goes, Working, WithDir
  <2>2. fallback \subseteq Writable
    BY <1>1, VariablesAreWritable
  <2>3. all \subseteq Writable
    BY <1>1, <2>1, <2>2 DEF Cascade
  <2>4. /\ to.step = "resolved" /\ DirOK(to.dir, operations[o].file)
        /\ to.all = Cascade(to.local, to.fallback) /\ to.all \subseteq Writable
    BY <1>1, <2>1, <2>3
  <2>5. /\ StepOK(to, operations[o].status, executions[o])
        /\ ReadOK(to, operations[o].file, executions[o])
    BY <2>1, <2>4 DEF StepOK, ReadOK, Working, NotStarted, ExecStep, MayWrite, WithDir
  <2> QED
    BY <1>3, <2>5, GoesStep
<1> QED
  BY <1>1, <1>2, <1>3

\* injectEnv on a cascade is the reference.
LEMMA InjectIsReference ==
    ASSUME NEW d, NEW s, NEW k
    PROVE  InjectEnv(d.content, Cascade(d.local, d.fallback), s, k) = Reference(d, s, k)
<1> DEFINE x == d.content.environment[s][k]
           all == Cascade(d.local, d.fallback)
           own == {v \in d.local : v.key = k}
           shared == {v \in d.fallback : v.key = k}
<1>1. CASE x # NoValue
  BY <1>1 DEF InjectEnv, Reference
<1>2. CASE x = NoValue /\ own # {}
  <2>1. {w \in all : w.type = "env" /\ w.key = k} = {w \in own : w.type = "env"}
    BY <1>2 DEF Cascade
  <2>2. InjectEnv(d.content, all, s, k) = EnvVars(all, k)
    BY <1>2 DEF InjectEnv
  <2>3. Reference(d, s, k) = {v.value : v \in {w \in own : w.type = "env"}}
    BY <1>2 DEF Reference
  <2> QED
    BY <2>1, <2>2, <2>3 DEF EnvVars
<1>3. CASE x = NoValue /\ own = {}
  <2>1. {w \in all : w.type = "env" /\ w.key = k} = {w \in shared : w.type = "env"}
    BY <1>3 DEF Cascade
  <2>2. InjectEnv(d.content, all, s, k) = EnvVars(all, k)
    BY <1>3 DEF InjectEnv
  <2>3. Reference(d, s, k) = {v.value : v \in {w \in shared : w.type = "env"}}
    BY <1>3 DEF Reference
  <2> QED
    BY <2>1, <2>2, <2>3 DEF EnvVars
<1> QED
  BY <1>1, <1>2, <1>3

\* RenderCompose makes documents as the reference says.
LEMMA RenderIsReference ==
    ASSUME FleetInv, NEW o \in OperationId, exec[o].step = "resolved",
           NEW networks, NEW volumes
    PROVE  /\ AsReferred(RenderCompose(o, networks, volumes))
           /\ RenderCompose(o, networks, volumes).file = operations[o].file
<1>1. PICK d : d = RenderCompose(o, networks, volumes)
  OBVIOUS
<1>2. exec[o].all = Cascade(exec[o].local, exec[o].fallback)
  BY AtStep DEF ReadOK, Working
<1>3. /\ d.file = operations[o].file /\ d.content = exec[o].content
      /\ d.local = exec[o].local /\ d.fallback = exec[o].fallback
      /\ d.environment = [s \in d.content.services |->
                            [k \in Key |-> InjectEnv(d.content, exec[o].all, s, k)]]
  BY <1>1 DEF RenderCompose
<1>4. ASSUME NEW s \in d.content.services, NEW k \in Key
      PROVE  d.environment[s][k] = Reference(d, s, k)
  <2>1. d.environment[s][k] = InjectEnv(d.content, exec[o].all, s, k)
    BY <1>3
  <2>2. exec[o].all = Cascade(d.local, d.fallback)
    BY <1>2, <1>3
  <2> QED
    BY <2>1, <2>2, InjectIsReference
<1> QED
  BY <1>1, <1>3, <1>4 DEF AsReferred

\* The document and the files are rendered, or a placeholder has no value.
LEMMA ExecRenderStep ==
    ASSUME FleetInv, NEW o \in OperationId, ExecRender(o)
    PROVE  FleetInv'
<1>1. PICK R, files, to :
        /\ \/ R = {}
           \/ R = {RenderCompose(o, NetworksOf(operations[o].file),
                                 VolumesOf(operations[o].file))}
        /\ files = {} \/ files = FileVariables(exec[o].all)
        /\ to = [step |-> "rendered", dir |-> exec[o].dir, files |-> files, rendered |-> R]
        /\ Goes(o, "resolved", to) \/ Goes(o, "resolved", Failing)
  BY DEF ExecRender
<1>2. CASE Goes(o, "resolved", Failing)
  BY <1>2, FailingStep DEF Working
<1>3. CASE Goes(o, "resolved", to)
  <2>1. /\ DirOK(exec[o].dir, operations[o].file) /\ exec[o].all \subseteq Writable
        /\ operations[o].status = "running" /\ executions[o] = 0
    BY <1>3, AtStep DEF ReadOK, Goes, Working, WithDir
  <2>2. exec[o].step = "resolved"
    BY <1>3 DEF Goes
  <2>3. \A d \in R : d.file = operations[o].file /\ AsReferred(d)
    BY <1>1, <2>2, RenderIsReference
  <2>4. files \subseteq FileVariables(Writable)
    BY <1>1, <2>1 DEF FileVariables
  <2>5. /\ to.step = "rendered" /\ DirOK(to.dir, operations[o].file) /\ to.rendered = R
        /\ to.files = files
    BY <1>1, <2>1
  <2>6. /\ StepOK(to, operations[o].status, executions[o])
        /\ ReadOK(to, operations[o].file, executions[o])
    BY <2>1, <2>3, <2>4, <2>5
    DEF StepOK, ReadOK, Working, NotStarted, ExecStep, MayWrite, WithDir
  <2> QED
    BY <1>3, <2>6, GoesStep
<1> QED
  BY <1>1, <1>2, <1>3

\* An upload goes on with the files that are left.
LEMMA SendsStep ==
    ASSUME FleetInv, NEW o \in OperationId, exec[o].step \in {"rendered", "uploading"},
           NEW deployed, NEW racing, NEW files \in SUBSET exec[o].files,
           Sends(o, deployed, racing, files), RemoteInv',
           UNCHANGED <<catalogVars, batch, executions, stream>>
    PROVE  FleetInv'
<1>1. PICK step, to : /\ step = IF files = {} THEN "running" ELSE "uploading"
                      /\ to = [step |-> step, dir |-> exec[o].dir, deployed |-> deployed,
                               racing |-> racing, files |-> files]
  OBVIOUS
<1>2. exec' = [exec EXCEPT ![o] = to]
  BY <1>1 DEF Sends
<1>3. /\ operations[o].status = "running" /\ executions[o] = 0
      /\ DirOK(exec[o].dir, operations[o].file)
      /\ exec[o].files \subseteq FileVariables(Writable)
  BY AtStep DEF ReadOK, Working, WithDir
<1>4. CatalogInv' /\ OperationKeepsItsTargets'
  BY CatalogUnchanged
<1>5. StreamInv' /\ BatchInv'
  BY DEF FleetInv, StreamInv, BatchInv
<1>6. /\ operations' = operations /\ executions' = executions /\ exec'[o] = to
      /\ DOMAIN exec' = OperationId /\ executions \in [OperationId -> 0..2]
      /\ \A p \in OperationId : p # o => exec'[p] = exec[p]
  BY <1>2 DEF FleetInv, ExecutorInv, catalogVars
<1>7. /\ to.step \in {"running", "uploading"} /\ to.dir = exec[o].dir
      /\ to.files \subseteq FileVariables(Writable)
  BY <1>1, <1>3
<1>8. /\ StepOK(to, operations[o].status, executions[o])
      /\ ReadOK(to, operations[o].file, executions[o])
  BY <1>3, <1>7 DEF StepOK, ReadOK, Working, NotStarted, ExecStep, MayWrite, WithDir
<1>9. ExecutorInv'
  BY <1>6, <1>8, ExecutorStep DEF FleetInv
<1> QED
  BY <1>4, <1>5, <1>9 DEF FleetInv

\* A document is written into a directory.
LEMMA WrittenStep ==
    ASSUME RemoteInv, NEW dir \in Location, NEW d, remote' = Written(dir, d),
           d.file # NoValue => AsReferred(d)
    PROVE  RemoteInv'
<1>1. /\ DOMAIN remote' = DOMAIN remote \cup {dir}
      /\ \A x \in DOMAIN remote' : remote'[x] = IF x = dir THEN d ELSE remote[x]
  BY DEF Written
<1> QED
  BY <1>1 DEF RemoteInv

\* The document is written into the directory of the compose file.
LEMMA ExecUploadStep ==
    ASSUME FleetInv, NEW o \in OperationId, ExecUpload(o)
    PROVE  FleetInv'
<1>1. /\ exec[o].step = "rendered"
      /\ \E deployed, racing : Sends(o, deployed, racing, exec[o].files)
      /\ UNCHANGED <<catalogVars, batch, executions, stream>>
  BY DEF ExecUpload
<1>2. /\ exec[o].dir \in Location
      /\ \A d \in exec[o].rendered : AsReferred(d)
  BY <1>1, AtStep DEF ReadOK, DirOK, Working, WithDir
<1>3. RemoteInv'
  <2>1. CASE exec[o].rendered = {}
    BY <2>1 DEF ExecUpload, FleetInv, RemoteInv
  <2>2. CASE exec[o].rendered # {}
    <3>1. PICK d \in exec[o].rendered : d = CHOOSE x \in exec[o].rendered : TRUE
      BY <2>2
    <3>2. remote' = Written(exec[o].dir, d)
      BY <2>2, <3>1 DEF ExecUpload
    <3> QED
      BY <1>2, <3>2, WrittenStep DEF FleetInv
  <2> QED
    BY <2>1, <2>2
<1> QED
  BY <1>1, <1>3, SendsStep

\* A file variable is written, maybe over a document.
LEMMA ExecWriteFileStep ==
    ASSUME FleetInv, NEW o \in OperationId, ExecWriteFile(o)
    PROVE  FleetInv'
<1>1. PICK v, to :
        /\ v \in exec[o].files
        /\ to = Joined[exec[o].dir[2], v.target]
        /\ Sends(o, exec[o].deployed, exec[o].racing, exec[o].files \ {v})
        /\ remote' = IF to = NoValue THEN remote
                     ELSE Written(<<exec[o].dir[1], to>>, FileDocument(o, v))
  BY DEF ExecWriteFile
<1>2. /\ exec[o].step = "uploading"
      /\ UNCHANGED <<catalogVars, batch, executions, stream>>
  BY DEF ExecWriteFile
<1>3. exec[o].dir \in Location /\ v \in FileVariables(Writable)
  BY <1>1, <1>2, AtStep DEF ReadOK, DirOK, Working, WithDir
<1>4. v.target \in Target
  BY <1>3 DEF FileVariables, Writable
<1>5. to \in Directory \cup {NoValue}
  BY <1>1, <1>3, <1>4, OperationAssumption DEF Location
<1>6. RemoteInv'
  <2>1. CASE to = NoValue
    BY <1>1, <2>1 DEF FleetInv, RemoteInv
  <2>2. CASE to # NoValue
    <3>1. PICK dir, d : dir = <<exec[o].dir[1], to>> /\ d = FileDocument(o, v)
      OBVIOUS
    <3>2. dir \in Location /\ d.file = NoValue
      BY <1>3, <1>5, <2>2, <3>1 DEF Location, FileDocument
    <3>3. remote' = Written(dir, d)
      BY <1>1, <2>2, <3>1
    <3> QED
      BY <3>2, <3>3, WrittenStep DEF FleetInv
  <2> QED
    BY <2>1, <2>2
<1> QED
  BY <1>1, <1>2, <1>6, SendsStep

\* The command runs, once.
LEMMA ExecCommandStep ==
    ASSUME FleetInv, NEW o \in OperationId, ExecCommand(o)
    PROVE  FleetInv'
<1>1. PICK to : /\ to.step = "finishing" /\ to.status \in {"success", "failed"}
                /\ to.exitCode \in {0, 1, NoValue} /\ exec' = [exec EXCEPT ![o] = to]
  BY DEF ExecCommand, Failing
<1>2. /\ exec[o].step = "running" /\ executions' = [executions EXCEPT ![o] = @ + 1]
      /\ UNCHANGED <<catalogVars, batch, remote, stream>>
  BY DEF ExecCommand
<1>3. operations[o].status = "running" /\ executions[o] = 0
  BY <1>2, AtStep DEF Working
<1>4. CatalogInv' /\ OperationKeepsItsTargets'
  BY <1>2, CatalogUnchanged
<1>5. RemoteInv' /\ StreamInv' /\ BatchInv'
  BY <1>2 DEF FleetInv, RemoteInv, StreamInv, BatchInv
<1>6. executions \in [OperationId -> 0..2] /\ DOMAIN exec = OperationId
  BY DEF FleetInv, ExecutorInv
<1>7. /\ operations' = operations /\ executions'[o] = 1 /\ exec'[o] = to
      /\ DOMAIN exec' = OperationId /\ executions' \in [OperationId -> 0..2]
      /\ \A p \in OperationId : p # o => exec'[p] = exec[p] /\ executions'[p] = executions[p]
  BY <1>1, <1>2, <1>3, <1>6 DEF catalogVars
<1>8. StepOK(to, operations[o].status, 1) /\ ReadOK(to, operations[o].file, 1)
  BY <1>1, <1>3 DEF StepOK, ReadOK, Working, NotStarted, ExecStep, MayWrite, WithDir
<1>9. ExecutorInv'
  BY <1>7, <1>8, ExecutorStep DEF FleetInv
<1> QED
  BY <1>4, <1>5, <1>9 DEF FleetInv

\* The row is marked finished, or cannot be.
LEMMA ExecFinishStep ==
    ASSUME FleetInv, NEW o \in OperationId, ExecFinish(o)
    PROVE  FleetInv'
<1>1. PICK to : to.step = "publishing" /\ exec' = [exec EXCEPT ![o] = to]
  BY DEF ExecFinish
<1>2. /\ exec[o].step = "finishing"
      /\ UNCHANGED <<db, vault, request, batch, remote, executions, stream>>
  BY DEF ExecFinish
<1>3. /\ operations[o].status = "running" /\ executions[o] \in {0, 1}
      /\ exec[o].status \in {"success", "failed"} /\ exec[o].exitCode \in {0, 1, NoValue}
  BY <1>2, AtStep DEF ReadOK, Working
<1>4. operations \in [OperationId -> Operation] /\ DOMAIN exec = OperationId
      /\ executions \in [OperationId -> 0..2]
  BY DEF FleetInv, CatalogInv, CatalogTypeOK, ExecutorInv
<1>5. /\ operations' \in [OperationId -> Operation]
      /\ operations'[o].status \in {"running", "success", "failed"}
      /\ operations'[o].file = operations[o].file
      /\ operations'[o].machine = operations[o].machine
      /\ \A p \in OperationId : p # o => operations'[p] = operations[p]
  <2>1. CASE MarkFinished(o)
    BY <1>3, <1>4, <2>1 DEF MarkFinished, Operation, OperationStatus
  <2>2. CASE UNCHANGED operations
    BY <1>3, <1>4, <2>2
  <2> QED
    BY <2>1, <2>2 DEF ExecFinish
<1>6. CatalogInv' /\ OperationKeepsItsTargets'
  BY <1>2, <1>3, <1>5, CatalogIdle
<1>7. RemoteInv' /\ StreamInv' /\ BatchInv'
  BY <1>2 DEF FleetInv, RemoteInv, StreamInv, BatchInv
<1>8. /\ StepOK(to, operations'[o].status, executions[o])
      /\ ReadOK(to, operations'[o].file, executions[o])
  BY <1>1, <1>3, <1>5 DEF StepOK, ReadOK, Working, NotStarted, ExecStep, MayWrite, WithDir
<1>9. /\ exec'[o] = to /\ DOMAIN exec' = OperationId
      /\ \A p \in OperationId : p # o => exec'[p] = exec[p]
  BY <1>1, <1>4
<1>10. ExecutorInv'
  BY <1>2, <1>4, <1>5, <1>8, <1>9, ExecutorStep DEF FleetInv
<1> QED
  BY <1>6, <1>7, <1>10 DEF FleetInv

\* The end is published.
LEMMA ExecPublishStep ==
    ASSUME FleetInv, NEW o \in OperationId, ExecPublish(o)
    PROVE  FleetInv'
<1>a. PICK to : to = [step |-> IF exec[o].written THEN "ended" ELSE "dead"]
  OBVIOUS
<1>1. to.step \in {"ended", "dead"} /\ exec' = [exec EXCEPT ![o] = to]
  BY <1>a DEF ExecPublish
<1>2. exec[o].step = "publishing" /\ UNCHANGED <<catalogVars, batch, remote, executions>>
  BY DEF ExecPublish
<1>3. CatalogInv' /\ OperationKeepsItsTargets'
  BY <1>2, CatalogUnchanged
<1>4. RemoteInv' /\ BatchInv'
  BY <1>2 DEF FleetInv, RemoteInv, BatchInv
<1>5. StreamInv'
  BY DEF ExecPublish, FleetInv, StreamInv
<1>6. /\ exec'[o] = to /\ DOMAIN exec' = OperationId /\ operations' = operations
      /\ executions \in [OperationId -> 0..2] /\ ExecOK(o)
      /\ \A p \in OperationId : p # o => exec'[p] = exec[p]
  BY <1>1, <1>2 DEF FleetInv, ExecutorInv, catalogVars
<1>7. /\ StepOK(to, operations[o].status, executions[o])
      /\ ReadOK(to, operations[o].file, executions[o])
  BY <1>1, <1>2, <1>6 DEF ExecOK, StepOK, ReadOK, Working, NotStarted, ExecStep, MayWrite, WithDir
<1>8. ExecutorInv'
  BY <1>2, <1>6, <1>7, ExecutorStep DEF FleetInv
<1> QED
  BY <1>3, <1>4, <1>5, <1>8 DEF FleetInv

\* An executor dies.
LEMMA ExecAbortStep ==
    ASSUME FleetInv, NEW o \in OperationId, ExecAbort(o)
    PROVE  FleetInv'
<1>1. PICK step \in ExecStep \ {"none", "ended", "dead"} : Goes(o, step, [step |-> "dead"])
  BY DEF ExecAbort
<1>2. PICK to : to = [step |-> "dead"]
  OBVIOUS
<1>3. exec[o].step # "none" /\ ExecOK(o)
  BY <1>1 DEF Goes, FleetInv, ExecutorInv
<1>4. /\ StepOK(to, operations[o].status, executions[o])
      /\ ReadOK(to, operations[o].file, executions[o])
  BY <1>2, <1>3 DEF ExecOK, StepOK, ReadOK, Working, NotStarted, ExecStep, MayWrite, WithDir
<1> QED
  BY <1>1, <1>2, <1>4, GoesStep

\* A poll of a replica claims what is still queued.
LEMMA PollStep ==
    ASSUME FleetInv, NEW n \in Replica,
           PollScan(n) \/ \E o \in OperationId : PollClaim(n, o)
    PROVE  FleetInv'
<1>1. batch \in [Replica -> SUBSET OperationId]
  BY DEF FleetInv, BatchInv
<1>2. RemoteInv' /\ StreamInv'
  BY DEF FleetInv, RemoteInv, StreamInv, PollScan, PollClaim, execVars
<1>3. CASE PollScan(n)
  <2>1. CatalogInv' /\ OperationKeepsItsTargets'
    BY <1>3, CatalogUnchanged DEF PollScan
  <2>2. BatchInv'
    <3>1. PICK b \in FindQueuedCandidates : batch' = [batch EXCEPT ![n] = b]
      BY <1>3 DEF PollScan
    <3>2. b \subseteq OperationId
      BY DEF FindQueuedCandidates, Queued
    <3> QED
      BY <1>1, <3>1, <3>2 DEF BatchInv
  <2>3. ExecutorInv'
    BY <1>3 DEF PollScan, FleetInv, ExecutorInv, ExecOK, execVars, catalogVars
  <2> QED
    BY <1>2, <2>1, <2>2, <2>3 DEF FleetInv
<1>4. ASSUME NEW o \in OperationId, PollClaim(n, o)
      PROVE  FleetInv'
  <2>1. BatchInv'
    BY <1>1, <1>4 DEF PollClaim, BatchInv
  <2>2. UNCHANGED <<db, vault, request, remote, executions, stream>>
    BY <1>4 DEF PollClaim
  <2>3. operations \in [OperationId -> Operation] /\ DOMAIN exec = OperationId
        /\ executions \in [OperationId -> 0..2] /\ ExecOK(o)
    BY DEF FleetInv, CatalogInv, CatalogTypeOK, ExecutorInv
  <2>4. CASE TryClaim(o)
    <3>1. /\ operations[o].status = "queued"
          /\ operations' = [operations EXCEPT ![o].status = "running"]
          /\ exec' = [exec EXCEPT ![o] = [step |-> "claimed"]]
      BY <1>4, <2>4 DEF PollClaim, TryClaim
    <3>2. /\ operations' \in [OperationId -> Operation]
          /\ operations'[o].status = "running"
          /\ operations'[o].file = operations[o].file
          /\ operations'[o].machine = operations[o].machine
          /\ \A p \in OperationId : p # o => operations'[p] = operations[p]
      BY <2>3, <3>1 DEF Operation, OperationStatus
    <3>3. CatalogInv' /\ OperationKeepsItsTargets'
      BY <2>2, <3>1, <3>2, CatalogIdle
    <3>4. executions[o] = 0
      BY <2>3, <3>1 DEF ExecOK, StepOK, NotStarted
    <3>5. PICK to : to = exec'[o] /\ to.step = "claimed"
      BY <2>3, <3>1
    <3>6. /\ StepOK(to, "running", executions[o])
          /\ ReadOK(to, operations[o].file, executions[o])
      BY <3>4, <3>5 DEF StepOK, ReadOK, Working, NotStarted, ExecStep, MayWrite, WithDir
    <3>7. DOMAIN exec' = OperationId /\ \A p \in OperationId : p # o => exec'[p] = exec[p]
      BY <2>3, <3>1
    <3>8. ExecutorInv'
      BY <2>2, <2>3, <3>2, <3>5, <3>6, <3>7, ExecutorStep DEF FleetInv
    <3> QED
      BY <1>2, <2>1, <3>3, <3>8 DEF FleetInv
  <2>5. CASE ~TryClaim(o)
    <3>1. UNCHANGED <<operations, exec>>
      BY <1>4, <2>5 DEF PollClaim
    <3>2. CatalogInv' /\ OperationKeepsItsTargets'
      BY <2>2, <3>1, CatalogUnchanged DEF catalogVars
    <3>3. ExecutorInv'
      BY <2>2, <3>1 DEF FleetInv, ExecutorInv, ExecOK
    <3> QED
      BY <1>2, <2>1, <3>2, <3>3 DEF FleetInv
  <2> QED
    BY <2>4, <2>5
<1> QED
  BY <1>3, <1>4

\* The streams.
LEMMA StreamStep ==
    ASSUME FleetInv, NEW c \in Stream, StreamNext(c)
    PROVE  FleetInv'
<1>1. StreamsOnly
  BY DEF StreamNext, StreamStart, StreamSubscribe, StreamReceive, StreamRecheck
<1>2. CatalogInv' /\ OperationKeepsItsTargets'
  BY <1>1, CatalogUnchanged DEF StreamsOnly
<1>3. ExecutorInv' /\ RemoteInv' /\ BatchInv'
  BY <1>1 DEF StreamsOnly, FleetInv, ExecutorInv, ExecOK, RemoteInv, BatchInv, execVars,
              catalogVars
<1>4. stream \in [Stream -> [state : {"idle", "subscribing", "open", "closed"},
                              message : BOOLEAN]]
  BY DEF FleetInv, StreamInv
<1>5. CASE StreamStart(c) \/ StreamSubscribe(c)
  <2>1. PICK t \in {"subscribing", "open", "closed"} :
          stream' = [stream EXCEPT ![c].state = t]
    BY <1>5 DEF StreamStart, StreamSubscribe
  <2> QED
    BY <1>2, <1>3, <1>4, <2>1 DEF FleetInv, StreamInv
<1>6. CASE StreamReceive(c) \/ StreamRecheck(c)
  <2>1. stream' = [stream EXCEPT ![c] = Closed]
    BY <1>6 DEF StreamReceive, StreamRecheck
  <2> QED
    BY <1>2, <1>3, <1>4, <2>1 DEF FleetInv, StreamInv, Closed
<1> QED
  BY <1>5, <1>6 DEF StreamNext

-----------------------------------------------------------------------------
(* What holds of every behaviour.                                           *)

\* Every step keeps the invariant.
LEMMA FleetNext ==
    ASSUME FleetInv, [Next]_vars
    PROVE  FleetInv'
<1>1. CASE CatalogNext /\ UNCHANGED <<batch, execVars, stream>>
  <2>1. PICK q \in Request : Keeps(q)
    BY <1>1, CatalogNextStep DEF FleetInv
  <2> QED
    BY <1>1, <2>1, RequestKeeps
<1>2. ASSUME NEW q \in Request, TriggerRequest(q), UNCHANGED <<batch, execVars, stream>>
      PROVE  FleetInv'
  BY <1>2, TriggerReadStep, RequestKeeps, TriggerCreateStep DEF FleetInv, TriggerRequest
<1>3. ASSUME NEW n \in Replica, PollScan(n) \/ \E o \in OperationId : PollClaim(n, o)
      PROVE  FleetInv'
  BY <1>3, PollStep
<1>4. ASSUME NEW o \in OperationId, ExecNext(o) \/ ExecAbort(o)
      PROVE  FleetInv'
  <2>1. CASE ExecUploadFails(o)
    <3>1. PICK from \in Working : Goes(o, from, Failing)
      BY <2>1 DEF ExecUploadFails, Working
    <3> QED
      BY <3>1, FailingStep
  <2> QED
    BY <1>4, <2>1, ExecLoadStep, ExecMachineStep, ExecResolveStep, ExecFallbackStep,
       ExecRenderStep, ExecReadFailsStep, ExecUploadStep, ExecWriteFileStep,
       ExecCommandStep, ExecFinishStep, ExecPublishStep, ExecAbortStep DEF ExecNext
<1>5. ASSUME NEW c \in Stream, StreamNext(c)
      PROVE  FleetInv'
  BY <1>5, StreamStep
<1>6. CASE UNCHANGED vars
  <2>1. UNCHANGED catalogVars /\ UNCHANGED <<batch, execVars, stream>>
    BY <1>6 DEF vars, execVars
  <2>2. CatalogInv' /\ OperationKeepsItsTargets'
    BY <2>1, CatalogUnchanged
  <2>3. ExecutorInv' /\ RemoteInv' /\ StreamInv' /\ BatchInv'
    BY <2>1 DEF FleetInv, ExecutorInv, ExecOK, RemoteInv, StreamInv, BatchInv, execVars,
                catalogVars
  <2> QED
    BY <2>2, <2>3 DEF FleetInv
<1> QED
  BY <1>1, <1>2, <1>3, <1>4, <1>5, <1>6 DEF Next

\* The inductive invariant.
LEMMA FleetInvariant == Spec => []FleetInv
BY FleetInit, FleetNext, PTL DEF Spec

\* The types, and every constraint of the schema that the handlers rely on:
\* a machine keeps the credential of its storage and no other through updates
\* and connection checks from stale copies, names and keys are unique, there
\* is one global compose file, no link is left of a network or a volume that
\* was deleted.
THEOREM FleetIsTypeCorrect == Spec => []TypeOK
<1>1. FleetInv => TypeOK
  BY DEF FleetInv, CatalogInv, ExecutorInv, ExecOK, StepOK, RemoteInv, StreamInv, BatchInv,
         TypeOK
<1> QED
  BY <1>1, FleetInvariant, PTL

\* DeleteMachine, DeleteComposeFile and TriggerOperation in any order: an
\* operation's compose file and machine stay as long as the operation.
THEOREM OperationsKeepTheirTargets == Spec => []OperationKeepsItsTargets
<1>1. FleetInv => OperationKeepsItsTargets
  BY DEF FleetInv
<1> QED
  BY <1>1, FleetInvariant, PTL

\* resolveComposeVariables and RenderCompose: the document in every deploy
\* directory has, for every service and key, the value that the cascade of the
\* variables read for it says.
THEOREM DeployedEnvironmentsCascade == Spec => []DeployedEnvironmentIsTheCascade
<1>1. FleetInv => DeployedEnvironmentIsTheCascade
  BY DEF FleetInv, RemoteInv, AsReferred, DeployedEnvironmentIsTheCascade
<1> QED
  BY <1>1, FleetInvariant, PTL

\* A step either changes nothing in the catalogue's tables or is one of its
\* requests.
LEMMA DatabaseStep ==
    ASSUME FleetInv, [Next]_vars
    PROVE  \/ UNCHANGED db
           \/ \E q \in Request :
                /\ Keeps(q) /\ (ArchivedStays \/ UnarchiveMachine(q))
                /\ request[q].op = "syncing" => OtherTypesStay
<1>1. CASE CatalogNext
  BY <1>1, CatalogNextStep DEF FleetInv
<1>2. ASSUME NEW q \in Request, TriggerRequest(q)
      PROVE  UNCHANGED db
  BY <1>2 DEF TriggerRequest, TriggerFile, TriggerMachine, TriggerCreate
<1>3. ASSUME NEW n \in Replica, PollScan(n) \/ \E o \in OperationId : PollClaim(n, o)
      PROVE  UNCHANGED db
  BY <1>3 DEF PollScan, PollClaim, catalogVars
<1>4. ASSUME NEW o \in OperationId, ExecNext(o) \/ ExecAbort(o)
      PROVE  UNCHANGED db
  BY <1>4 DEF ExecNext, ExecLoad, ExecMachine, ExecLocal, ExecGlobal, ExecFallback, ExecRender,
     ExecReadFails, ExecUpload, ExecWriteFile, ExecUploadFails, ExecCommand, ExecFinish,
     ExecPublish, ExecAbort, Goes, catalogVars
<1>5. ASSUME NEW c \in Stream, StreamNext(c)
      PROVE  UNCHANGED db
  BY <1>5 DEF StreamNext, StreamStart, StreamSubscribe, StreamReceive, StreamRecheck,
     StreamsOnly, catalogVars
<1>6. CASE UNCHANGED vars
  BY <1>6 DEF vars, catalogVars
<1> QED
  BY <1>1, <1>2, <1>3, <1>4, <1>5, <1>6 DEF Next

\* MachineRepository.Update leaves the archived column out: an update or a
\* connection check that read the machine before it was archived, however long
\* ago, does not bring it back.
THEOREM ArchivalsStay == Spec => ArchivalIsNotLost
<1> DEFINE A == \A m \in db.machines : \A n \in db'.machines :
                    m.id = n.id /\ m.archived /\ ~n.archived
                        => \E q \in Request : UnarchiveMachine(q)
<1>1. ASSUME FleetInv, [Next]_vars
      PROVE  A
  <2>1. CASE UNCHANGED db
    BY <1>1, <2>1 DEF FleetInv, CatalogInv, CatalogTypeOK, WellFormed, Machines
  <2>2. ASSUME NEW q \in Request, ArchivedStays \/ UnarchiveMachine(q)
        PROVE  A
    BY <2>2 DEF ArchivedStays
  <2> QED
    BY <1>1, <2>1, <2>2, DatabaseStep
<1> QED
  BY <1>1, FleetInvariant, PTL DEF Spec, ArchivalIsNotLost

\* syncEnvVariablesFromCompose updates by id what was an env variable when it
\* was read: since ids are not used twice and types do not change, no variable
\* of another type is touched, whatever was deleted and created since.
THEOREM SyncKeepsOtherTypes == Spec => SyncLeavesOtherTypesAlone
<1> DEFINE A == (\E q \in Request : request[q].op = "syncing" /\ request'[q] # request[q])
                    => \A v \in db.variables : v.type # "env" => v \in db'.variables
<1>1. ASSUME FleetInv, [Next]_vars
      PROVE  A
  <2>1. CASE UNCHANGED db
    BY <2>1
  <2>2. ASSUME NEW q \in Request, Keeps(q), request[q].op = "syncing" => OtherTypesStay
        PROVE  A
    BY <2>2 DEF Keeps, OtherTypesStay
  <2> QED
    BY <1>1, <2>1, <2>2, DatabaseStep
<1> QED
  BY <1>1, FleetInvariant, PTL DEF Spec, SyncLeavesOtherTypesAlone

-----------------------------------------------------------------------------
(* FleetOperations implements OperationLifecycle.                           *)

Refined == [Lifecycle!Next]_(Lifecycle!vars)

\* A step that leaves every status and every count alone is a stutter.
LEMMA LifecycleStutters ==
    ASSUME UNCHANGED <<operations, executions>>
    PROVE  Refined
BY DEF Refined, Lifecycle!vars

\* One status changes.
LEMMA LifecycleMoves ==
    ASSUME NEW o \in OperationId, NEW from, NEW to, operations[o].status = from,
           operations'[o].status = to, executions' = executions,
           \A p \in OperationId : p # o => operations'[p] = operations[p]
    PROVE  Lifecycle!Moves(o, from, to)
<1> DEFINE s == [p \in OperationId |-> operations[p].status]
<1>1. s' = [s EXCEPT ![o] = to]
  OBVIOUS
<1> QED
  BY <1>1 DEF Lifecycle!Moves

\* The row is inserted once.
LEMMA TriggerRefines ==
    ASSUME FleetInv, NEW q \in Request, TriggerCreate(q), UNCHANGED <<batch, execVars, stream>>
    PROVE  Refined
<1>1. executions' = executions /\ operations \in [OperationId -> Operation]
  BY DEF execVars, FleetInv, CatalogInv, CatalogTypeOK
<1>2. CASE UNCHANGED operations
  BY <1>1, <1>2, LifecycleStutters
<1>3. CASE ~UNCHANGED operations
  <2>0. PICK o \in OperationId :
          /\ operations[o].status = "none"
          /\ \E op : op.status = "queued" /\ operations' = [operations EXCEPT ![o] = op]
    BY <1>3, TriggerCreateStep
  <2>1. PICK op : op.status = "queued" /\ operations' = [operations EXCEPT ![o] = op]
    BY <2>0
  <2>2. /\ operations'[o].status = "queued"
        /\ \A p \in OperationId : p # o => operations'[p] = operations[p]
    BY <1>1, <2>1
  <2>3. Lifecycle!Queue(o)
    BY <1>1, <2>0, <2>2, LifecycleMoves DEF Lifecycle!Queue
  <2> QED
    BY <2>3 DEF Refined, Lifecycle!Next
<1> QED
  BY <1>2, <1>3

\* However many replicas poll, one claims.
LEMMA ClaimRefines ==
    ASSUME FleetInv, NEW n \in Replica, NEW o \in OperationId, PollClaim(n, o)
    PROVE  Refined
<1>1. executions' = executions /\ operations \in [OperationId -> Operation]
  BY DEF PollClaim, FleetInv, CatalogInv, CatalogTypeOK
<1>2. CASE ~TryClaim(o)
  BY <1>1, <1>2, LifecycleStutters DEF PollClaim
<1>3. CASE TryClaim(o)
  <2>1. /\ operations[o].status = "queued" /\ operations'[o].status = "running"
        /\ \A p \in OperationId : p # o => operations'[p] = operations[p]
    BY <1>1, <1>3 DEF PollClaim, TryClaim, Operation
  <2>2. Lifecycle!Claim(o)
    BY <1>1, <2>1, LifecycleMoves DEF Lifecycle!Claim
  <2> QED
    BY <2>2 DEF Refined, Lifecycle!Next
<1> QED
  BY <1>2, <1>3

\* The command of a running operation is started for the first time.
LEMMA CommandRefines ==
    ASSUME FleetInv, NEW o \in OperationId, ExecCommand(o)
    PROVE  Refined
<1>1. exec[o].step = "running" /\ operations' = operations
  BY DEF ExecCommand, catalogVars
<1>2. operations[o].status = "running" /\ executions[o] = 0
  BY <1>1, AtStep DEF Working
<1>3. executions' = [executions EXCEPT ![o] = 1]
  BY <1>2 DEF ExecCommand
<1>4. Lifecycle!Execute(o)
  BY <1>1, <1>2, <1>3 DEF Lifecycle!Execute
<1> QED
  BY <1>4 DEF Refined, Lifecycle!Next

\* MarkFinished has no condition in its WHERE, and needs none: the operation
\* is running, and succeeds only if its command was started.
LEMMA FinishRefines ==
    ASSUME FleetInv, NEW o \in OperationId, ExecFinish(o)
    PROVE  Refined
<1>1. exec[o].step = "finishing" /\ executions' = executions
  BY DEF ExecFinish
<1>2. CASE UNCHANGED operations
  BY <1>1, <1>2, LifecycleStutters
<1>3. CASE MarkFinished(o)
  <2>1. PICK to : to = exec[o].status
    OBVIOUS
  <2>2. /\ operations[o].status = "running" /\ to \in {"success", "failed"}
        /\ to = "success" => executions[o] = 1
    BY <1>1, <2>1, AtStep DEF ReadOK, Working
  <2>3. /\ operations'[o].status = to
        /\ \A p \in OperationId : p # o => operations'[p] = operations[p]
    BY <1>3, <2>1 DEF MarkFinished, Operation, FleetInv, CatalogInv, CatalogTypeOK
  <2>4. Lifecycle!Moves(o, "running", to)
    BY <1>1, <2>2, <2>3, LifecycleMoves
  <2>5. Lifecycle!Succeed(o) \/ Lifecycle!Fail(o)
    BY <2>2, <2>4 DEF Lifecycle!Succeed, Lifecycle!Fail
  <2> QED
    BY <2>5 DEF Refined, Lifecycle!Next
<1> QED
  BY <1>2, <1>3 DEF ExecFinish

\* Every step is a step of the abstract specification, or a stutter.
LEMMA RefinesNext ==
    ASSUME FleetInv, [Next]_vars
    PROVE  Refined
<1>1. CASE CatalogNext /\ UNCHANGED <<batch, execVars, stream>>
  BY <1>1, CatalogNextStep, LifecycleStutters DEF FleetInv, Keeps, execVars
<1>2. ASSUME NEW q \in Request, TriggerRequest(q), UNCHANGED <<batch, execVars, stream>>
      PROVE  Refined
  <2>1. CASE TriggerCreate(q)
    BY <1>2, <2>1, TriggerRefines
  <2>2. CASE ~TriggerCreate(q)
    BY <1>2, <2>2, LifecycleStutters
    DEF TriggerRequest, TriggerFile, TriggerMachine, execVars
  <2> QED
    BY <2>1, <2>2
<1>3. ASSUME NEW n \in Replica, PollScan(n)
      PROVE  Refined
  BY <1>3, LifecycleStutters DEF PollScan, catalogVars, execVars
<1>4. ASSUME NEW n \in Replica, NEW o \in OperationId, PollClaim(n, o)
      PROVE  Refined
  BY <1>4, ClaimRefines
<1>5. ASSUME NEW o \in OperationId, ExecNext(o) \/ ExecAbort(o)
      PROVE  Refined
  <2>1. CASE ExecCommand(o)
    BY <2>1, CommandRefines
  <2>2. CASE ExecFinish(o)
    BY <2>2, FinishRefines
  <2>3. CASE ~ExecCommand(o) /\ ~ExecFinish(o)
    BY <1>5, <2>3, LifecycleStutters
    DEF ExecNext, ExecLoad, ExecMachine, ExecLocal, ExecGlobal, ExecFallback, ExecRender,
        ExecReadFails, ExecUpload, ExecWriteFile, ExecUploadFails, ExecPublish,
        ExecAbort, Goes, catalogVars
  <2> QED
    BY <2>1, <2>2, <2>3
<1>6. ASSUME NEW c \in Stream, StreamNext(c)
      PROVE  Refined
  BY <1>6, LifecycleStutters DEF StreamNext, StreamStart, StreamSubscribe, StreamReceive,
     StreamRecheck, StreamsOnly, catalogVars, execVars
<1>7. CASE UNCHANGED vars
  BY <1>7, LifecycleStutters DEF vars, catalogVars
<1> QED
  BY <1>1, <1>2, <1>3, <1>4, <1>5, <1>6, <1>7 DEF Next

\* The initial states map to initial states.
LEMMA RefinesInit ==
    ASSUME Init
    PROVE  Lifecycle!Init
<1>1. \A o \in OperationId : operations[o].status \in {"none", "queued"}
  BY InitialAssumption DEF Init, CatalogInit
<1> QED
  BY <1>1 DEF Init, Lifecycle!Init

\* Whatever the replicas, requests and failures: an operation is claimed once,
\* its command is started at most once, it ends once, and it succeeds only if
\* its command was started.
THEOREM ImplementsLifecycle == Spec => ImplementsOperationLifecycle
BY RefinesInit, RefinesNext, FleetInvariant, PTL
DEF Spec, ImplementsOperationLifecycle, Lifecycle!Spec, Refined

-----------------------------------------------------------------------------
(* Commands and the documents on the hosts.                                 *)

Sending == {"uploading", "running"}
Ending == {"finishing", "publishing", "ended", "dead"}

\* A document was written by an executor: as the document of a compose file
\* with this directory, or as a file variable that is aimed at it.
DocumentOK(x, doc) ==
    /\ doc.by \in OperationId /\ exec[doc.by].step # "none"
    /\ \/ /\ doc.file = operations[doc.by].file
          /\ \E s \in Setting : DeployDir[s, doc.file] = x[2]
       \/ /\ doc.file = NoValue
          /\ Joined[doc.from, doc.target] = x[2]

\* Executors upload what they rendered themselves.
RendersItsOwn(e, o) == e.step = "rendered" => \A d \in e.rendered : d.by = o

\* The document is this executor's, or of one that could write after it; and
\* whoever can still write is known to be racing.
DocumentFound(o) ==
    /\ exec[o].dir \in DOMAIN remote
    /\ remote[exec[o].dir].by \in {o} \cup exec[o].racing
    /\ \A p \in OperationId \ {o} : exec[p].step \in MayWrite => p \in exec[o].racing

UploadInv ==
    /\ \A x \in DOMAIN remote : DocumentOK(x, remote[x])
    /\ \A o \in OperationId :
          /\ RendersItsOwn(exec[o], o)
          /\ exec[o].step \in Sending /\ exec[o].deployed => DocumentFound(o)

\* A step that writes nothing on a host.
Quiet ==
    /\ remote' = remote
    /\ \A p \in OperationId :
          /\ exec[p].step # "none" =>
                exec'[p].step # "none" /\ operations'[p].file = operations[p].file
          /\ exec'[p].step \in MayWrite => exec[p].step \in MayWrite
          /\ \/ exec'[p] = exec[p]
             \/ exec'[p].step \notin Sending /\ RendersItsOwn(exec'[p], p)

\* Quiet steps keep the invariant.
LEMMA QuietKeeps ==
    ASSUME UploadInv, Quiet
    PROVE  UploadInv'
<1>1. ASSUME NEW x \in DOMAIN remote
      PROVE  DocumentOK(x, remote[x])'
  BY DEF UploadInv, Quiet, DocumentOK
<1>2. ASSUME NEW o \in OperationId
      PROVE  RendersItsOwn(exec'[o], o)
  BY DEF UploadInv, Quiet
<1>3. ASSUME NEW o \in OperationId, exec'[o].step \in Sending, exec'[o].deployed
      PROVE  DocumentFound(o)'
  <2>1. exec'[o] = exec[o] /\ remote' = remote
    BY <1>3 DEF Quiet
  <2>2. DocumentFound(o)
    BY <1>3, <2>1 DEF UploadInv
  <2>3. \A p \in OperationId : exec'[p].step \in MayWrite => exec[p].step \in MayWrite
    BY DEF Quiet
  <2> QED
    BY <2>1, <2>2, <2>3 DEF DocumentFound
<1>4. remote' = remote
  BY DEF Quiet
<1> QED
  BY <1>1, <1>2, <1>3, <1>4 DEF UploadInv

\* An executor that goes on elsewhere than to its upload and its command.
LEMMA GoesQuietly ==
    ASSUME FleetInv, NEW o \in OperationId, NEW from, NEW to, Goes(o, from, to),
           to.step \notin Sending \cup {"none"}, RendersItsOwn(to, o),
           to.step \in MayWrite => from \in MayWrite
    PROVE  Quiet
<1>1. /\ exec[o].step = from /\ exec'[o] = to
      /\ remote' = remote /\ operations' = operations
      /\ \A p \in OperationId : p # o => exec'[p] = exec[p]
  BY DEF Goes, FleetInv, ExecutorInv, catalogVars
<1> QED
  BY <1>1 DEF Quiet

\* finishWithError is quiet.
LEMMA FailingQuietly ==
    ASSUME FleetInv, NEW o \in OperationId, NEW from, Goes(o, from, Failing)
    PROVE  Quiet
<1>1. /\ Failing.step \notin Sending \cup {"none"} /\ RendersItsOwn(Failing, o)
      /\ Failing.step \notin MayWrite
  BY DEF Failing, Sending, RendersItsOwn, MayWrite
<1> QED
  BY <1>1, GoesQuietly

\* The steps in which an executor reads, renders or dies are quiet.
LEMMA ReadsAreQuiet ==
    ASSUME FleetInv, NEW o \in OperationId,
           \/ ExecLoad(o) \/ ExecMachine(o) \/ ExecLocal(o) \/ ExecGlobal(o)
           \/ ExecFallback(o) \/ ExecRender(o) \/ ExecReadFails(o)
           \/ ExecUploadFails(o) \/ ExecAbort(o)
    PROVE  Quiet
<1>1. CASE ExecLoad(o) \/ ExecMachine(o) \/ ExecLocal(o) \/ ExecGlobal(o)
  <2>1. PICK from, to : /\ from \in {"claimed", "loaded", "connected", "local"}
                        /\ to.step \in {"loaded", "connected", "local", "global"}
                        /\ Goes(o, from, to)
    <3>1. CASE ExecLoad(o)
      BY <3>1 DEF ExecLoad
    <3>2. CASE ExecMachine(o)
      BY <3>2 DEF ExecMachine
    <3>3. CASE ExecLocal(o)
      BY <3>3 DEF ExecLocal
    <3>4. CASE ExecGlobal(o)
      BY <3>4 DEF ExecGlobal
    <3> QED
      BY <1>1, <3>1, <3>2, <3>3, <3>4
  <2>2. from \in MayWrite /\ to.step \notin Sending \cup {"none"} /\ RendersItsOwn(to, o)
    BY <2>1 DEF MayWrite, Sending, RendersItsOwn
  <2> QED
    BY <2>1, <2>2, GoesQuietly
<1>2. CASE ExecFallback(o)
  <2>1. PICK to : Goes(o, "global", to) /\ (to = Failing \/ to.step = "resolved")
    BY <1>2 DEF ExecFallback
  <2>2. CASE to.step = "resolved"
    BY <2>1, <2>2, GoesQuietly DEF MayWrite, Sending, RendersItsOwn
  <2> QED
    BY <2>1, <2>2, FailingQuietly
<1>3. CASE ExecRender(o)
  <2>1. PICK files, R, to :
          /\ \/ R = {}
             \/ R = {RenderCompose(o, NetworksOf(operations[o].file),
                                   VolumesOf(operations[o].file))}
          /\ to = [step |-> "rendered", dir |-> exec[o].dir, files |-> files, rendered |-> R]
          /\ Goes(o, "resolved", to) \/ Goes(o, "resolved", Failing)
    BY <1>3 DEF ExecRender
  <2>2. \A d \in R : d.by = o
    BY <2>1 DEF RenderCompose
  <2>3. to.step = "rendered" /\ RendersItsOwn(to, o)
    BY <2>1, <2>2 DEF RendersItsOwn
  <2>4. CASE Goes(o, "resolved", to)
    BY <2>3, <2>4, GoesQuietly DEF MayWrite, Sending
  <2> QED
    BY <2>1, <2>4, FailingQuietly
<1>4. CASE ExecReadFails(o) \/ ExecUploadFails(o)
  <2>1. PICK from : Goes(o, from, Failing)
    BY <1>4 DEF ExecReadFails, ExecUploadFails
  <2> QED
    BY <2>1, FailingQuietly
<1>5. CASE ExecAbort(o)
  <2>1. PICK from, to : to.step = "dead" /\ Goes(o, from, to)
    BY <1>5 DEF ExecAbort
  <2> QED
    BY <2>1, GoesQuietly DEF MayWrite, Sending, RendersItsOwn
<1> QED
  BY <1>1, <1>2, <1>3, <1>4, <1>5

\* So are those of its command and after it.
LEMMA EndsAreQuiet ==
    ASSUME FleetInv, NEW o \in OperationId,
           ExecCommand(o) \/ ExecFinish(o) \/ ExecPublish(o)
    PROVE  Quiet
<1>a. operations \in [OperationId -> Operation] /\ DOMAIN exec = OperationId
  BY DEF FleetInv, CatalogInv, CatalogTypeOK, ExecutorInv
<1> DEFINE Goal == \E to : to.step \in Ending /\ exec' = [exec EXCEPT ![o] = to]
<1>1. Goal
  <2>1. CASE ExecCommand(o)
    <3>1. PICK to : to.step = "finishing" /\ exec' = [exec EXCEPT ![o] = to]
      BY <2>1 DEF ExecCommand, Failing
    <3>2. to.step \in Ending
      BY <3>1 DEF Ending
    <3> QED
      BY <3>1, <3>2
  <2>2. CASE ExecFinish(o)
    BY <2>2 DEF ExecFinish, Ending
  <2>3. CASE ExecPublish(o)
    <3>1. PICK to : to = [step |-> IF exec[o].written THEN "ended" ELSE "dead"]
      OBVIOUS
    <3>2. to.step \in Ending /\ exec' = [exec EXCEPT ![o] = to]
      BY <2>3, <3>1 DEF ExecPublish, Ending
    <3> QED
      BY <3>2
  <2> QED
    BY <2>1, <2>2, <2>3
<1>2. remote' = remote
  BY DEF ExecCommand, ExecFinish, ExecPublish
<1>3. \A p \in OperationId : operations'[p].file = operations[p].file
  <2>1. CASE ExecFinish(o)
    BY <1>a, <2>1 DEF ExecFinish, MarkFinished, Operation
  <2>2. CASE ExecCommand(o) \/ ExecPublish(o)
    BY <2>2 DEF ExecCommand, ExecPublish, catalogVars
  <2> QED
    BY <2>1, <2>2
<1>4. PICK to : to.step \in Ending /\ exec' = [exec EXCEPT ![o] = to]
  BY <1>1
<1>5. exec'[o] = to /\ \A p \in OperationId : p # o => exec'[p] = exec[p]
  BY <1>a, <1>4
<1>6. to.step \notin Sending \cup {"none"} \cup MayWrite /\ RendersItsOwn(to, o)
  BY <1>4 DEF Ending, Sending, MayWrite, RendersItsOwn
<1> QED
  BY <1>2, <1>3, <1>5, <1>6 DEF Quiet

\* All steps but those of an upload are quiet.
LEMMA OthersAreQuiet ==
    ASSUME FleetInv, [Next]_vars,
           \A o \in OperationId : ~ExecUpload(o) /\ ~ExecWriteFile(o)
    PROVE  Quiet
<1>a. operations \in [OperationId -> Operation] /\ DOMAIN exec = OperationId
  BY DEF FleetInv, CatalogInv, CatalogTypeOK, ExecutorInv
<1>b. UNCHANGED <<remote, exec, operations>> => Quiet
  BY DEF Quiet
<1>1. CASE CatalogNext /\ UNCHANGED <<batch, execVars, stream>>
  BY <1>1, <1>b, CatalogNextStep DEF FleetInv, Keeps, execVars
<1>2. ASSUME NEW q \in Request, TriggerRequest(q), UNCHANGED <<batch, execVars, stream>>
      PROVE  Quiet
  <2>1. CASE UNCHANGED operations
    BY <1>2, <1>b, <2>1 DEF execVars
  <2>2. CASE ~UNCHANGED operations
    <3>1. TriggerCreate(q)
      BY <1>2, <2>2 DEF TriggerRequest, TriggerFile, TriggerMachine
    <3>0. PICK o \in OperationId :
            /\ operations[o].status = "none"
            /\ \E op : operations' = [operations EXCEPT ![o] = op]
      BY <1>2, <2>2, <3>1, TriggerCreateStep
    <3>2. PICK op : operations' = [operations EXCEPT ![o] = op]
      BY <3>0
    <3>3. exec[o].step = "none"
      BY <3>0 DEF FleetInv, ExecutorInv, ExecOK, StepOK
    <3>4. \A p \in OperationId : p # o => operations'[p] = operations[p]
      BY <1>a, <3>2
    <3> QED
      BY <1>2, <3>3, <3>4 DEF Quiet, execVars
  <2> QED
    BY <2>1, <2>2
<1>3. ASSUME NEW n \in Replica, PollScan(n)
      PROVE  Quiet
  BY <1>3, <1>b DEF PollScan, catalogVars, execVars
<1>4. ASSUME NEW n \in Replica, NEW o \in OperationId, PollClaim(n, o)
      PROVE  Quiet
  <2>1. CASE UNCHANGED <<operations, exec>>
    BY <1>4, <1>b, <2>1 DEF PollClaim
  <2>2. CASE /\ TryClaim(o)
             /\ operations' = [operations EXCEPT ![o].status = "running"]
             /\ exec' = [exec EXCEPT ![o] = [step |-> "claimed"]]
    <3>1. \A p \in OperationId : operations'[p].file = operations[p].file
      BY <1>a, <2>2 DEF Operation
    <3>2. /\ exec'[o].step = "claimed"
          /\ \A p \in OperationId : p # o => exec'[p] = exec[p]
      BY <1>a, <2>2
    <3>3. exec[o].step = "none"
      BY <2>2 DEF TryClaim, FleetInv, ExecutorInv, ExecOK, StepOK
    <3>4. exec[o].step \in MayWrite /\ exec'[o].step \notin Sending
          /\ RendersItsOwn(exec'[o], o)
      BY <3>2, <3>3 DEF MayWrite, Sending, RendersItsOwn
    <3> QED
      BY <1>4, <3>1, <3>2, <3>3, <3>4 DEF Quiet, PollClaim
  <2> QED
    BY <1>4, <2>1, <2>2 DEF PollClaim
<1>5. ASSUME NEW o \in OperationId, ExecNext(o) \/ ExecAbort(o)
      PROVE  Quiet
  BY <1>5, ReadsAreQuiet, EndsAreQuiet DEF ExecNext
<1>6. ASSUME NEW c \in Stream, StreamNext(c)
      PROVE  Quiet
  BY <1>6, <1>b DEF StreamNext, StreamStart, StreamSubscribe, StreamReceive,
     StreamRecheck, StreamsOnly, catalogVars, execVars
<1>7. CASE UNCHANGED vars
  BY <1>7, <1>b DEF vars, catalogVars
<1> QED
  BY <1>1, <1>2, <1>3, <1>4, <1>5, <1>6, <1>7 DEF Next

\* A write on a host: of the documents that are there, each was written by an
\* executor that had not gone further when another's upload began.
LEMMA WriteKeeps ==
    ASSUME FleetInv, UploadInv, NEW o \in OperationId,
           exec[o].step \in {"rendered", "uploading"}, operations' = operations,
           \A p \in OperationId : p # o => exec'[p] = exec[p],
           exec'[o].step \in Sending,
           exec'[o].deployed => DocumentFound(o)',
           \/ remote' = remote
           \/ \E x, d : remote' = Written(x, d) /\ d.by = o /\ DocumentOK(x, d)
    PROVE  UploadInv'
<1>1. \A p \in OperationId : exec[p].step # "none" => exec'[p].step # "none"
  BY DEF Sending
<1>2. /\ DOMAIN remote \subseteq DOMAIN remote'
      /\ \A x \in DOMAIN remote' :
            \/ x \in DOMAIN remote /\ remote'[x] = remote[x]
            \/ remote'[x].by = o /\ DocumentOK(x, remote'[x])
  <2>1. CASE remote' = remote
    BY <2>1
  <2>2. CASE \E x, d : remote' = Written(x, d) /\ d.by = o /\ DocumentOK(x, d)
    <3>1. PICK y, d : remote' = Written(y, d) /\ d.by = o /\ DocumentOK(y, d)
      BY <2>2
    <3>2. /\ DOMAIN remote' = DOMAIN remote \cup {y} /\ remote'[y] = d
          /\ \A x \in DOMAIN remote : x # y => remote'[x] = remote[x]
      BY <3>1 DEF Written
    <3> QED
      BY <3>1, <3>2
  <2> QED
    BY <2>1, <2>2
<1>3. ASSUME NEW x \in DOMAIN remote'
      PROVE  DocumentOK(x, remote[x])'
  <2>1. DocumentOK(x, remote'[x])
    BY <1>2 DEF UploadInv
  <2> QED
    BY <1>1, <2>1 DEF DocumentOK
<1>4. ASSUME NEW p \in OperationId
      PROVE  RendersItsOwn(exec'[p], p)
  BY DEF UploadInv, RendersItsOwn, Sending
<1>5. ASSUME NEW p \in OperationId, p # o, exec'[p].step \in Sending, exec'[p].deployed
      PROVE  DocumentFound(p)'
  <2>1. exec'[p] = exec[p]
    BY <1>5
  <2>2. DocumentFound(p)
    BY <1>5, <2>1 DEF UploadInv
  <2>3. o \in exec[p].racing
    BY <1>5, <2>2 DEF DocumentFound, MayWrite
  <2>4. exec'[p].dir \in DOMAIN remote' /\ remote'[exec'[p].dir].by \in {p} \cup exec'[p].racing
    BY <1>2, <2>1, <2>2, <2>3 DEF DocumentFound
  <2>5. \A r \in OperationId \ {p} : exec'[r].step \in MayWrite => r \in exec'[p].racing
    BY <2>1, <2>2, <2>3 DEF DocumentFound
  <2> QED
    BY <2>4, <2>5 DEF DocumentFound
<1> QED
  BY <1>3, <1>4, <1>5 DEF UploadInv

\* What the executor goes on with.
LEMMA SendsTo ==
    ASSUME FleetInv, NEW o \in OperationId, NEW deployed, NEW racing, NEW files,
           Sends(o, deployed, racing, files)
    PROVE  /\ exec'[o].step \in Sending /\ exec'[o].dir = exec[o].dir
           /\ exec'[o].deployed = deployed /\ exec'[o].racing = racing
           /\ \A p \in OperationId : p # o => exec'[p] = exec[p]
<1>1. PICK step, to : /\ step = IF files = {} THEN "running" ELSE "uploading"
                      /\ to = [step |-> step, dir |-> exec[o].dir, deployed |-> deployed,
                               racing |-> racing, files |-> files]
  OBVIOUS
<1>2. exec' = [exec EXCEPT ![o] = to]
  BY <1>1 DEF Sends
<1>3. exec'[o] = to /\ \A p \in OperationId : p # o => exec'[p] = exec[p]
  BY <1>2 DEF FleetInv, ExecutorInv
<1> QED
  BY <1>1, <1>3 DEF Sending

\* The document is uploaded.
LEMMA UploadKeeps ==
    ASSUME FleetInv, UploadInv, NEW o \in OperationId, ExecUpload(o)
    PROVE  UploadInv'
<1>1. PICK deployed, racing :
        /\ deployed = (exec[o].rendered # {})
        /\ racing = {p \in OperationId \ {o} : exec[p].step \in MayWrite}
        /\ Sends(o, deployed, racing, exec[o].files)
  BY DEF ExecUpload
<1>2. exec[o].step = "rendered" /\ operations' = operations
  BY DEF ExecUpload, catalogVars
<1>3. /\ exec'[o].step \in Sending /\ exec'[o].dir = exec[o].dir
      /\ exec'[o].deployed = deployed /\ exec'[o].racing = racing
      /\ \A p \in OperationId : p # o => exec'[p] = exec[p]
  BY <1>1, SendsTo
<1>4. CASE exec[o].rendered = {}
  <2>1. remote' = remote /\ ~exec'[o].deployed
    BY <1>1, <1>3, <1>4 DEF ExecUpload
  <2> QED
    BY <1>2, <1>3, <2>1, WriteKeeps
<1>5. CASE exec[o].rendered # {}
  <2>1. PICK d \in exec[o].rendered : d = CHOOSE x \in exec[o].rendered : TRUE
    BY <1>5
  <2>2. PICK dir : dir = exec[o].dir
    OBVIOUS
  <2>3. remote' = Written(dir, d)
    BY <1>5, <2>1, <2>2 DEF ExecUpload
  <2>4. d.by = o
    BY <1>2 DEF UploadInv, RendersItsOwn
  <2>5. d.file = operations[o].file /\ DirOK(dir, operations[o].file)
    BY <1>2, <2>2, AtStep DEF ReadOK, Working, WithDir
  <2>6. DocumentOK(dir, d)
    BY <1>2, <2>4, <2>5 DEF DocumentOK, DirOK
  <2>7. dir \in DOMAIN remote' /\ remote'[dir] = d
    BY <2>3 DEF Written
  <2>8. \A p \in OperationId \ {o} : exec'[p].step \in MayWrite => p \in racing
    BY <1>1, <1>3
  <2>9. DocumentFound(o)'
    BY <1>3, <2>2, <2>4, <2>7, <2>8 DEF DocumentFound
  <2> QED
    BY <1>2, <1>3, <2>3, <2>4, <2>6, <2>9, WriteKeeps
<1> QED
  BY <1>4, <1>5

\* A file variable is written.
LEMMA WriteFileKeeps ==
    ASSUME FleetInv, UploadInv, NEW o \in OperationId, ExecWriteFile(o)
    PROVE  UploadInv'
<1>1. PICK v, to :
        /\ v \in exec[o].files
        /\ to = Joined[exec[o].dir[2], v.target]
        /\ Sends(o, exec[o].deployed, exec[o].racing, exec[o].files \ {v})
        /\ remote' = IF to = NoValue THEN remote
                     ELSE Written(<<exec[o].dir[1], to>>, FileDocument(o, v))
  BY DEF ExecWriteFile
<1>2. exec[o].step = "uploading" /\ operations' = operations
  BY DEF ExecWriteFile, catalogVars
<1>3. /\ exec'[o].step \in Sending /\ exec'[o].dir = exec[o].dir
      /\ exec'[o].deployed = exec[o].deployed /\ exec'[o].racing = exec[o].racing
      /\ \A p \in OperationId : p # o => exec'[p] = exec[p]
  BY <1>1, SendsTo
<1>4. PICK x, d : x = <<exec[o].dir[1], to>> /\ d = FileDocument(o, v)
  OBVIOUS
<1>5. /\ x[2] = to /\ d.by = o /\ d.file = NoValue
      /\ d.from = exec[o].dir[2] /\ d.target = v.target
  BY <1>4 DEF FileDocument
<1>6. DocumentOK(x, d)
  BY <1>1, <1>2, <1>5 DEF DocumentOK
<1>7. remote' = remote \/ remote' = Written(x, d)
  BY <1>1, <1>4
<1>8. ASSUME exec'[o].deployed
      PROVE  DocumentFound(o)'
  <2>1. DocumentFound(o)
    BY <1>2, <1>3, <1>8 DEF UploadInv, Sending
  <2>2. /\ DOMAIN remote \subseteq DOMAIN remote'
        /\ \A y \in DOMAIN remote : remote'[y] = remote[y] \/ remote'[y] = d
    BY <1>7 DEF Written
  <2>3. /\ exec'[o].dir \in DOMAIN remote'
        /\ remote'[exec'[o].dir].by \in {o} \cup exec'[o].racing
    BY <1>3, <1>5, <2>1, <2>2 DEF DocumentFound
  <2>4. \A p \in OperationId \ {o} : exec'[p].step \in MayWrite => p \in exec'[o].racing
    BY <1>3, <2>1 DEF DocumentFound
  <2> QED
    BY <2>3, <2>4 DEF DocumentFound
<1> QED
  BY <1>2, <1>3, <1>5, <1>6, <1>7, <1>8, WriteKeeps

\* Whatever directories the compose files have and wherever file variables are
\* aimed: the command of a deploy finds the document that its executor
\* rendered, unless an upload that was not over when this one began has
\* written there since, and then as a compose file with this directory or as a
\* file variable whose target names the document.
THEOREM CommandsFindTheirFile == Spec => []CommandFindsItsFile
<1>1. Init => UploadInv
  BY DEF Init, UploadInv, NoExec, RendersItsOwn, Sending
<1>2. ASSUME FleetInv, UploadInv, [Next]_vars
      PROVE  UploadInv'
  <2>1. CASE \E o \in OperationId : ExecUpload(o) \/ ExecWriteFile(o)
    BY <1>2, <2>1, UploadKeeps, WriteFileKeeps
  <2>2. CASE \A o \in OperationId : ~ExecUpload(o) /\ ~ExecWriteFile(o)
    BY <1>2, <2>2, OthersAreQuiet, QuietKeeps
  <2> QED
    BY <2>1, <2>2
<1>3. UploadInv => CommandFindsItsFile
  BY DEF UploadInv, CommandFindsItsFile, DocumentOK, DocumentFound, Sending
<1> QED
  BY <1>1, <1>2, <1>3, FleetInvariant, PTL DEF Spec

=============================================================================
