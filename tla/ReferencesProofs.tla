-------------------------- MODULE ReferencesProofs -------------------------
(***************************************************************************)
(* Proofs about what bindings, variables and workspaces of                 *)
(* ProjectResources point at without a foreign key.                        *)
(*                                                                         *)
(* While no two requests have overlapped, at most one is under way, and    *)
(* nothing but the reaper has stepped in since its checks.  The invariant  *)
(* Tidy says what that request therefore still knows (Knows): what it is   *)
(* about to point at is there, or its Organization has been purged, and    *)
(* nothing points any more at what it is about to delete.  Knows is not    *)
(* stable under steps of other requests; that is why the theorems speak of *)
(* runs without overlap.                                                   *)
(*                                                                         *)
(* There is one lemma per transaction (XTidy) that nothing dangles after   *)
(* it, one per request (XCleans) that what it goes on as knows enough, and *)
(* TidyStep puts them together.                                            *)
(***************************************************************************)
EXTENDS ProjectResourcesProofs

-----------------------------------------------------------------------------
(* What a request knows.                                                    *)

IsIn(d, o, u) == \E m \in d.members : m.org = o /\ m.user = u
NoneFor(d, o, type, s) ==
    \A b \in d.bindings : ~(b.org = o /\ b.subjectType = type /\ b.subject = s)
HasEnvironment(d, w) ==
    \/ w.environment = 0
    \/ [org |-> w.org, project |-> w.project, id |-> w.environment] \in d.environments

KnowingOp == {"createBinding", "orgOwner", "addMemberRole", "changeRole", "removeMembership",
              "deleteTeamRows", "createVariable", "createWorkspace"}
Knows(d, r) ==
    /\ r.op = "createBinding" /\ Exists(d, r.row.org) =>
          SubjectExists(d, r.row) /\ ScopeExists(d, r.row)
    /\ r.op \in {"orgOwner", "addMemberRole"} /\ Exists(d, r.org) => IsIn(d, r.org, r.user)
    /\ r.op = "addMemberRole" =>
          NoneFor(d, r.org, "user", r.user) /\ NoneFor(d, r.org, "service_account", r.user)
    /\ r.op = "changeRole" /\ Exists(d, r.org) =>
          IsIn(d, r.org, r.user) \/ RowExists(d.accounts, r.org, r.user)
    /\ r.op = "removeMembership" => NoneFor(d, r.org, "user", r.user)
    /\ r.op = "deleteTeamRows" => NoneFor(d, r.org, "team", r.id)
    /\ r.op = "createVariable" /\ Exists(d, r.org) => ScopeExists(d, r)
    /\ r.op = "createWorkspace" /\ Exists(d, r.org) => HasEnvironment(d, r)

Resting == {"idle", "ended", "resolved"}
Tidy ==
    ~overlap => /\ \A p, q \in Active : p = q
                /\ NothingDangles(db)
                /\ \A q \in Request : Knows(db, request[q])

\* Most requests need to know nothing.
LEMMA PlainKnows ==
    ASSUME NEW d, NEW r, r.op \notin KnowingOp
    PROVE  Knows(d, r)
BY DEF Knows, KnowingOp

-----------------------------------------------------------------------------
(* Changes of one table.                                                    *)

\* Nothing that may be pointed at is lost, and what points is right.
Harmless(d, e, t) ==
    /\ t = "members" => \A m \in d.members : IsIn(e, m.org, m.user)
    /\ t \in {"teams", "accounts", "projects", "workspaces"} =>
          \A x \in d[t] : RowExists(e[t], x.org, x.id)
    /\ t = "environments" => d.environments \subseteq e.environments
    /\ t = "workspaces" => \A w \in e.workspaces : HasEnvironment(d, w)
    /\ t = "bindings" => \A b \in e.bindings : SubjectExists(d, b) /\ ScopeExists(d, b)
    /\ t = "variables" => \A v \in e.variables : ScopeExists(d, v)

LEMMA NothingDanglesIf ==
    ASSUME NEW d,
           \A b \in d.bindings : SubjectExists(d, b) /\ ScopeExists(d, b),
           \A v \in d.variables : ScopeExists(d, v),
           \A w \in d.workspaces : HasEnvironment(d, w)
    PROVE  NothingDangles(d)
BY DEF NothingDangles, HasEnvironment

LEMMA HarmlessTidy ==
    ASSUME NEW d, NEW e, NEW t \in Table, NothingDangles(d), Fixes(d, e, {t}), Harmless(d, e, t)
    PROVE  NothingDangles(e)
<1>1. \A m \in d.members : IsIn(e, m.org, m.user)
  BY FixesAll DEF Harmless, IsIn
<1>2. /\ \A x \in d.teams : RowExists(e.teams, x.org, x.id)
      /\ \A x \in d.accounts : RowExists(e.accounts, x.org, x.id)
      /\ \A x \in d.projects : RowExists(e.projects, x.org, x.id)
      /\ \A x \in d.workspaces : RowExists(e.workspaces, x.org, x.id)
  BY FixesAll DEF Harmless, RowExists
<1>3. d.environments \subseteq e.environments
  BY FixesAll DEF Harmless
<1>4. ASSUME NEW b, SubjectExists(d, b) PROVE SubjectExists(e, b)
  BY <1>1, <1>2, <1>4 DEF SubjectExists, RowExists, IsIn
<1>5. ASSUME NEW x, ScopeExists(d, x) PROVE ScopeExists(e, x)
  BY <1>2, <1>3, <1>5 DEF ScopeExists, RowExists
<1>6. \A b \in e.bindings : SubjectExists(d, b) /\ ScopeExists(d, b)
  BY FixesAll DEF Harmless, NothingDangles
<1>7. \A v \in e.variables : ScopeExists(d, v)
  BY FixesAll DEF Harmless, NothingDangles
<1>8. \A w \in e.workspaces : HasEnvironment(d, w)
  <2>1. \A w \in d.workspaces : HasEnvironment(d, w)
    BY DEF NothingDangles, HasEnvironment
  <2> QED
    BY <2>1, FixesAll DEF Harmless
<1>9. \A w \in e.workspaces : HasEnvironment(e, w)
  BY <1>3, <1>8 DEF HasEnvironment
<1> QED
  BY <1>4, <1>5, <1>6, <1>7, <1>9, NothingDanglesIf

\* A row is inserted.
LEMMA InsertTidy ==
    ASSUME NEW d \in Database, NEW e, NEW t \in Table, NothingDangles(d), NEW new,
           Fixes(d, e, {t}), e[t] = d[t] \cup {new},
           t = "bindings" => SubjectExists(d, new) /\ ScopeExists(d, new),
           t = "variables" => ScopeExists(d, new),
           t = "workspaces" => HasEnvironment(d, new)
    PROVE  NothingDangles(e)
<1>1. \A x \in e[t] : x \in d[t] \/ x = new
  OBVIOUS
<1>2. Harmless(d, e, t)
  BY <1>1 DEF Harmless, NothingDangles, IsIn, RowExists, HasEnvironment
<1> QED
  BY <1>2, HarmlessTidy

\* Rows are deleted that nothing points at.
LEMMA DeleteTidy ==
    ASSUME NEW d \in Database, NEW e, NEW t \in {"bindings", "variables"}, NothingDangles(d),
           NEW R, R \subseteq d[t], e = [d EXCEPT ![t] = R]
    PROVE  NothingDangles(e)
<1>1. Fixes(d, e, {t}) /\ e[t] = R /\ t \in Table
  BY DEF Fixes, Table, OrgTable, Database
<1>2. Harmless(d, e, t)
  BY <1>1 DEF Harmless, NothingDangles
<1> QED
  BY <1>1, <1>2, HarmlessTidy

\* A table is changed that neither points nor is pointed at.
LEMMA ApartTidy ==
    ASSUME NEW d, NEW e, NEW T, NothingDangles(d), Fixes(d, e, T),
           T \subseteq {"orgs", "archivals", "roles", "apiKeys", "teamMembers", "admins"}
    PROVE  NothingDangles(e)
<1>1. /\ e.members = d.members /\ e.teams = d.teams /\ e.accounts = d.accounts
      /\ e.projects = d.projects /\ e.environments = d.environments
      /\ e.workspaces = d.workspaces /\ e.bindings = d.bindings /\ e.variables = d.variables
  BY FixesAll
<1> QED
  BY <1>1 DEF NothingDangles, SubjectExists, ScopeExists


-----------------------------------------------------------------------------
(* Transactions.                                                            *)

Before == db \in Database /\ NothingDangles(db)

LEMMA InsertRoleTidy ==
    ASSUME Before, NEW o, NEW p, InsertRole(o, p)
    PROVE  NothingDangles(db')
<1>1. PICK d, e : d = db /\ e = db' /\ d \in Database /\ NothingDangles(d)
  BY DEF Before
<1>2. PICK new : new = [id |-> d.next, org |-> o, permissions |-> p]
  OBVIOUS
<1>3. e = d \/ e = [[d EXCEPT !.roles = @ \cup {new}] EXCEPT !.next = @ + 1]
  BY <1>1, <1>2 DEF InsertRole, Insert
<1>4. PICK R : R = d.roles \cup {new}
  OBVIOUS
<1>5. e = d \/ e = [[d EXCEPT !.roles = R] EXCEPT !.next = d.next + 1]
  BY <1>1, <1>3, <1>4 DEF Database
<1>6. e = d \/ (Fixes(d, e, {"roles"}) /\ e["roles"] = R)
  BY <1>1, <1>5 DEF Fixes, Table, OrgTable, Database
<1> QED
  BY <1>1, <1>4, <1>6, InsertTidy DEF Table, OrgTable

LEMMA InsertServiceAccountTidy ==
    ASSUME Before, NEW o, InsertServiceAccount(o)
    PROVE  NothingDangles(db')
<1>1. PICK d, e : d = db /\ e = db' /\ d \in Database /\ NothingDangles(d)
  BY DEF Before
<1>2. PICK new : new = [org |-> o, id |-> d.next]
  OBVIOUS
<1>3. e = d \/ e = [[d EXCEPT !.accounts = @ \cup {new}] EXCEPT !.next = @ + 1]
  BY <1>1, <1>2 DEF InsertServiceAccount, Insert
<1>4. PICK R : R = d.accounts \cup {new}
  OBVIOUS
<1>5. e = d \/ e = [[d EXCEPT !.accounts = R] EXCEPT !.next = d.next + 1]
  BY <1>1, <1>3, <1>4 DEF Database
<1>6. e = d \/ (Fixes(d, e, {"accounts"}) /\ e["accounts"] = R)
  BY <1>1, <1>5 DEF Fixes, Table, OrgTable, Database
<1> QED
  BY <1>1, <1>4, <1>6, InsertTidy DEF Table, OrgTable

LEMMA InsertAPIKeyTidy ==
    ASSUME Before, NEW o, NEW a, NEW s, InsertAPIKey(o, a, s)
    PROVE  NothingDangles(db')
<1>1. PICK d, e : d = db /\ e = db' /\ d \in Database /\ NothingDangles(d)
  BY DEF Before
<1>2. PICK new : new = [org |-> o, id |-> d.next, owner |-> a, scopes |-> s,
                     revoked |-> FALSE]
  OBVIOUS
<1>3. e = d \/ e = [[d EXCEPT !.apiKeys = @ \cup {new}] EXCEPT !.next = @ + 1]
  BY <1>1, <1>2 DEF InsertAPIKey, Insert
<1>4. PICK R : R = d.apiKeys \cup {new}
  OBVIOUS
<1>5. e = d \/ e = [[d EXCEPT !.apiKeys = R] EXCEPT !.next = d.next + 1]
  BY <1>1, <1>3, <1>4 DEF Database
<1>6. e = d \/ (Fixes(d, e, {"apiKeys"}) /\ e["apiKeys"] = R)
  BY <1>1, <1>5 DEF Fixes, Table, OrgTable, Database
<1> QED
  BY <1>1, <1>4, <1>6, InsertTidy DEF Table, OrgTable

LEMMA InsertOrganizationTidy ==
    ASSUME Before, InsertOrganization
    PROVE  NothingDangles(db')
<1>1. PICK d, e : d = db /\ e = db' /\ d \in Database /\ NothingDangles(d)
  BY DEF Before
<1>2. PICK new : new = [id |-> d.next, archived |-> FALSE]
  OBVIOUS
<1>3. e = d \/ e = [[d EXCEPT !.orgs = @ \cup {new}] EXCEPT !.next = @ + 1]
  BY <1>1, <1>2 DEF InsertOrganization, Insert
<1>4. PICK R : R = d.orgs \cup {new}
  OBVIOUS
<1>5. e = d \/ e = [[d EXCEPT !.orgs = R] EXCEPT !.next = d.next + 1]
  BY <1>1, <1>3, <1>4 DEF Database
<1>6. e = d \/ (Fixes(d, e, {"orgs"}) /\ e["orgs"] = R)
  BY <1>1, <1>5 DEF Fixes, Table, OrgTable, Database
<1> QED
  BY <1>1, <1>4, <1>6, InsertTidy DEF Table, OrgTable

LEMMA InsertMembershipTidy ==
    ASSUME Before, NEW o, NEW u, InsertMembership(o, u)
    PROVE  NothingDangles(db')
<1>1. PICK d, e : d = db /\ e = db' /\ d \in Database /\ NothingDangles(d)
  BY DEF Before
<1>2. PICK new : new = [org |-> o, user |-> u, blocked |-> FALSE]
  OBVIOUS
<1>3. e = d \/ e = [d EXCEPT !.members = @ \cup {new}]
  BY <1>1, <1>2 DEF InsertMembership
<1>4. PICK R : R = d.members \cup {new}
  OBVIOUS
<1>5. e = d \/ e = [d EXCEPT !.members = R]
  BY <1>1, <1>3, <1>4 DEF Database
<1>6. e = d \/ (Fixes(d, e, {"members"}) /\ e["members"] = R)
  BY <1>1, <1>5 DEF Fixes, Table, OrgTable, Database
<1> QED
  BY <1>1, <1>4, <1>6, InsertTidy DEF Table, OrgTable

LEMMA InsertTeamTidy ==
    ASSUME Before, NEW o, NEW n, InsertTeam(o, n)
    PROVE  NothingDangles(db')
<1>1. PICK d, e : d = db /\ e = db' /\ d \in Database /\ NothingDangles(d)
  BY DEF Before
<1>2. PICK new : new = [org |-> o, id |-> d.next, name |-> n]
  OBVIOUS
<1>3. e = d \/ e = [[d EXCEPT !.teams = @ \cup {new}] EXCEPT !.next = @ + 1]
  BY <1>1, <1>2 DEF InsertTeam, Insert
<1>4. PICK R : R = d.teams \cup {new}
  OBVIOUS
<1>5. e = d \/ e = [[d EXCEPT !.teams = R] EXCEPT !.next = d.next + 1]
  BY <1>1, <1>3, <1>4 DEF Database
<1>6. e = d \/ (Fixes(d, e, {"teams"}) /\ e["teams"] = R)
  BY <1>1, <1>5 DEF Fixes, Table, OrgTable, Database
<1> QED
  BY <1>1, <1>4, <1>6, InsertTidy DEF Table, OrgTable

LEMMA InsertTeamMemberTidy ==
    ASSUME Before, NEW o, NEW i, NEW s, InsertTeamMember(o, i, s)
    PROVE  NothingDangles(db')
<1>1. PICK d, e : d = db /\ e = db' /\ d \in Database /\ NothingDangles(d)
  BY DEF Before
<1>2. PICK new : new = [org |-> o, team |-> i, user |-> s]
  OBVIOUS
<1>3. e = d \/ e = [d EXCEPT !.teamMembers = @ \cup {new}]
  BY <1>1, <1>2 DEF InsertTeamMember
<1>4. PICK R : R = d.teamMembers \cup {new}
  OBVIOUS
<1>5. e = d \/ e = [d EXCEPT !.teamMembers = R]
  BY <1>1, <1>3, <1>4 DEF Database
<1>6. e = d \/ (Fixes(d, e, {"teamMembers"}) /\ e["teamMembers"] = R)
  BY <1>1, <1>5 DEF Fixes, Table, OrgTable, Database
<1> QED
  BY <1>1, <1>4, <1>6, InsertTidy DEF Table, OrgTable

LEMMA InsertProjectTidy ==
    ASSUME Before, NEW o, InsertProject(o)
    PROVE  NothingDangles(db')
<1>1. PICK d, e : d = db /\ e = db' /\ d \in Database /\ NothingDangles(d)
  BY DEF Before
<1>2. PICK new : new = [org |-> o, id |-> d.next]
  OBVIOUS
<1>3. e = d \/ e = [[d EXCEPT !.projects = @ \cup {new}] EXCEPT !.next = @ + 1]
  BY <1>1, <1>2 DEF InsertProject, Insert
<1>4. PICK R : R = d.projects \cup {new}
  OBVIOUS
<1>5. e = d \/ e = [[d EXCEPT !.projects = R] EXCEPT !.next = d.next + 1]
  BY <1>1, <1>3, <1>4 DEF Database
<1>6. e = d \/ (Fixes(d, e, {"projects"}) /\ e["projects"] = R)
  BY <1>1, <1>5 DEF Fixes, Table, OrgTable, Database
<1> QED
  BY <1>1, <1>4, <1>6, InsertTidy DEF Table, OrgTable

LEMMA InsertEnvironmentTidy ==
    ASSUME Before, NEW o, NEW p, InsertEnvironment(o, p)
    PROVE  NothingDangles(db')
<1>1. PICK d, e : d = db /\ e = db' /\ d \in Database /\ NothingDangles(d)
  BY DEF Before
<1>2. PICK new : new = [org |-> o, project |-> p, id |-> d.next]
  OBVIOUS
<1>3. e = d \/ e = [[d EXCEPT !.environments = @ \cup {new}] EXCEPT !.next = @ + 1]
  BY <1>1, <1>2 DEF InsertEnvironment, Insert
<1>4. PICK R : R = d.environments \cup {new}
  OBVIOUS
<1>5. e = d \/ e = [[d EXCEPT !.environments = R] EXCEPT !.next = d.next + 1]
  BY <1>1, <1>3, <1>4 DEF Database
<1>6. e = d \/ (Fixes(d, e, {"environments"}) /\ e["environments"] = R)
  BY <1>1, <1>5 DEF Fixes, Table, OrgTable, Database
<1> QED
  BY <1>1, <1>4, <1>6, InsertTidy DEF Table, OrgTable

LEMMA UpdateRoleRowTidy ==
    ASSUME Before, NEW o, NEW i, NEW p, UpdateRoleRow(o, i, p)
    PROVE  NothingDangles(db')
<1>1. PICK d, e : d = db /\ e = db' /\ d \in Database /\ NothingDangles(d)
  BY DEF Before
<1>2. PICK R : e = [d EXCEPT !.roles = R]
  BY <1>1 DEF UpdateRoleRow
<1>3. Fixes(d, e, {"roles"})
  BY <1>1, <1>2 DEF Fixes, Table, OrgTable, Database
<1> QED
  BY <1>1, <1>3, ApartTidy

LEMMA RevokeRowTidy ==
    ASSUME Before, NEW o, NEW i, RevokeRow(o, i)
    PROVE  NothingDangles(db')
<1>1. PICK d, e : d = db /\ e = db' /\ d \in Database /\ NothingDangles(d)
  BY DEF Before
<1>2. PICK R : e = [d EXCEPT !.apiKeys = R]
  BY <1>1 DEF RevokeRow
<1>3. Fixes(d, e, {"apiKeys"})
  BY <1>1, <1>2 DEF Fixes, Table, OrgTable, Database
<1> QED
  BY <1>1, <1>3, ApartTidy

LEMMA SetAdminTidy ==
    ASSUME Before, NEW u, NEW b, SetAdmin(u, b)
    PROVE  NothingDangles(db')
<1>1. PICK d, e : d = db /\ e = db' /\ d \in Database /\ NothingDangles(d)
  BY DEF Before
<1>2. PICK R : e = [d EXCEPT !.admins = R]
  BY <1>1 DEF SetAdmin
<1>3. Fixes(d, e, {"admins"})
  BY <1>1, <1>2 DEF Fixes, Table, OrgTable, Database
<1> QED
  BY <1>1, <1>3, ApartTidy

LEMMA DeleteTeamMemberTidy ==
    ASSUME Before, NEW o, NEW i, NEW s, DeleteTeamMember(o, i, s)
    PROVE  NothingDangles(db')
<1>1. PICK d, e : d = db /\ e = db' /\ d \in Database /\ NothingDangles(d)
  BY DEF Before
<1>2. PICK R : e = [d EXCEPT !.teamMembers = R]
  BY <1>1 DEF DeleteTeamMember
<1>3. Fixes(d, e, {"teamMembers"})
  BY <1>1, <1>2 DEF Fixes, Table, OrgTable, Database
<1> QED
  BY <1>1, <1>3, ApartTidy

LEMMA DeleteBindingRowTidy ==
    ASSUME Before, NEW i, NEW o, DeleteBindingRow(i, o)
    PROVE  NothingDangles(db')
<1>1. PICK d, e : d = db /\ e = db' /\ d \in Database /\ NothingDangles(d)
  BY DEF Before
<1>2. PICK R : R = {x \in d.bindings : ~(x.id = i /\ x.org = o)}
  OBVIOUS
<1>3. e = [d EXCEPT !.bindings = R]
  BY <1>1, <1>2 DEF DeleteBindingRow
<1> QED
  BY <1>1, <1>2, <1>3, DeleteTidy

LEMMA DeleteForSubjectTidy ==
    ASSUME Before, NEW o, NEW type, NEW s, DeleteForSubject(o, type, s)
    PROVE  NothingDangles(db')
<1>1. PICK d, e : d = db /\ e = db' /\ d \in Database /\ NothingDangles(d)
  BY DEF Before
<1>2. PICK R : R = {x \in d.bindings : ~(x.org = o /\ x.subjectType = type /\ x.subject = s)}
  OBVIOUS
<1>3. e = [d EXCEPT !.bindings = R]
  BY <1>1, <1>2 DEF DeleteForSubject
<1> QED
  BY <1>1, <1>2, <1>3, DeleteTidy

LEMMA DeleteVariableRowTidy ==
    ASSUME Before, NEW o, NEW i, DeleteVariableRow(o, i)
    PROVE  NothingDangles(db')
<1>1. PICK d, e : d = db /\ e = db' /\ d \in Database /\ NothingDangles(d)
  BY DEF Before
<1>2. PICK R : R = {x \in d.variables : ~(x.org = o /\ x.id = i)}
  OBVIOUS
<1>3. e = [d EXCEPT !.variables = R]
  BY <1>1, <1>2 DEF DeleteVariableRow
<1> QED
  BY <1>1, <1>2, <1>3, DeleteTidy

LEMMA ArchiveTidy ==
    ASSUME Before, NEW o, Archive(o)
    PROVE  NothingDangles(db')
<1>1. PICK d, e : d = db /\ e = db' /\ d \in Database /\ NothingDangles(d)
  BY DEF Before
<1>2. PICK O, A : e = d \/ e = [d EXCEPT !.orgs = O, !.archivals = A]
  BY <1>1 DEF Archive
<1>3. Fixes(d, e, {"orgs", "archivals"})
  BY <1>1, <1>2 DEF Fixes, Table, OrgTable, Database
<1> QED
  BY <1>1, <1>3, ApartTidy

\* The key of a membership stays.
LEMMA SetBlockedTidy ==
    ASSUME Before, NEW o, NEW u, NEW b, SetBlocked(o, u, b)
    PROVE  NothingDangles(db')
<1>1. PICK d, e : d = db /\ e = db' /\ d \in Database /\ NothingDangles(d)
  BY DEF Before
<1>2. PICK f : f = [m \in d.members |-> IF m.org = o /\ m.user = u THEN [m EXCEPT !.blocked = b]
                                        ELSE m]
  OBVIOUS
<1>3. PICK R : R = {f[m] : m \in d.members}
  OBVIOUS
<1>4. e = [d EXCEPT !.members = R]
  BY <1>1, <1>2, <1>3 DEF SetBlocked
<1>5. Fixes(d, e, {"members"}) /\ e.members = R
  BY <1>1, <1>4 DEF Fixes, Table, OrgTable, Database
<1>6. ASSUME NEW m \in d.members PROVE f[m].org = m.org /\ f[m].user = m.user
  <2>1. m \in OrganizationMembership
    BY <1>1, DatabaseTypes
  <2> QED
    BY <1>2, <2>1 DEF OrganizationMembership
<1>7. \A m \in d.members : IsIn(e, m.org, m.user)
  BY <1>3, <1>5, <1>6 DEF IsIn
<1> QED
  BY <1>1, <1>5, <1>7, HarmlessTidy DEF Harmless, Table, OrgTable

\* The id of a team stays.
LEMMA RenameTeamTidy ==
    ASSUME Before, NEW o, NEW i, NEW n, RenameTeam(o, i, n)
    PROVE  NothingDangles(db')
<1>1. PICK d, e : d = db /\ e = db' /\ d \in Database /\ NothingDangles(d)
  BY DEF Before
<1>2. PICK f : f = [t \in d.teams |-> IF t.org = o /\ t.id = i THEN [t EXCEPT !.name = n] ELSE t]
  OBVIOUS
<1>3. PICK R : R = {f[t] : t \in d.teams}
  OBVIOUS
<1>4. e = d \/ e = [d EXCEPT !.teams = R]
  BY <1>1, <1>2, <1>3 DEF RenameTeam
<1>5. e = d \/ (Fixes(d, e, {"teams"}) /\ e["teams"] = R)
  BY <1>1, <1>4 DEF Fixes, Table, OrgTable, Database
<1>6. ASSUME NEW t \in d.teams PROVE f[t].org = t.org /\ f[t].id = t.id
  <2>1. t \in Team
    BY <1>1, DatabaseTypes
  <2> QED
    BY <1>2, <2>1 DEF Team
<1>7. \A x \in d["teams"] : RowExists(R, x.org, x.id)
  BY <1>3, <1>6 DEF RowExists
<1> QED
  BY <1>1, <1>5, <1>7, HarmlessTidy DEF Harmless, Table, OrgTable

\* The scope of a variable stays.
LEMMA UpdateVariableRowTidy ==
    ASSUME Before, NEW o, NEW i, UpdateVariableRow(o, i)
    PROVE  NothingDangles(db')
<1>1. PICK d, e : d = db /\ e = db' /\ d \in Database /\ NothingDangles(d)
  BY DEF Before
<1>2. PICK f : f = [v \in d.variables |-> IF v.org = o /\ v.id = i THEN [v EXCEPT !.secret = FALSE]
                                          ELSE v]
  OBVIOUS
<1>3. PICK R : R = {f[v] : v \in d.variables}
  OBVIOUS
<1>4. e = [d EXCEPT !.variables = R]
  BY <1>1, <1>2, <1>3 DEF UpdateVariableRow
<1>5. Fixes(d, e, {"variables"}) /\ e.variables = R
  BY <1>1, <1>4 DEF Fixes, Table, OrgTable, Database
<1>6. ASSUME NEW v \in d.variables
      PROVE  f[v].org = v.org /\ f[v].scopeType = v.scopeType /\ f[v].scope = v.scope
  <2>1. v \in Variable
    BY <1>1, DatabaseTypes
  <2> QED
    BY <1>2, <2>1 DEF Variable
<1>7. \A v \in e.variables : ScopeExists(d, v)
  BY <1>1, <1>3, <1>5, <1>6 DEF NothingDangles, ScopeExists
<1> QED
  BY <1>1, <1>5, <1>7, HarmlessTidy DEF Harmless, Table, OrgTable

\* A binding is inserted whose subject and scope are there.
LEMMA InsertBindingTidy ==
    ASSUME Before, NEW b \in NewBinding, InsertBinding(b),
           Exists(db, b.org) => SubjectExists(db, b) /\ ScopeExists(db, b)
    PROVE  NothingDangles(db')
<1>1. PICK d, e : /\ d = db /\ e = db' /\ d \in Database /\ NothingDangles(d)
                  /\ Exists(d, b.org) => SubjectExists(d, b) /\ ScopeExists(d, b)
  BY DEF Before
<1>2. PICK new : new = [b EXCEPT !.id = d.next]
  OBVIOUS
<1>3. \/ e = d
      \/ /\ Exists(d, b.org)
         /\ e = [[d EXCEPT !.bindings = @ \cup {new}] EXCEPT !.next = @ + 1]
  BY <1>1, <1>2 DEF InsertBinding, Insert, Bindable, OrgExists, Exists
<1>4. PICK R : R = d.bindings \cup {new}
  OBVIOUS
<1>5. e = d \/ (Exists(d, b.org) /\ e = [[d EXCEPT !.bindings = R] EXCEPT !.next = d.next + 1])
  BY <1>1, <1>3, <1>4 DEF Database
<1>6. e = d \/ (Exists(d, b.org) /\ Fixes(d, e, {"bindings"}) /\ e["bindings"] = R)
  BY <1>1, <1>5 DEF Fixes, Table, OrgTable, Database
<1>7. /\ new.org = b.org /\ new.subjectType = b.subjectType /\ new.subject = b.subject
      /\ new.scopeType = b.scopeType /\ new.scope = b.scope
  BY <1>2 DEF NewBinding
<1>8. CASE e # d
  <2>1. SubjectExists(d, new) /\ ScopeExists(d, new)
    BY <1>1, <1>6, <1>7, <1>8 DEF SubjectExists, ScopeExists
  <2> QED
    BY <1>1, <1>4, <1>6, <1>8, <2>1, InsertTidy DEF Table, OrgTable
<1> QED
  BY <1>1, <1>8

LEMMA AssignRoleTidy ==
    ASSUME Before, NEW o \in Id, NEW u \in Id, NEW i \in Id, AssignRole(o, u, i),
           Exists(db, o) => IsIn(db, o, u)
    PROVE  NothingDangles(db')
<1>1. PICK b : b = OrganizationBinding(o, u, i)
  OBVIOUS
<1>2. /\ b \in NewBinding /\ b.org = o /\ b.subjectType = "user" /\ b.subject = u
      /\ b.scopeType = "organization" /\ b.scope = o
  BY <1>1 DEF OrganizationBinding, NewBinding, SubjectType, ScopeType, Effect
<1>3. InsertBinding(b)
  BY <1>1 DEF AssignRole
<1>4. Exists(db, b.org) => SubjectExists(db, b) /\ ScopeExists(db, b)
  BY <1>2 DEF SubjectExists, ScopeExists, IsIn
<1> QED
  BY <1>2, <1>3, <1>4, InsertBindingTidy

LEMMA ReplaceRoleTidy ==
    ASSUME Before, NEW o, NEW u, NEW i, ReplaceRole(o, u, i),
           Exists(db, o) => IsIn(db, o, u) \/ RowExists(db.accounts, o, u)
    PROVE  NothingDangles(db')
<1>1. PICK d, e : /\ d = db /\ e = db' /\ d \in Database /\ NothingDangles(d)
                  /\ Exists(d, o) => IsIn(d, o, u) \/ RowExists(d.accounts, o, u)
  BY DEF Before
<1>2. PICK new : new = [OrganizationBinding(o, u, i) EXCEPT !.id = d.next]
  OBVIOUS
<1>3. PICK kept : kept = {x \in d.bindings :
                            ~(/\ x.org = o /\ x.subjectType = "user" /\ x.subject = u
                              /\ x.scopeType = "organization" /\ x.scope = o)}
  OBVIOUS
<1>4. PICK R : R = kept \cup {new}
  OBVIOUS
<1>5. \/ e = d
      \/ Exists(d, o) /\ e = [[d EXCEPT !.bindings = R] EXCEPT !.next = @ + 1]
  BY <1>1, <1>2, <1>3, <1>4 DEF ReplaceRole, Insert, OrgExists, Exists
<1>6. e = d \/ (Exists(d, o) /\ Fixes(d, e, {"bindings"}) /\ e.bindings = R)
  BY <1>1, <1>5 DEF Fixes, Table, OrgTable, Database
<1>7. /\ new.org = o /\ new.subjectType = "user" /\ new.subject = u
      /\ new.scopeType = "organization" /\ new.scope = o
  BY <1>2 DEF OrganizationBinding
<1>8. CASE e # d
  <2>1. SubjectExists(d, new) /\ ScopeExists(d, new)
    BY <1>1, <1>6, <1>7, <1>8 DEF SubjectExists, ScopeExists, IsIn
  <2>2. \A b \in e.bindings : SubjectExists(d, b) /\ ScopeExists(d, b)
    BY <1>1, <1>3, <1>4, <1>6, <1>8, <2>1 DEF NothingDangles
  <2> QED
    BY <1>1, <1>6, <1>8, <2>2, HarmlessTidy DEF Harmless, Table, OrgTable
<1> QED
  BY <1>1, <1>8

LEMMA InsertVariableTidy ==
    ASSUME Before, NEW r, InsertVariable(r.org, r.scopeType, r.scope, r.key, r.secret),
           Exists(db, r.org) => ScopeExists(db, r)
    PROVE  NothingDangles(db')
<1>1. PICK d, e : /\ d = db /\ e = db' /\ d \in Database /\ NothingDangles(d)
                  /\ Exists(d, r.org) => ScopeExists(d, r)
  BY DEF Before
<1>2. PICK new : new = [org |-> r.org, id |-> d.next, scopeType |-> r.scopeType,
                        scope |-> r.scope, key |-> r.key, secret |-> r.secret]
  OBVIOUS
<1>3. \/ e = d
      \/ /\ Exists(d, r.org)
         /\ e = [[d EXCEPT !.variables = @ \cup {new}] EXCEPT !.next = @ + 1]
  BY <1>1, <1>2 DEF InsertVariable, Insert, OrgExists, Exists
<1>4. PICK R : R = d.variables \cup {new}
  OBVIOUS
<1>5. e = d \/ (Exists(d, r.org) /\ e = [[d EXCEPT !.variables = R] EXCEPT !.next = d.next + 1])
  BY <1>1, <1>3, <1>4 DEF Database
<1>6. e = d \/ (Exists(d, r.org) /\ Fixes(d, e, {"variables"}) /\ e["variables"] = R)
  BY <1>1, <1>5 DEF Fixes, Table, OrgTable, Database
<1>7. new.org = r.org /\ new.scopeType = r.scopeType /\ new.scope = r.scope
  BY <1>2
<1>8. CASE e # d
  <2>1. ScopeExists(d, new)
    BY <1>1, <1>6, <1>7, <1>8 DEF ScopeExists
  <2> QED
    BY <1>1, <1>4, <1>6, <1>8, <2>1, InsertTidy DEF Table, OrgTable
<1> QED
  BY <1>1, <1>8

\* The project of a new workspace exists, and therefore its Organization.
LEMMA InsertWorkspaceTidy ==
    ASSUME Before, ForeignKeys(db), NEW r, r.org \in Id,
           InsertWorkspace(r.org, r.project, r.environment),
           Exists(db, r.org) => HasEnvironment(db, r)
    PROVE  NothingDangles(db')
<1>1. PICK d, e : /\ d = db /\ e = db' /\ d \in Database /\ NothingDangles(d) /\ ForeignKeys(d)
                  /\ Exists(d, r.org) => HasEnvironment(d, r)
  BY DEF Before
<1>2. PICK new : new = [org |-> r.org, project |-> r.project, id |-> d.next,
                        environment |-> r.environment]
  OBVIOUS
<1>3. \/ e = d
      \/ /\ RowExists(d.projects, r.org, r.project)
         /\ e = [[d EXCEPT !.workspaces = @ \cup {new}] EXCEPT !.next = @ + 1]
  BY <1>1, <1>2 DEF InsertWorkspace, Insert
<1>4. PICK R : R = d.workspaces \cup {new}
  OBVIOUS
<1>5. \/ e = d
      \/ /\ RowExists(d.projects, r.org, r.project)
         /\ e = [[d EXCEPT !.workspaces = R] EXCEPT !.next = d.next + 1]
  BY <1>1, <1>3, <1>4 DEF Database
<1>6. \/ e = d
      \/ /\ RowExists(d.projects, r.org, r.project)
         /\ Fixes(d, e, {"workspaces"}) /\ e["workspaces"] = R
  BY <1>1, <1>5 DEF Fixes, Table, OrgTable, Database
<1>7. CASE e # d
  <2>1. PICK x \in d["projects"] : x.org = r.org
    BY <1>6, <1>7 DEF RowExists
  <2>2. r.org # 0
    BY AccessAssumption DEF Id
  <2>3. Exists(d, r.org)
    BY <1>1, <2>1, <2>2 DEF ForeignKeys, Exists, OrgTable
  <2>4. new.org = r.org /\ new.project = r.project /\ new.environment = r.environment
    BY <1>2
  <2>5. HasEnvironment(d, new)
    BY <1>1, <2>3, <2>4 DEF HasEnvironment
  <2> QED
    BY <1>1, <1>4, <1>6, <1>7, <2>5, InsertTidy DEF Table, OrgTable
<1> QED
  BY <1>1, <1>7

\* A member leaves who has no bindings any more.
LEMMA DeleteMembershipTidy ==
    ASSUME Before, NEW o, NEW u, DeleteMembership(o, u), NoneFor(db, o, "user", u)
    PROVE  NothingDangles(db')
<1>1. PICK d, e : /\ d = db /\ e = db' /\ d \in Database /\ NothingDangles(d)
                  /\ NoneFor(d, o, "user", u)
  BY DEF Before
<1>2. PICK R : R = {m \in d.members : ~(m.org = o /\ m.user = u)}
  OBVIOUS
<1>3. e = [d EXCEPT !.members = R]
  BY <1>1, <1>2 DEF DeleteMembership
<1>4. Fixes(d, e, {"members"}) /\ e.members = R
  BY <1>1, <1>3 DEF Fixes, Table, OrgTable, Database
<1>5. /\ e.teams = d.teams /\ e.accounts = d.accounts
      /\ e.projects = d.projects /\ e.environments = d.environments
      /\ e.workspaces = d.workspaces /\ e.bindings = d.bindings /\ e.variables = d.variables
  BY <1>4, FixesAll
<1>6. ASSUME NEW b \in d.bindings PROVE SubjectExists(e, b)
  <2>1. SubjectExists(d, b) /\ ~(b.org = o /\ b.subjectType = "user" /\ b.subject = u)
    BY <1>1 DEF NothingDangles, NoneFor
  <2> QED
    BY <1>2, <1>4, <1>5, <2>1 DEF SubjectExists
<1>7. \A x : ScopeExists(d, x) => ScopeExists(e, x)
  BY <1>5 DEF ScopeExists
<1> QED
  BY <1>1, <1>5, <1>6, <1>7 DEF NothingDangles

\* A team goes that has no bindings any more.
LEMMA DeleteTeamAndMembershipsTidy ==
    ASSUME Before, NEW o, NEW i, DeleteTeamAndMemberships(o, i), NoneFor(db, o, "team", i)
    PROVE  NothingDangles(db')
<1>1. PICK d, e : /\ d = db /\ e = db' /\ d \in Database /\ NothingDangles(d)
                  /\ NoneFor(d, o, "team", i)
  BY DEF Before
<1>2. PICK M, T : /\ M = {x \in d.teamMembers : ~(x.org = o /\ x.team = i)}
                  /\ T = {x \in d.teams : ~(x.org = o /\ x.id = i)}
  OBVIOUS
<1>3. e = [d EXCEPT !.teamMembers = M, !.teams = T]
  BY <1>1, <1>2 DEF DeleteTeamAndMemberships
<1>4. Fixes(d, e, {"teamMembers", "teams"}) /\ e.teams = T
  BY <1>1, <1>3 DEF Fixes, Table, OrgTable, Database
<1>5. /\ e.members = d.members /\ e.accounts = d.accounts
      /\ e.projects = d.projects /\ e.environments = d.environments
      /\ e.workspaces = d.workspaces /\ e.bindings = d.bindings /\ e.variables = d.variables
  BY <1>4, FixesAll
<1>6. ASSUME NEW b \in d.bindings PROVE SubjectExists(e, b)
  <2>1. SubjectExists(d, b) /\ ~(b.org = o /\ b.subjectType = "team" /\ b.subject = i)
    BY <1>1 DEF NothingDangles, NoneFor
  <2> QED
    BY <1>2, <1>4, <1>5, <2>1 DEF SubjectExists, RowExists
<1>7. \A x : ScopeExists(d, x) => ScopeExists(e, x)
  BY <1>5 DEF ScopeExists
<1> QED
  BY <1>1, <1>5, <1>6, <1>7 DEF NothingDangles

\* A workspace goes, and with it what points at it.
LEMMA PurgeWorkspaceTidy ==
    ASSUME Before, NEW o, NEW i, PurgeWorkspace(o, i)
    PROVE  NothingDangles(db')
<1>1. PICK d, e : d = db /\ e = db' /\ d \in Database /\ NothingDangles(d)
  BY DEF Before
<1>2. PICK V, B, W : /\ V = {v \in d.variables : ~(v.scopeType = "workspace" /\ v.scope = i)}
                     /\ B = {b \in d.bindings : ~(b.scopeType = "workspace" /\ b.scope = i)}
                     /\ W = {w \in d.workspaces : ~(w.org = o /\ w.id = i)}
  OBVIOUS
<1>3. e = [d EXCEPT !.variables = V, !.bindings = B, !.workspaces = W]
  BY <1>1, <1>2 DEF PurgeWorkspace
<1>4. /\ Fixes(d, e, {"variables", "bindings", "workspaces"})
      /\ e.variables = V /\ e.bindings = B /\ e.workspaces = W
  BY <1>1, <1>3 DEF Fixes, Table, OrgTable, Database
<1>5. /\ e.members = d.members /\ e.teams = d.teams /\ e.accounts = d.accounts
      /\ e.projects = d.projects /\ e.environments = d.environments
  BY <1>4, FixesAll
<1>6. \A b : SubjectExists(d, b) => SubjectExists(e, b)
  BY <1>5 DEF SubjectExists
<1>7. ASSUME NEW x, ScopeExists(d, x), ~(x.scopeType = "workspace" /\ x.scope = i)
      PROVE  ScopeExists(e, x)
  BY <1>2, <1>4, <1>5, <1>7 DEF ScopeExists, RowExists
<1>8. \A b \in e.bindings : SubjectExists(e, b) /\ ScopeExists(e, b)
  BY <1>1, <1>2, <1>4, <1>6, <1>7 DEF NothingDangles
<1>9. \A v \in e.variables : ScopeExists(e, v)
  BY <1>1, <1>2, <1>4, <1>7 DEF NothingDangles
<1> QED
  BY <1>1, <1>2, <1>4, <1>5, <1>8, <1>9 DEF NothingDangles

\* A project goes with its environments and workspaces, and with all that
\* points at any of them.
LEMMA PurgeProjectTidy ==
    ASSUME Before, NEW o, NEW p, PurgeProject(o, p)
    PROVE  NothingDangles(db')
<1>1. PICK d, e : d = db /\ e = db' /\ d \in Database /\ NothingDangles(d)
  BY DEF Before
<1>2. PICK V, B :
        /\ V = {v \in db.variables :
                  ~(\/ v.scopeType = "project" /\ v.scope = p
                    \/ v.scopeType = "environment" /\ v.scope \in Of(db.environments, p)
                    \/ v.scopeType = "workspace" /\ v.scope \in Of(db.workspaces, p))}
        /\ B = {b \in db.bindings :
                  ~(\/ b.scopeType = "project" /\ b.scope = p
                    \/ b.scopeType = "workspace" /\ b.scope \in Of(db.workspaces, p))}
  OBVIOUS
<1>3. PICK W, E, P : /\ W = {w \in db.workspaces : w.project # p}
                     /\ E = {x \in db.environments : x.project # p}
                     /\ P = {x \in db.projects : ~(x.org = o /\ x.id = p)}
  OBVIOUS
<1>4. db' = [db EXCEPT !.variables = V, !.bindings = B, !.workspaces = W, !.environments = E,
                       !.projects = P]
  BY <1>2, <1>3, Zenon DEF PurgeProject
<1>5. e = [d EXCEPT !.variables = V, !.bindings = B, !.workspaces = W, !.environments = E,
                    !.projects = P]
  BY <1>1, <1>4
<1>6. /\ Fixes(d, e, {"variables", "bindings", "workspaces", "environments", "projects"})
      /\ e.variables = V /\ e.bindings = B /\ e.workspaces = W /\ e.environments = E
      /\ e.projects = P
  BY <1>1, <1>5 DEF Fixes, Table, OrgTable, Database
<1>7. e.members = d.members /\ e.teams = d.teams /\ e.accounts = d.accounts
  BY <1>6, FixesAll
<1>8. \A b : SubjectExists(d, b) => SubjectExists(e, b)
  BY <1>7 DEF SubjectExists
<1>9. ASSUME NEW x, ScopeExists(d, x),
             ~(x.scopeType = "project" /\ x.scope = p),
             ~(x.scopeType = "environment" /\ x.scope \in Of(d.environments, p)),
             ~(x.scopeType = "workspace" /\ x.scope \in Of(d.workspaces, p))
      PROVE  ScopeExists(e, x)
  <2>1. CASE x.scopeType = "organization"
    BY <1>9, <2>1 DEF ScopeExists
  <2>2. CASE x.scopeType = "project"
    BY <1>1, <1>3, <1>6, <1>9, <2>2 DEF ScopeExists, RowExists
  <2>3. CASE x.scopeType = "environment"
    <3>1. PICK y \in d.environments : y.org = x.org /\ y.id = x.scope
      BY <1>9, <2>3 DEF ScopeExists, RowExists
    <3>2. y.project # p
      BY <1>9, <2>3, <3>1 DEF Of
    <3> QED
      BY <1>1, <1>3, <1>6, <2>3, <3>1, <3>2 DEF ScopeExists, RowExists
  <2>4. CASE x.scopeType = "workspace"
    <3>1. PICK y \in d.workspaces : y.org = x.org /\ y.id = x.scope
      BY <1>9, <2>4 DEF ScopeExists, RowExists
    <3>2. y.project # p
      BY <1>9, <2>4, <3>1 DEF Of
    <3> QED
      BY <1>1, <1>3, <1>6, <2>4, <3>1, <3>2 DEF ScopeExists, RowExists
  <2> QED
    BY <1>9, <2>1, <2>2, <2>3, <2>4 DEF ScopeExists
<1>10. ASSUME NEW b \in e.bindings PROVE SubjectExists(e, b) /\ ScopeExists(e, b)
  <2>1. /\ b \in d.bindings /\ b \in RoleBinding
        /\ ~(b.scopeType = "project" /\ b.scope = p)
        /\ ~(b.scopeType = "workspace" /\ b.scope \in Of(d.workspaces, p))
    BY <1>1, <1>2, <1>6, DatabaseTypes
  <2>2. b.scopeType # "environment"
    BY <2>1 DEF RoleBinding, ScopeType
  <2>3. SubjectExists(d, b) /\ ScopeExists(d, b)
    BY <1>1, <2>1 DEF NothingDangles
  <2> QED
    BY <1>8, <1>9, <2>1, <2>2, <2>3
<1>11. ASSUME NEW v \in e.variables PROVE ScopeExists(e, v)
  <2>1. /\ v \in d.variables
        /\ ~(v.scopeType = "project" /\ v.scope = p)
        /\ ~(v.scopeType = "environment" /\ v.scope \in Of(d.environments, p))
        /\ ~(v.scopeType = "workspace" /\ v.scope \in Of(d.workspaces, p))
    BY <1>1, <1>2, <1>6
  <2>2. ScopeExists(d, v)
    BY <1>1, <2>1 DEF NothingDangles
  <2> QED
    BY <1>9, <2>1, <2>2
<1>12. ASSUME NEW w \in e.workspaces PROVE HasEnvironment(e, w)
  <2>1. w \in d.workspaces /\ w.project # p
    BY <1>1, <1>3, <1>6
  <2>2. PICK x : x = [org |-> w.org, project |-> w.project, id |-> w.environment]
    OBVIOUS
  <2>3. w.environment = 0 \/ (x \in d.environments /\ x.project # p)
    BY <1>1, <2>1, <2>2 DEF NothingDangles
  <2>4. w.environment = 0 \/ x \in e.environments
    BY <1>1, <1>3, <1>6, <2>3
  <2> QED
    BY <2>2, <2>4 DEF HasEnvironment
<1>13. \A w \in e.workspaces : HasEnvironment(e, w)
  BY <1>12
<1> QED
  BY <1>1, <1>10, <1>11, <1>13, NothingDanglesIf

\* What a purge leaves.
LEMMA PurgeLeaves ==
    ASSUME db \in Database, NEW o, PurgeOrganization(o)
    PROVE  /\ db'.members = Without(db.members, o) /\ db'.teams = Without(db.teams, o)
           /\ db'.projects = Without(db.projects, o)
           /\ db'.environments = Without(db.environments, o)
           /\ db'.workspaces = Without(db.workspaces, o)
           /\ db'.bindings = Without(db.bindings, o)
           /\ db'.variables = Without(db.variables, o)
           /\ db'.accounts = Without(db.accounts, o)
           /\ db'.orgs = {x \in db.orgs : x.id # o}
<1>1. PICK d, e : d = db /\ e = db' /\ d \in Database
  OBVIOUS
<1>2. PICK m : m = [d EXCEPT !.archivals = Without(@, o), !.members = Without(@, o),
                             !.teams = Without(@, o), !.teamMembers = Without(@, o),
                             !.projects = Without(@, o), !.environments = Without(@, o),
                             !.workspaces = Without(@, o), !.roles = Without(@, o),
                             !.bindings = Without(@, o), !.variables = Without(@, o),
                             !.accounts = Without(@, o), !.apiKeys = Without(@, o)]
  OBVIOUS
<1>3. e = Purged(o, m)
  BY <1>1, <1>2 DEF PurgeOrganization
<1>4. /\ m.archivals = Without(d.archivals, o) /\ m.members = Without(d.members, o)
      /\ m.teams = Without(d.teams, o) /\ m.teamMembers = Without(d.teamMembers, o)
      /\ m.projects = Without(d.projects, o) /\ m.environments = Without(d.environments, o)
      /\ m.workspaces = Without(d.workspaces, o) /\ m.roles = Without(d.roles, o)
      /\ m.bindings = Without(d.bindings, o) /\ m.variables = Without(d.variables, o)
      /\ m.accounts = Without(d.accounts, o) /\ m.apiKeys = Without(d.apiKeys, o)
      /\ m.orgs = d.orgs /\ DOMAIN m = DOMAIN d
  BY <1>1, <1>2 DEF Database
<1>5. \A T : \A x \in Without(T, o) : x.org # o
  BY DEF Without
<1>6. \A table \in {m.archivals, m.members, m.teams, m.teamMembers,
                   m.projects, m.environments, m.workspaces, m.roles,
                   m.bindings, m.accounts, m.apiKeys, m.variables} :
        \A x \in table : x.org # o
  BY <1>4, <1>5
<1>7. e = [m EXCEPT !.orgs = {x \in @ : x.id # o}]
  BY <1>3, <1>6 DEF Purged
<1>8. PICK S : S = {x \in d.orgs : x.id # o}
  OBVIOUS
<1>9. e = [m EXCEPT !.orgs = S] /\ "orgs" \in DOMAIN m
  BY <1>1, <1>4, <1>7, <1>8 DEF Database
<1>10. /\ e.members = m.members /\ e.teams = m.teams /\ e.projects = m.projects
       /\ e.environments = m.environments /\ e.workspaces = m.workspaces
       /\ e.bindings = m.bindings /\ e.variables = m.variables /\ e.accounts = m.accounts
       /\ e.orgs = S
  BY <1>1, <1>4, <1>9 DEF Database
<1> QED
  BY <1>1, <1>4, <1>8, <1>10

\* The rows of one Organization point at its rows.
LEMMA PurgeOrganizationTidy ==
    ASSUME Before, NEW o, PurgeOrganization(o)
    PROVE  NothingDangles(db')
<1>1. PICK d, e : d = db /\ e = db' /\ d \in Database /\ NothingDangles(d)
  BY DEF Before
<1>2. /\ e.members = Without(d.members, o) /\ e.teams = Without(d.teams, o)
      /\ e.projects = Without(d.projects, o) /\ e.environments = Without(d.environments, o)
      /\ e.workspaces = Without(d.workspaces, o) /\ e.bindings = Without(d.bindings, o)
      /\ e.variables = Without(d.variables, o) /\ e.accounts = Without(d.accounts, o)
  BY <1>1, PurgeLeaves
<1>3. \A T : \A i, p : p # o /\ RowExists(T, p, i) => RowExists(Without(T, o), p, i)
  BY DEF RowExists, Without
<1>4. ASSUME NEW b, b.org # o, SubjectExists(d, b) PROVE SubjectExists(e, b)
  BY <1>2, <1>3, <1>4 DEF SubjectExists, Without
<1>5. ASSUME NEW x, x.org # o, ScopeExists(d, x) PROVE ScopeExists(e, x)
  BY <1>2, <1>3, <1>5 DEF ScopeExists
<1>6. \A T : \A x \in Without(T, o) : x \in T /\ x.org # o
  BY DEF Without
<1>7. \A b \in e.bindings : SubjectExists(e, b) /\ ScopeExists(e, b)
  BY <1>1, <1>2, <1>4, <1>5, <1>6 DEF NothingDangles
<1>8. \A v \in e.variables : ScopeExists(e, v)
  BY <1>1, <1>2, <1>5, <1>6 DEF NothingDangles
<1>9. ASSUME NEW w \in e.workspaces PROVE HasEnvironment(e, w)
  <2>1. w \in d.workspaces /\ w.org # o
    BY <1>2, <1>6
  <2>2. PICK x : x = [org |-> w.org, project |-> w.project, id |-> w.environment]
    OBVIOUS
  <2>3. w.environment = 0 \/ (x \in d.environments /\ x.org # o)
    BY <1>1, <2>1, <2>2 DEF NothingDangles
  <2>4. w.environment = 0 \/ x \in e.environments
    BY <1>2, <2>3 DEF Without
  <2> QED
    BY <2>2, <2>4 DEF HasEnvironment
<1>10. \A w \in e.workspaces : HasEnvironment(e, w)
  BY <1>9
<1> QED
  BY <1>1, <1>7, <1>8, <1>10, NothingDanglesIf

-----------------------------------------------------------------------------
(* Requests.                                                                *)

Aware(ow, q) == Ready(ow, q) /\ NothingDangles(db) /\ Knows(db, request[q])
Cleans(q) ==
    \/ \E r : Checked(q, r) /\ Knows(db, r)
    \/ \E op, r : /\ Goes(q, op, r) /\ op \notin Resting
                  /\ NothingDangles(db') /\ Knows(db', r)

LEMMA AwareBefore ==
    ASSUME NEW ow, NEW q, Aware(ow, q)
    PROVE  Before /\ ForeignKeys(db)
BY DEF Aware, Ready, Before, DbInv, WellFormed

LEMMA AskedPlain ==
    ASSUME NEW q, NEW r, Checked(q, r), r.op \notin KnowingOp
    PROVE  Cleans(q)
<1>1. PICK d : d = db
  OBVIOUS
<1> QED
  BY <1>1, PlainKnows DEF Cleans

LEMMA ContinuedPlain ==
    ASSUME NEW q, NEW op, NEW r, Goes(q, op, r), op \notin Resting, NothingDangles(db'),
           r.op \notin KnowingOp
    PROVE  Cleans(q)
<1>1. PICK e : e = db'
  OBVIOUS
<1> QED
  BY <1>1, PlainKnows DEF Cleans

LEMMA AnsweredTidy ==
    ASSUME NEW q, NEW op, Answers(q, op), op \notin Resting, NothingDangles(db')
    PROVE  Cleans(q)
<1>1. Ended.op \notin KnowingOp
  BY DEF Ended, KnowingOp
<1> QED
  BY <1>1, ContinuedPlain DEF Answers

LEMMA CreateRoleCleans ==
    ASSUME NEW ow, NEW q, Aware(ow, q), CreateRole(q)
    PROVE  Cleans(q)
<1>1. ASSUME NEW o \in Organization, NEW p \in RolePermissions,
             Checked(q, [op |-> "createRole", org |-> o, permissions |-> p])
      PROVE  Cleans(q)
  <2>1. PICK r : r = [op |-> "createRole", org |-> o, permissions |-> p]
    OBVIOUS
  <2> QED
    BY <1>1, <2>1, AskedPlain DEF KnowingOp
<1>2. ASSUME Answers(q, "createRole"),
             InsertRole(request[q].org, request[q].permissions)
      PROVE  Cleans(q)
  <2>1. NothingDangles(db')
    BY <1>2, AwareBefore, InsertRoleTidy
  <2> QED
    BY <1>2, <2>1, AnsweredTidy DEF Resting
<1> QED
  BY <1>1, <1>2 DEF CreateRole

LEMMA UpdateRoleCleans ==
    ASSUME NEW ow, NEW q, Aware(ow, q), UpdateRole(q)
    PROVE  Cleans(q)
<1>1. ASSUME NEW x \in db.roles, NEW p \in RolePermissions, x.org # 0,
             Checked(q, [op |-> "updateRole", org |-> x.org, id |-> x.id, permissions |-> p])
      PROVE  Cleans(q)
  <2>1. PICK r : r = [op |-> "updateRole", org |-> x.org, id |-> x.id, permissions |-> p]
    OBVIOUS
  <2> QED
    BY <1>1, <2>1, AskedPlain DEF KnowingOp
<1>2. ASSUME Answers(q, "updateRole"),
             UpdateRoleRow(request[q].org, request[q].id, request[q].permissions)
      PROVE  Cleans(q)
  <2>1. NothingDangles(db')
    BY <1>2, AwareBefore, UpdateRoleRowTidy
  <2> QED
    BY <1>2, <2>1, AnsweredTidy DEF Resting
<1> QED
  BY <1>1, <1>2 DEF UpdateRole

LEMMA DeleteRoleBindingCleans ==
    ASSUME NEW ow, NEW q, Aware(ow, q), DeleteRoleBinding(q)
    PROVE  Cleans(q)
<1>1. ASSUME NEW b \in db.bindings,
             Checked(q, [op |-> "deleteBinding", org |-> b.org, id |-> b.id])
      PROVE  Cleans(q)
  <2>1. PICK r : r = [op |-> "deleteBinding", org |-> b.org, id |-> b.id]
    OBVIOUS
  <2> QED
    BY <1>1, <2>1, AskedPlain DEF KnowingOp
<1>2. ASSUME Answers(q, "deleteBinding"),
             DeleteBindingRow(request[q].id, request[q].org)
      PROVE  Cleans(q)
  <2>1. NothingDangles(db')
    BY <1>2, AwareBefore, DeleteBindingRowTidy
  <2> QED
    BY <1>2, <2>1, AnsweredTidy DEF Resting
<1> QED
  BY <1>1, <1>2 DEF DeleteRoleBinding

LEMMA CreateServiceAccountCleans ==
    ASSUME NEW ow, NEW q, Aware(ow, q), CreateServiceAccount(q)
    PROVE  Cleans(q)
<1>1. ASSUME NEW o \in Organization,
             Checked(q, [op |-> "createAccount", org |-> o])
      PROVE  Cleans(q)
  <2>1. PICK r : r = [op |-> "createAccount", org |-> o]
    OBVIOUS
  <2> QED
    BY <1>1, <2>1, AskedPlain DEF KnowingOp
<1>2. ASSUME Answers(q, "createAccount"),
             InsertServiceAccount(request[q].org)
      PROVE  Cleans(q)
  <2>1. NothingDangles(db')
    BY <1>2, AwareBefore, InsertServiceAccountTidy
  <2> QED
    BY <1>2, <2>1, AnsweredTidy DEF Resting
<1> QED
  BY <1>1, <1>2 DEF CreateServiceAccount

LEMMA CreateAPIKeyCleans ==
    ASSUME NEW ow, NEW q, Aware(ow, q), CreateAPIKey(q)
    PROVE  Cleans(q)
<1>1. ASSUME NEW a \in db.accounts, NEW s \in KeyScopes,
             Checked(q, [op |-> "createKey", org |-> a.org, owner |-> a.id, scopes |-> s])
      PROVE  Cleans(q)
  <2>1. PICK r : r = [op |-> "createKey", org |-> a.org, owner |-> a.id, scopes |-> s]
    OBVIOUS
  <2> QED
    BY <1>1, <2>1, AskedPlain DEF KnowingOp
<1>2. ASSUME Answers(q, "createKey"),
             InsertAPIKey(request[q].org, request[q].owner, request[q].scopes)
      PROVE  Cleans(q)
  <2>1. NothingDangles(db')
    BY <1>2, AwareBefore, InsertAPIKeyTidy
  <2> QED
    BY <1>2, <2>1, AnsweredTidy DEF Resting
<1> QED
  BY <1>1, <1>2 DEF CreateAPIKey

LEMMA RevokeAPIKeyCleans ==
    ASSUME NEW ow, NEW q, Aware(ow, q), RevokeAPIKey(q)
    PROVE  Cleans(q)
<1>1. ASSUME NEW k \in db.apiKeys,
             Checked(q, [op |-> "revokeKey", org |-> k.org, id |-> k.id])
      PROVE  Cleans(q)
  <2>1. PICK r : r = [op |-> "revokeKey", org |-> k.org, id |-> k.id]
    OBVIOUS
  <2> QED
    BY <1>1, <2>1, AskedPlain DEF KnowingOp
<1>2. ASSUME Answers(q, "revokeKey"),
             RevokeRow(request[q].org, request[q].id)
      PROVE  Cleans(q)
  <2>1. NothingDangles(db')
    BY <1>2, AwareBefore, RevokeRowTidy
  <2> QED
    BY <1>2, <2>1, AnsweredTidy DEF Resting
<1> QED
  BY <1>1, <1>2 DEF RevokeAPIKey

LEMMA SetPlatformAdminCleans ==
    ASSUME NEW ow, NEW q, Aware(ow, q), SetPlatformAdmin(q)
    PROVE  Cleans(q)
<1>1. ASSUME NEW u \in User, NEW b \in BOOLEAN,
             Checked(q, [op |-> "setAdmin", user |-> u, isAdmin |-> b])
      PROVE  Cleans(q)
  <2>1. PICK r : r = [op |-> "setAdmin", user |-> u, isAdmin |-> b]
    OBVIOUS
  <2> QED
    BY <1>1, <2>1, AskedPlain DEF KnowingOp
<1>2. ASSUME Answers(q, "setAdmin"),
             SetAdmin(request[q].user, request[q].isAdmin)
      PROVE  Cleans(q)
  <2>1. NothingDangles(db')
    BY <1>2, AwareBefore, SetAdminTidy
  <2> QED
    BY <1>2, <2>1, AnsweredTidy DEF Resting
<1> QED
  BY <1>1, <1>2 DEF SetPlatformAdmin

LEMMA ArchiveOrganizationCleans ==
    ASSUME NEW ow, NEW q, Aware(ow, q), ArchiveOrganization(q)
    PROVE  Cleans(q)
<1>1. ASSUME NEW o \in Organization,
             Checked(q, [op |-> "archiveOrg", org |-> o])
      PROVE  Cleans(q)
  <2>1. PICK r : r = [op |-> "archiveOrg", org |-> o]
    OBVIOUS
  <2> QED
    BY <1>1, <2>1, AskedPlain DEF KnowingOp
<1>2. ASSUME Answers(q, "archiveOrg"),
             Archive(request[q].org)
      PROVE  Cleans(q)
  <2>1. NothingDangles(db')
    BY <1>2, AwareBefore, ArchiveTidy
  <2> QED
    BY <1>2, <2>1, AnsweredTidy DEF Resting
<1> QED
  BY <1>1, <1>2 DEF ArchiveOrganization

LEMMA DeleteOrganizationCleans ==
    ASSUME NEW ow, NEW q, Aware(ow, q), DeleteOrganization(q)
    PROVE  Cleans(q)
<1>1. ASSUME NEW o \in Organization,
             Checked(q, [op |-> "deleteOrg", org |-> o])
      PROVE  Cleans(q)
  <2>1. PICK r : r = [op |-> "deleteOrg", org |-> o]
    OBVIOUS
  <2> QED
    BY <1>1, <2>1, AskedPlain DEF KnowingOp
<1>2. ASSUME Answers(q, "deleteOrg"),
             PurgeOrganization(request[q].org)
      PROVE  Cleans(q)
  <2>1. NothingDangles(db')
    BY <1>2, AwareBefore, PurgeOrganizationTidy
  <2> QED
    BY <1>2, <2>1, AnsweredTidy DEF Resting
<1> QED
  BY <1>1, <1>2 DEF DeleteOrganization

LEMMA BlockMemberCleans ==
    ASSUME NEW ow, NEW q, Aware(ow, q), BlockMember(q)
    PROVE  Cleans(q)
<1>1. ASSUME NEW m \in db.members,
             Checked(q, [op |-> "blockMember", org |-> m.org, user |-> m.user])
      PROVE  Cleans(q)
  <2>1. PICK r : r = [op |-> "blockMember", org |-> m.org, user |-> m.user]
    OBVIOUS
  <2> QED
    BY <1>1, <2>1, AskedPlain DEF KnowingOp
<1>2. ASSUME Answers(q, "blockMember"),
             SetBlocked(request[q].org, request[q].user, TRUE)
      PROVE  Cleans(q)
  <2>1. NothingDangles(db')
    BY <1>2, AwareBefore, SetBlockedTidy
  <2> QED
    BY <1>2, <2>1, AnsweredTidy DEF Resting
<1> QED
  BY <1>1, <1>2 DEF BlockMember

LEMMA UnblockMemberCleans ==
    ASSUME NEW ow, NEW q, Aware(ow, q), UnblockMember(q)
    PROVE  Cleans(q)
<1>1. ASSUME NEW m \in db.members,
             Checked(q, [op |-> "unblockMember", org |-> m.org, user |-> m.user])
      PROVE  Cleans(q)
  <2>1. PICK r : r = [op |-> "unblockMember", org |-> m.org, user |-> m.user]
    OBVIOUS
  <2> QED
    BY <1>1, <2>1, AskedPlain DEF KnowingOp
<1>2. ASSUME Answers(q, "unblockMember"),
             SetBlocked(request[q].org, request[q].user, FALSE)
      PROVE  Cleans(q)
  <2>1. NothingDangles(db')
    BY <1>2, AwareBefore, SetBlockedTidy
  <2> QED
    BY <1>2, <2>1, AnsweredTidy DEF Resting
<1> QED
  BY <1>1, <1>2 DEF UnblockMember

LEMMA CreateTeamCleans ==
    ASSUME NEW ow, NEW q, Aware(ow, q), CreateTeam(q)
    PROVE  Cleans(q)
<1>1. ASSUME NEW o \in Organization, NEW n \in Name,
             Checked(q, [op |-> "createTeam", org |-> o, name |-> n])
      PROVE  Cleans(q)
  <2>1. PICK r : r = [op |-> "createTeam", org |-> o, name |-> n]
    OBVIOUS
  <2> QED
    BY <1>1, <2>1, AskedPlain DEF KnowingOp
<1>2. ASSUME Answers(q, "createTeam"),
             InsertTeam(request[q].org, request[q].name)
      PROVE  Cleans(q)
  <2>1. NothingDangles(db')
    BY <1>2, AwareBefore, InsertTeamTidy
  <2> QED
    BY <1>2, <2>1, AnsweredTidy DEF Resting
<1> QED
  BY <1>1, <1>2 DEF CreateTeam

LEMMA UpdateTeamCleans ==
    ASSUME NEW ow, NEW q, Aware(ow, q), UpdateTeam(q)
    PROVE  Cleans(q)
<1>1. ASSUME NEW t \in db.teams, NEW n \in Name,
             Checked(q, [op |-> "updateTeam", org |-> t.org, id |-> t.id, name |-> n])
      PROVE  Cleans(q)
  <2>1. PICK r : r = [op |-> "updateTeam", org |-> t.org, id |-> t.id, name |-> n]
    OBVIOUS
  <2> QED
    BY <1>1, <2>1, AskedPlain DEF KnowingOp
<1>2. ASSUME Answers(q, "updateTeam"),
             RenameTeam(request[q].org, request[q].id, request[q].name)
      PROVE  Cleans(q)
  <2>1. NothingDangles(db')
    BY <1>2, AwareBefore, RenameTeamTidy
  <2> QED
    BY <1>2, <2>1, AnsweredTidy DEF Resting
<1> QED
  BY <1>1, <1>2 DEF UpdateTeam

LEMMA AddTeamMemberCleans ==
    ASSUME NEW ow, NEW q, Aware(ow, q), AddTeamMember(q)
    PROVE  Cleans(q)
<1>1. ASSUME NEW t \in db.teams, NEW s \in Members(t.org),
             Checked(q, [op |-> "addTeamMember", org |-> t.org, id |-> t.id, user |-> s])
      PROVE  Cleans(q)
  <2>1. PICK r : r = [op |-> "addTeamMember", org |-> t.org, id |-> t.id, user |-> s]
    OBVIOUS
  <2> QED
    BY <1>1, <2>1, AskedPlain DEF KnowingOp
<1>2. ASSUME Answers(q, "addTeamMember"),
             InsertTeamMember(request[q].org, request[q].id, request[q].user)
      PROVE  Cleans(q)
  <2>1. NothingDangles(db')
    BY <1>2, AwareBefore, InsertTeamMemberTidy
  <2> QED
    BY <1>2, <2>1, AnsweredTidy DEF Resting
<1> QED
  BY <1>1, <1>2 DEF AddTeamMember

LEMMA RemoveTeamMemberCleans ==
    ASSUME NEW ow, NEW q, Aware(ow, q), RemoveTeamMember(q)
    PROVE  Cleans(q)
<1>1. ASSUME NEW t \in db.teamMembers,
             Checked(q, [op |-> "removeTeamMember", org |-> t.org, id |-> t.team, user |-> t.user])
      PROVE  Cleans(q)
  <2>1. PICK r : r = [op |-> "removeTeamMember", org |-> t.org, id |-> t.team, user |-> t.user]
    OBVIOUS
  <2> QED
    BY <1>1, <2>1, AskedPlain DEF KnowingOp
<1>2. ASSUME Answers(q, "removeTeamMember"),
             DeleteTeamMember(request[q].org, request[q].id, request[q].user)
      PROVE  Cleans(q)
  <2>1. NothingDangles(db')
    BY <1>2, AwareBefore, DeleteTeamMemberTidy
  <2> QED
    BY <1>2, <2>1, AnsweredTidy DEF Resting
<1> QED
  BY <1>1, <1>2 DEF RemoveTeamMember

LEMMA CreateProjectCleans ==
    ASSUME NEW ow, NEW q, Aware(ow, q), CreateProject(q)
    PROVE  Cleans(q)
<1>1. ASSUME NEW o \in Organization,
             Checked(q, [op |-> "createProject", org |-> o])
      PROVE  Cleans(q)
  <2>1. PICK r : r = [op |-> "createProject", org |-> o]
    OBVIOUS
  <2> QED
    BY <1>1, <2>1, AskedPlain DEF KnowingOp
<1>2. ASSUME Answers(q, "createProject"),
             InsertProject(request[q].org)
      PROVE  Cleans(q)
  <2>1. NothingDangles(db')
    BY <1>2, AwareBefore, InsertProjectTidy
  <2> QED
    BY <1>2, <2>1, AnsweredTidy DEF Resting
<1> QED
  BY <1>1, <1>2 DEF CreateProject

LEMMA DeleteProjectCleans ==
    ASSUME NEW ow, NEW q, Aware(ow, q), DeleteProject(q)
    PROVE  Cleans(q)
<1>1. ASSUME NEW p \in db.projects,
             Checked(q, [op |-> "deleteProject", org |-> p.org, project |-> p.id])
      PROVE  Cleans(q)
  <2>1. PICK r : r = [op |-> "deleteProject", org |-> p.org, project |-> p.id]
    OBVIOUS
  <2> QED
    BY <1>1, <2>1, AskedPlain DEF KnowingOp
<1>2. ASSUME Answers(q, "deleteProject"),
             PurgeProject(request[q].org, request[q].project)
      PROVE  Cleans(q)
  <2>1. NothingDangles(db')
    BY <1>2, AwareBefore, PurgeProjectTidy
  <2> QED
    BY <1>2, <2>1, AnsweredTidy DEF Resting
<1> QED
  BY <1>1, <1>2 DEF DeleteProject

LEMMA CreateEnvironmentCleans ==
    ASSUME NEW ow, NEW q, Aware(ow, q), CreateEnvironment(q)
    PROVE  Cleans(q)
<1>1. ASSUME NEW p \in db.projects,
             Checked(q, [op |-> "createEnvironment", org |-> p.org, project |-> p.id])
      PROVE  Cleans(q)
  <2>1. PICK r : r = [op |-> "createEnvironment", org |-> p.org, project |-> p.id]
    OBVIOUS
  <2> QED
    BY <1>1, <2>1, AskedPlain DEF KnowingOp
<1>2. ASSUME Answers(q, "createEnvironment"),
             InsertEnvironment(request[q].org, request[q].project)
      PROVE  Cleans(q)
  <2>1. NothingDangles(db')
    BY <1>2, AwareBefore, InsertEnvironmentTidy
  <2> QED
    BY <1>2, <2>1, AnsweredTidy DEF Resting
<1> QED
  BY <1>1, <1>2 DEF CreateEnvironment

LEMMA DeleteWorkspaceCleans ==
    ASSUME NEW ow, NEW q, Aware(ow, q), DeleteWorkspace(q)
    PROVE  Cleans(q)
<1>1. ASSUME NEW w \in db.workspaces,
             Checked(q, [op |-> "deleteWorkspace", org |-> w.org, workspace |-> w.id])
      PROVE  Cleans(q)
  <2>1. PICK r : r = [op |-> "deleteWorkspace", org |-> w.org, workspace |-> w.id]
    OBVIOUS
  <2> QED
    BY <1>1, <2>1, AskedPlain DEF KnowingOp
<1>2. ASSUME Answers(q, "deleteWorkspace"),
             PurgeWorkspace(request[q].org, request[q].workspace)
      PROVE  Cleans(q)
  <2>1. NothingDangles(db')
    BY <1>2, AwareBefore, PurgeWorkspaceTidy
  <2> QED
    BY <1>2, <2>1, AnsweredTidy DEF Resting
<1> QED
  BY <1>1, <1>2 DEF DeleteWorkspace

LEMMA UpdateVariableCleans ==
    ASSUME NEW ow, NEW q, Aware(ow, q), UpdateVariable(q)
    PROVE  Cleans(q)
<1>1. ASSUME NEW v \in db.variables,
             Checked(q, [op |-> "updateVariable", org |-> v.org, id |-> v.id])
      PROVE  Cleans(q)
  <2>1. PICK r : r = [op |-> "updateVariable", org |-> v.org, id |-> v.id]
    OBVIOUS
  <2> QED
    BY <1>1, <2>1, AskedPlain DEF KnowingOp
<1>2. ASSUME Answers(q, "updateVariable"),
             UpdateVariableRow(request[q].org, request[q].id)
      PROVE  Cleans(q)
  <2>1. NothingDangles(db')
    BY <1>2, AwareBefore, UpdateVariableRowTidy
  <2> QED
    BY <1>2, <2>1, AnsweredTidy DEF Resting
<1> QED
  BY <1>1, <1>2 DEF UpdateVariable

LEMMA DeleteVariableCleans ==
    ASSUME NEW ow, NEW q, Aware(ow, q), DeleteVariable(q)
    PROVE  Cleans(q)
<1>1. ASSUME NEW v \in db.variables,
             Checked(q, [op |-> "deleteVariable", org |-> v.org, id |-> v.id])
      PROVE  Cleans(q)
  <2>1. PICK r : r = [op |-> "deleteVariable", org |-> v.org, id |-> v.id]
    OBVIOUS
  <2> QED
    BY <1>1, <2>1, AskedPlain DEF KnowingOp
<1>2. ASSUME Answers(q, "deleteVariable"),
             DeleteVariableRow(request[q].org, request[q].id)
      PROVE  Cleans(q)
  <2>1. NothingDangles(db')
    BY <1>2, AwareBefore, DeleteVariableRowTidy
  <2> QED
    BY <1>2, <2>1, AnsweredTidy DEF Resting
<1> QED
  BY <1>1, <1>2 DEF DeleteVariable


\* The checks find what a binding is to point at.
LEMMA SubjectIsThere ==
    ASSUME NEW o, NEW s \in ValidSubject(o), NEW b, b.org = o, b.subjectType = s[1],
           b.subject = s[2]
    PROVE  SubjectExists(db, b)
<1>1. CASE s \in {"user"} \X Members(o)
  <2>1. s[1] = "user" /\ s[2] \in Members(o)
    BY <1>1
  <2> QED
    BY <2>1 DEF Members, IsMember, SubjectExists
<1>2. CASE s \in {"team"} \X Ids(db.teams, o)
  <2>1. s[1] = "team" /\ s[2] \in Ids(db.teams, o)
    BY <1>2
  <2> QED
    BY <2>1 DEF Ids, RowExists, SubjectExists
<1>3. CASE s \in {"service_account"} \X Ids(db.accounts, o)
  <2>1. s[1] = "service_account" /\ s[2] \in Ids(db.accounts, o)
    BY <1>3
  <2> QED
    BY <2>1 DEF Ids, RowExists, SubjectExists
<1> QED
  BY <1>1, <1>2, <1>3 DEF ValidSubject

LEMMA ScopeIsThere ==
    ASSUME NEW o, NEW c \in ResolveScope(o), NEW x, x.org = o, x.scopeType = c[1], x.scope = c[2]
    PROVE  ScopeExists(db, x)
<1>1. CASE c = <<"organization", o>>
  BY <1>1 DEF ScopeExists
<1>2. CASE c \in {"project"} \X Ids(db.projects, o)
  <2>1. c[1] = "project" /\ c[2] \in Ids(db.projects, o)
    BY <1>2
  <2> QED
    BY <2>1 DEF Ids, RowExists, ScopeExists
<1>3. CASE c \in {"workspace"} \X Ids(db.workspaces, o)
  <2>1. c[1] = "workspace" /\ c[2] \in Ids(db.workspaces, o)
    BY <1>3
  <2> QED
    BY <2>1 DEF Ids, RowExists, ScopeExists
<1>4. CASE c \in {"environment"} \X Ids(db.environments, o)
  <2>1. c[1] = "environment" /\ c[2] \in Ids(db.environments, o)
    BY <1>4
  <2> QED
    BY <2>1 DEF Ids, RowExists, ScopeExists
<1> QED
  BY <1>1, <1>2, <1>3, <1>4 DEF ResolveScope, ValidScope

LEMMA CreateRoleBindingCleans ==
    ASSUME NEW ow, NEW q, Aware(ow, q), CreateRoleBinding(q)
    PROVE  Cleans(q)
<1>1. ASSUME NEW o \in Organization, NEW g \in Grant, NEW s \in ValidSubject(o),
             NEW c \in ValidScope(o),
             Checked(q, [op |-> "createBinding",
                         row |-> [id |-> 0, org |-> o, role |-> g.role,
                                  subjectType |-> s[1], subject |-> s[2],
                                  scopeType |-> c[1], scope |-> c[2], effect |-> g.effect]])
      PROVE  Cleans(q)
  <2>1. PICK b : b = [id |-> 0, org |-> o, role |-> g.role, subjectType |-> s[1],
                      subject |-> s[2], scopeType |-> c[1], scope |-> c[2],
                      effect |-> g.effect]
    OBVIOUS
  <2>2. PICK r : r = [op |-> "createBinding", row |-> b]
    OBVIOUS
  <2>3. SubjectExists(db, b)
    BY <2>1, SubjectIsThere
  <2>4. c \in ResolveScope(o)
    BY DEF ResolveScope
  <2>5. ScopeExists(db, b)
    BY <2>1, <2>4, ScopeIsThere
  <2>6. Knows(db, r)
    BY <2>2, <2>3, <2>5 DEF Knows
  <2> QED
    BY <1>1, <2>1, <2>2, <2>6 DEF Cleans
<1>2. ASSUME Answers(q, "createBinding"), InsertBinding(request[q].row) PROVE Cleans(q)
  <2>1. /\ request[q].row \in NewBinding
        /\ Exists(db, request[q].row.org) =>
              SubjectExists(db, request[q].row) /\ ScopeExists(db, request[q].row)
    BY <1>2 DEF Aware, Ready, RequestOK, Answers, Goes, Knows
  <2>2. NothingDangles(db')
    BY <1>2, <2>1, AwareBefore, InsertBindingTidy
  <2> QED
    BY <1>2, <2>2, AnsweredTidy DEF Resting
<1> QED
  BY <1>1, <1>2 DEF CreateRoleBinding

LEMMA ChangeMemberRoleCleans ==
    ASSUME NEW ow, NEW q, Aware(ow, q), ChangeMemberRole(q)
    PROVE  Cleans(q)
<1>1. ASSUME NEW o \in Organization, NEW s \in Members(o), NEW i,
             Checked(q, [op |-> "changeRole", org |-> o, user |-> s, role |-> i])
      PROVE  Cleans(q)
  <2>1. PICK r : r = [op |-> "changeRole", org |-> o, user |-> s, role |-> i]
    OBVIOUS
  <2>2. IsIn(db, o, s) \/ RowExists(db.accounts, o, s)
    BY <1>1 DEF Members, IsMember, IsIn
  <2>3. Knows(db, r)
    BY <2>1, <2>2 DEF Knows
  <2> QED
    BY <1>1, <2>1, <2>3 DEF Cleans
<1>2. ASSUME Answers(q, "changeRole"),
             ReplaceRole(request[q].org, request[q].user, request[q].role)
      PROVE  Cleans(q)
  <2>1. Exists(db, request[q].org) =>
           \/ IsIn(db, request[q].org, request[q].user)
           \/ RowExists(db.accounts, request[q].org, request[q].user)
    BY <1>2 DEF Aware, Answers, Goes, Knows
  <2>2. NothingDangles(db')
    BY <1>2, <2>1, AwareBefore, ReplaceRoleTidy
  <2> QED
    BY <1>2, <2>2, AnsweredTidy DEF Resting
<1> QED
  BY <1>1, <1>2 DEF ChangeMemberRole

LEMMA CreateVariableCleans ==
    ASSUME NEW ow, NEW q, Aware(ow, q), CreateVariable(q)
    PROVE  Cleans(q)
<1>1. ASSUME NEW o \in Organization, NEW s \in ResolveScope(o), NEW k \in Key,
             NEW secret \in BOOLEAN,
             Checked(q, [op |-> "createVariable", org |-> o, scopeType |-> s[1],
                         scope |-> s[2], key |-> k, secret |-> secret])
      PROVE  Cleans(q)
  <2>1. PICK r : r = [op |-> "createVariable", org |-> o, scopeType |-> s[1],
                      scope |-> s[2], key |-> k, secret |-> secret]
    OBVIOUS
  <2>2. r.op = "createVariable" /\ r.org = o /\ r.scopeType = s[1] /\ r.scope = s[2]
    BY <2>1
  <2>3. ScopeExists(db, r)
    BY <2>2, ScopeIsThere
  <2>4. Knows(db, r)
    BY <2>2, <2>3 DEF Knows
  <2> QED
    BY <1>1, <2>1, <2>4 DEF Cleans
<1>2. ASSUME Answers(q, "createVariable"),
             InsertVariable(request[q].org, request[q].scopeType, request[q].scope,
                            request[q].key, request[q].secret)
      PROVE  Cleans(q)
  <2>1. Exists(db, request[q].org) => ScopeExists(db, request[q])
    BY <1>2 DEF Aware, Answers, Goes, Knows
  <2>2. NothingDangles(db')
    BY <1>2, <2>1, AwareBefore, InsertVariableTidy
  <2> QED
    BY <1>2, <2>2, AnsweredTidy DEF Resting
<1> QED
  BY <1>1, <1>2 DEF CreateVariable

LEMMA CreateWorkspaceCleans ==
    ASSUME NEW ow, NEW q, Aware(ow, q), CreateWorkspace(q)
    PROVE  Cleans(q)
<1>1. ASSUME NEW p \in db.projects, NEW e,
             e # 0 => [org |-> p.org, project |-> p.id, id |-> e] \in db.environments,
             Checked(q, [op |-> "createWorkspace", org |-> p.org, project |-> p.id,
                         environment |-> e])
      PROVE  Cleans(q)
  <2>1. PICK r : r = [op |-> "createWorkspace", org |-> p.org, project |-> p.id,
                      environment |-> e]
    OBVIOUS
  <2>2. r.op = "createWorkspace" /\ r.org = p.org /\ r.project = p.id /\ r.environment = e
    BY <2>1
  <2>3. HasEnvironment(db, r)
    BY <1>1, <2>2 DEF HasEnvironment
  <2>4. Knows(db, r)
    BY <2>2, <2>3 DEF Knows
  <2> QED
    BY <1>1, <2>1, <2>4 DEF Cleans
<1>2. ASSUME Answers(q, "createWorkspace"),
             InsertWorkspace(request[q].org, request[q].project, request[q].environment)
      PROVE  Cleans(q)
  <2>1. /\ request[q].org \in Id
        /\ Exists(db, request[q].org) => HasEnvironment(db, request[q])
    BY <1>2 DEF Aware, Ready, RequestOK, OrgOp, Answers, Goes, Knows
  <2>2. NothingDangles(db')
    BY <1>2, <2>1, AwareBefore, InsertWorkspaceTidy
  <2> QED
    BY <1>2, <2>2, AnsweredTidy DEF Resting
<1> QED
  BY <1>1, <1>2 DEF CreateWorkspace

\* Nobody is bound who was no member; whoever is inserted is one.
LEMMA InsertMembershipIsIn ==
    ASSUME db \in Database, NothingDangles(db), NEW o, NEW u \in User, InsertMembership(o, u),
           OrgExists(o), ~MembershipExists(o, u), \A x \in db.accounts : x.id \notin User
    PROVE  /\ IsIn(db', o, u)
           /\ NoneFor(db', o, "user", u) /\ NoneFor(db', o, "service_account", u)
<1>1. PICK d, e : d = db /\ e = db' /\ d \in Database /\ NothingDangles(d)
  OBVIOUS
<1>2. PICK new : new = [org |-> o, user |-> u, blocked |-> FALSE]
  OBVIOUS
<1>3. e = [d EXCEPT !.members = @ \cup {new}]
  BY <1>1, <1>2 DEF InsertMembership
<1>4. e.members = d.members \cup {new} /\ e.bindings = d.bindings
  BY <1>1, <1>3 DEF Database
<1>5. new.org = o /\ new.user = u
  BY <1>2
<1>6. IsIn(e, o, u)
  BY <1>4, <1>5 DEF IsIn
<1>7. ASSUME NEW b \in d.bindings, b.org = o, b.subject = u,
             b.subjectType \in {"user", "service_account"}
      PROVE  FALSE
  <2>1. SubjectExists(d, b)
    BY <1>1 DEF NothingDangles
  <2>2. ~RowExists(d.accounts, o, u)
    BY <1>1 DEF RowExists
  <2>3. ~\E m \in d.members : m.org = o /\ m.user = u
    BY <1>1 DEF MembershipExists
  <2> QED
    BY <1>7, <2>1, <2>2, <2>3 DEF SubjectExists
<1>8. NoneFor(e, o, "user", u) /\ NoneFor(e, o, "service_account", u)
  BY <1>4, <1>7 DEF NoneFor
<1> QED
  BY <1>1, <1>6, <1>8

LEMMA DeleteForSubjectNone ==
    ASSUME db \in Database, NEW o, NEW type, NEW s, DeleteForSubject(o, type, s)
    PROVE  NoneFor(db', o, type, s)
<1>1. PICK d, e : d = db /\ e = db' /\ d \in Database
  OBVIOUS
<1>2. PICK R : R = {x \in d.bindings : ~(x.org = o /\ x.subjectType = type /\ x.subject = s)}
  OBVIOUS
<1>3. e = [d EXCEPT !.bindings = R]
  BY <1>1, <1>2 DEF DeleteForSubject
<1>4. e.bindings = R
  BY <1>1, <1>3 DEF Database
<1>5. NoneFor(e, o, type, s)
  BY <1>2, <1>4 DEF NoneFor
<1> QED
  BY <1>1, <1>5

LEMMA AddMemberCleans ==
    ASSUME NEW ow, NEW q, Aware(ow, q), AddMember(q)
    PROVE  Cleans(q)
<1>1. ASSUME NEW o \in Organization, NEW u \in User,
             Checked(q, [op |-> "addMember", org |-> o, user |-> u])
      PROVE  Cleans(q)
  <2>1. PICK r : r = [op |-> "addMember", org |-> o, user |-> u]
    OBVIOUS
  <2> QED
    BY <1>1, <2>1, AskedPlain DEF KnowingOp
<1>2. ASSUME NEW s, Goes(q, "addMember", s),
             s = IF OrgExists(request[q].org) /\ ~MembershipExists(request[q].org, request[q].user)
                 THEN [request[q] EXCEPT !.op = "addMemberRole"] ELSE Ended,
             InsertMembership(request[q].org, request[q].user)
      PROVE  Cleans(q)
  <2>1. /\ request[q] \in MemberChange /\ db \in Database /\ NothingDangles(db)
        /\ \A x \in db.accounts : x.id \notin User
    BY <1>2 DEF Aware, Ready, DbInv, WellFormed, Owned, RequestOK, Goes, MemberOp
  <2>2. NothingDangles(db')
    BY <1>2, AwareBefore, InsertMembershipTidy
  <2>3. CASE s = Ended
    BY <1>2, <2>2, <2>3, AnsweredTidy DEF Answers, Resting
  <2>4. CASE /\ OrgExists(request[q].org)
             /\ ~MembershipExists(request[q].org, request[q].user)
    <3>1. PICK o, u : o = request[q].org /\ u = request[q].user /\ u \in User
      BY <2>1 DEF MemberChange
    <3>2. s.op = "addMemberRole" /\ s.org = o /\ s.user = u
      BY <1>2, <2>1, <2>4, <3>1 DEF MemberChange
    <3>3. /\ IsIn(db', o, u)
          /\ NoneFor(db', o, "user", u) /\ NoneFor(db', o, "service_account", u)
      BY <1>2, <2>1, <2>4, <3>1, InsertMembershipIsIn
    <3>4. PICK e : e = db'
      OBVIOUS
    <3>5. Knows(e, s)
      BY <3>2, <3>3, <3>4 DEF Knows
    <3> QED
      BY <1>2, <2>2, <3>4, <3>5 DEF Cleans, Resting
  <2> QED
    BY <1>2, <2>3, <2>4
<1>3. ASSUME Answers(q, "addMemberRole"), AssignRole(request[q].org, request[q].user, RoleRead)
      PROVE  Cleans(q)
  <2>1. /\ request[q] \in MemberChange
        /\ Exists(db, request[q].org) => IsIn(db, request[q].org, request[q].user)
    BY <1>3 DEF Aware, Ready, RequestOK, Answers, Goes, MemberOp, Knows
  <2>2. request[q].org \in Id /\ request[q].user \in Id
    BY <2>1, AccessAssumption DEF MemberChange
  <2>3. RoleRead \in Id
    BY BuiltinOwned DEF Aware, Ready
  <2>4. NothingDangles(db')
    BY <1>3, <2>1, <2>2, <2>3, AwareBefore, AssignRoleTidy
  <2> QED
    BY <1>3, <2>4, AnsweredTidy DEF Resting
<1> QED
  BY <1>1, <1>2, <1>3 DEF AddMember

LEMMA RemoveMemberCleans ==
    ASSUME NEW ow, NEW q, Aware(ow, q), RemoveMember(q)
    PROVE  Cleans(q)
<1>1. ASSUME NEW m \in db.members,
             Checked(q, [op |-> "removeMember", org |-> m.org, user |-> m.user])
      PROVE  Cleans(q)
  <2>1. PICK r : r = [op |-> "removeMember", org |-> m.org, user |-> m.user]
    OBVIOUS
  <2> QED
    BY <1>1, <2>1, AskedPlain DEF KnowingOp
<1>2. ASSUME Goes(q, "removeMember", [request[q] EXCEPT !.op = "removeMembership"]),
             DeleteForSubject(request[q].org, "user", request[q].user)
      PROVE  Cleans(q)
  <2>1. PICK s : s = [request[q] EXCEPT !.op = "removeMembership"]
    OBVIOUS
  <2>2. db \in Database /\ request[q] \in MemberChange
    BY <1>2 DEF Aware, Ready, DbInv, WellFormed, RequestOK, Goes, MemberOp
  <2>3. NothingDangles(db')
    BY <1>2, AwareBefore, DeleteForSubjectTidy
  <2>4. s.op = "removeMembership" /\ s.org = request[q].org /\ s.user = request[q].user
    BY <2>1, <2>2 DEF MemberChange
  <2>5. NoneFor(db', s.org, "user", s.user)
    BY <1>2, <2>2, <2>4, DeleteForSubjectNone
  <2>6. PICK e : e = db'
    OBVIOUS
  <2>7. Knows(e, s)
    BY <2>4, <2>5, <2>6 DEF Knows
  <2> QED
    BY <1>2, <2>1, <2>3, <2>6, <2>7 DEF Cleans, Resting
<1>3. ASSUME Answers(q, "removeMembership"), DeleteMembership(request[q].org, request[q].user)
      PROVE  Cleans(q)
  <2>1. NoneFor(db, request[q].org, "user", request[q].user)
    BY <1>3 DEF Aware, Answers, Goes, Knows
  <2>2. NothingDangles(db')
    BY <1>3, <2>1, AwareBefore, DeleteMembershipTidy
  <2> QED
    BY <1>3, <2>2, AnsweredTidy DEF Resting
<1> QED
  BY <1>1, <1>2, <1>3 DEF RemoveMember

LEMMA DeleteTeamCleans ==
    ASSUME NEW ow, NEW q, Aware(ow, q), DeleteTeam(q)
    PROVE  Cleans(q)
<1>1. ASSUME NEW t \in db.teams,
             Checked(q, [op |-> "deleteTeam", org |-> t.org, id |-> t.id])
      PROVE  Cleans(q)
  <2>1. PICK r : r = [op |-> "deleteTeam", org |-> t.org, id |-> t.id]
    OBVIOUS
  <2> QED
    BY <1>1, <2>1, AskedPlain DEF KnowingOp
<1>2. ASSUME Goes(q, "deleteTeam", [request[q] EXCEPT !.op = "deleteTeamRows"]),
             DeleteForSubject(request[q].org, "team", request[q].id)
      PROVE  Cleans(q)
  <2>1. PICK s : s = [request[q] EXCEPT !.op = "deleteTeamRows"]
    OBVIOUS
  <2>2. db \in Database /\ request[q] \in TeamDeletion
    BY <1>2 DEF Aware, Ready, DbInv, WellFormed, RequestOK, Goes, TeamOp
  <2>3. NothingDangles(db')
    BY <1>2, AwareBefore, DeleteForSubjectTidy
  <2>4. s.op = "deleteTeamRows" /\ s.org = request[q].org /\ s.id = request[q].id
    BY <2>1, <2>2 DEF TeamDeletion
  <2>5. NoneFor(db', s.org, "team", s.id)
    BY <1>2, <2>2, <2>4, DeleteForSubjectNone
  <2>6. PICK e : e = db'
    OBVIOUS
  <2>7. Knows(e, s)
    BY <2>4, <2>5, <2>6 DEF Knows
  <2> QED
    BY <1>2, <2>1, <2>3, <2>6, <2>7 DEF Cleans, Resting
<1>3. ASSUME Answers(q, "deleteTeamRows"),
             DeleteTeamAndMemberships(request[q].org, request[q].id)
      PROVE  Cleans(q)
  <2>1. NoneFor(db, request[q].org, "team", request[q].id)
    BY <1>3 DEF Aware, Answers, Goes, Knows
  <2>2. NothingDangles(db')
    BY <1>3, <2>1, AwareBefore, DeleteTeamAndMembershipsTidy
  <2> QED
    BY <1>3, <2>2, AnsweredTidy DEF Resting
<1> QED
  BY <1>1, <1>2, <1>3 DEF DeleteTeam

LEMMA CreateOrganizationCleans ==
    ASSUME NEW ow, NEW q, Aware(ow, q), CreateOrganization(q)
    PROVE  Cleans(q)
<1>1. ASSUME NEW u \in User,
             Checked(q, [op |-> "createOrg", user |-> u, first |-> db.orgs = {}])
      PROVE  Cleans(q)
  <2>1. PICK r : r = [op |-> "createOrg", user |-> u, first |-> db.orgs = {}]
    OBVIOUS
  <2>2. r.op = "createOrg"
    BY <2>1
  <2> QED
    BY <1>1, <2>1, <2>2, AskedPlain DEF KnowingOp
<1>2. ASSUME Goes(q, "createOrg", [op |-> "orgMembership", org |-> db.next,
                                   user |-> request[q].user, first |-> request[q].first]),
             InsertOrganization
      PROVE  Cleans(q)
  <2>1. PICK s : s = [op |-> "orgMembership", org |-> db.next,
                      user |-> request[q].user, first |-> request[q].first]
    OBVIOUS
  <2>2. s.op = "orgMembership"
    BY <2>1
  <2>3. NothingDangles(db')
    BY <1>2, AwareBefore, InsertOrganizationTidy
  <2> QED
    BY <1>2, <2>1, <2>2, <2>3, ContinuedPlain DEF KnowingOp, Resting
<1>3. ASSUME NEW s, Goes(q, "orgMembership", s),
             s = IF OrgExists(request[q].org) /\ ~MembershipExists(request[q].org, request[q].user)
                 THEN [request[q] EXCEPT !.op = "orgOwner"] ELSE Ended,
             InsertMembership(request[q].org, request[q].user)
      PROVE  Cleans(q)
  <2>1. /\ request[q] \in Creation /\ db \in Database /\ NothingDangles(db)
        /\ \A x \in db.accounts : x.id \notin User
    BY <1>3 DEF Aware, Ready, DbInv, WellFormed, Owned, RequestOK, Goes, CreationOp
  <2>2. NothingDangles(db')
    BY <1>3, AwareBefore, InsertMembershipTidy
  <2>3. CASE s = Ended
    BY <1>3, <2>2, <2>3, AnsweredTidy DEF Answers, Resting
  <2>4. CASE /\ OrgExists(request[q].org)
             /\ ~MembershipExists(request[q].org, request[q].user)
    <3>1. PICK o, u : o = request[q].org /\ u = request[q].user /\ u \in User
      BY <2>1 DEF Creation
    <3>2. s.op = "orgOwner" /\ s.org = o /\ s.user = u
      BY <1>3, <2>1, <2>4, <3>1 DEF Creation
    <3>3. IsIn(db', o, u)
      BY <1>3, <2>1, <2>4, <3>1, InsertMembershipIsIn
    <3>4. PICK e : e = db'
      OBVIOUS
    <3>5. Knows(e, s)
      BY <3>2, <3>3, <3>4 DEF Knows
    <3> QED
      BY <1>3, <2>2, <3>4, <3>5 DEF Cleans, Resting
  <2> QED
    BY <1>3, <2>3, <2>4
<1>4. ASSUME NEW s, Goes(q, "orgOwner", s),
             s \in {[request[q] EXCEPT !.op = "orgFirstAdmin"], Ended},
             AssignRole(request[q].org, request[q].user, RoleOwner)
      PROVE  Cleans(q)
  <2>1. /\ request[q] \in Creation
        /\ Exists(db, request[q].org) => IsIn(db, request[q].org, request[q].user)
    BY <1>4 DEF Aware, Ready, RequestOK, Goes, CreationOp, Knows
  <2>2. request[q].org \in Id /\ request[q].user \in Id
    BY <2>1, AccessAssumption DEF Creation
  <2>3. RoleOwner \in Id
    BY BuiltinOwned DEF Aware, Ready
  <2>4. NothingDangles(db')
    BY <1>4, <2>1, <2>2, <2>3, AwareBefore, AssignRoleTidy
  <2>5. CASE s = Ended
    BY <1>4, <2>4, <2>5, AnsweredTidy DEF Answers, Resting
  <2>6. CASE s = [request[q] EXCEPT !.op = "orgFirstAdmin"]
    <3>1. s.op = "orgFirstAdmin"
      BY <2>1, <2>6 DEF Creation
    <3> QED
      BY <1>4, <2>4, <3>1, ContinuedPlain DEF KnowingOp, Resting
  <2> QED
    BY <1>4, <2>5, <2>6
<1>5. ASSUME Answers(q, "orgFirstAdmin"), SetAdmin(request[q].user, TRUE)
      PROVE  Cleans(q)
  <2>1. NothingDangles(db')
    BY <1>5, AwareBefore, SetAdminTidy
  <2> QED
    BY <1>5, <2>1, AnsweredTidy DEF Resting
<1> QED
  BY <1>1, <1>2, <1>3, <1>4, <1>5 DEF CreateOrganization

LEMMA ResolveVariableCleans ==
    ASSUME NEW ow, NEW q, Aware(ow, q), ResolveVariable(q)
    PROVE  Cleans(q)
<1>1. ASSUME NEW w \in db.workspaces, NEW k \in Key,
             Checked(q, [op |-> "resolve", workspace |-> w, key |-> k, level |-> 1,
                         from |-> db.variables])
      PROVE  Cleans(q)
  <2>1. PICK r : r = [op |-> "resolve", workspace |-> w, key |-> k, level |-> 1,
                      from |-> db.variables]
    OBVIOUS
  <2>2. r.op = "resolve"
    BY <2>1
  <2> QED
    BY <1>1, <2>1, <2>2, AskedPlain DEF KnowingOp
<1>2. ASSUME NEW r, r = request[q], NEW scope, scope = ScopeCascade(r.workspace)[r.level],
             NEW found, found = At(db.variables, scope[1], scope[2], r.key), UNCHANGED db,
             Goes(q, "resolve",
                  IF found = {} /\ r.level < 4
                  THEN [r EXCEPT !.level = @ + 1]
                  ELSE [op |-> "resolved", workspace |-> r.workspace, key |-> r.key,
                        found |-> {v.id : v \in found}, from |-> r.from, to |-> db.variables])
      PROVE  Cleans(q)
  <2>1. PICK s : s = IF found = {} /\ r.level < 4
                     THEN [r EXCEPT !.level = @ + 1]
                     ELSE [op |-> "resolved", workspace |-> r.workspace, key |-> r.key,
                           found |-> {v.id : v \in found}, from |-> r.from, to |-> db.variables]
    OBVIOUS
  <2>2. r.op = "resolve" /\ r \in Resolving
    BY <1>2 DEF Aware, Ready, Goes, ResolveOK
  <2>3. s.op \in {"resolve", "resolved"}
    BY <2>1, <2>2 DEF Resolving
  <2>4. NothingDangles(db')
    BY <1>2 DEF Aware
  <2>5. Goes(q, "resolve", s)
    BY <1>2, <2>1
  <2>6. s.op \notin KnowingOp /\ "resolve" \notin Resting
    BY <2>3 DEF KnowingOp, Resting
  <2> QED
    BY <2>4, <2>5, <2>6, ContinuedPlain
<1> QED
  BY <1>1, <1>2, Zenon DEF ResolveVariable

LEMMA BreaksCleans ==
    ASSUME NEW ow, NEW q, Aware(ow, q), Breaks(q)
    PROVE  Cleans(q)
<1>1. Ended.op \notin KnowingOp
  BY DEF Ended, KnowingOp
<1>2. NothingDangles(db')
  BY DEF Aware, Breaks
<1>3. Goes(q, request[q].op, Ended) /\ request[q].op \notin Resting
  BY DEF Goes, Breaks, Active, Resting
<1> QED
  BY <1>1, <1>2, <1>3, ContinuedPlain

LEMMA RequestCleans ==
    ASSUME NEW ow, NEW q, Aware(ow, q),
           AccessRequest(q) \/ TenancyRequest(q) \/ ResourceRequest(q) \/ Breaks(q)
    PROVE  Cleans(q)
<1>1. CASE AccessRequest(q)
  BY <1>1, CreateRoleCleans, UpdateRoleCleans, CreateRoleBindingCleans, DeleteRoleBindingCleans,
     CreateServiceAccountCleans, CreateAPIKeyCleans, RevokeAPIKeyCleans, SetPlatformAdminCleans
  DEF AccessRequest
<1>2. CASE TenancyRequest(q)
  BY <1>2, CreateOrganizationCleans, ArchiveOrganizationCleans, DeleteOrganizationCleans,
     AddMemberCleans, ChangeMemberRoleCleans, RemoveMemberCleans, BlockMemberCleans,
     UnblockMemberCleans, CreateTeamCleans, UpdateTeamCleans, DeleteTeamCleans,
     AddTeamMemberCleans, RemoveTeamMemberCleans, CreateProjectCleans, DeleteProjectCleans
  DEF TenancyRequest
<1>3. CASE ResourceRequest(q)
  BY <1>3, CreateEnvironmentCleans, CreateWorkspaceCleans, DeleteWorkspaceCleans,
     CreateVariableCleans, UpdateVariableCleans, DeleteVariableCleans, ResolveVariableCleans
  DEF ResourceRequest
<1> QED
  BY <1>1, <1>2, <1>3, BreaksCleans

-----------------------------------------------------------------------------
(* The inductive invariant.                                                 *)

\* What a request knows it still knows after a purge: what it points at is
\* there, or its Organization is gone.
LEMMA KnowsKept ==
    ASSUME NEW d, NEW e, NEW r, Knows(d, r), NEW o,
           \A i : Exists(e, i) => Exists(d, i) /\ i # o,
           e.members = Without(d.members, o), e.teams = Without(d.teams, o),
           e.projects = Without(d.projects, o), e.environments = Without(d.environments, o),
           e.workspaces = Without(d.workspaces, o), e.bindings = Without(d.bindings, o),
           e.accounts = Without(d.accounts, o)
    PROVE  Knows(e, r)
<1>1. \A T : \A i, p : p # o /\ RowExists(T, p, i) => RowExists(Without(T, o), p, i)
  BY DEF RowExists, Without
<1>2. \A p, u : p # o /\ IsIn(d, p, u) => IsIn(e, p, u)
  BY DEF IsIn, Without
<1>3. ASSUME NEW b, b.org # o, SubjectExists(d, b) PROVE SubjectExists(e, b)
  <2>1. CASE \E m \in d.members : b.subjectType = "user" /\ m.org = b.org /\ m.user = b.subject
    BY <1>3, <2>1 DEF SubjectExists, Without
  <2> QED
    BY <1>1, <1>3, <2>1 DEF SubjectExists
<1>4. ASSUME NEW x, x.org # o, ScopeExists(d, x) PROVE ScopeExists(e, x)
  BY <1>1, <1>4 DEF ScopeExists
<1>5. ASSUME NEW x, x.org # o, HasEnvironment(d, x) PROVE HasEnvironment(e, x)
  BY <1>5 DEF HasEnvironment, Without
<1>6. \A p, type, s : NoneFor(d, p, type, s) => NoneFor(e, p, type, s)
  BY DEF NoneFor, Without
<1>7. ASSUME r.op = "createBinding", Exists(e, r.row.org)
      PROVE  SubjectExists(e, r.row) /\ ScopeExists(e, r.row)
  BY <1>3, <1>4, <1>7 DEF Knows
<1>8. ASSUME r.op \in {"orgOwner", "addMemberRole"}, Exists(e, r.org) PROVE IsIn(e, r.org, r.user)
  BY <1>2, <1>8 DEF Knows
<1>9. ASSUME r.op = "changeRole", Exists(e, r.org)
      PROVE  IsIn(e, r.org, r.user) \/ RowExists(e.accounts, r.org, r.user)
  BY <1>1, <1>2, <1>9 DEF Knows
<1>10. ASSUME r.op = "createVariable", Exists(e, r.org) PROVE ScopeExists(e, r)
  BY <1>4, <1>10 DEF Knows
<1>11. ASSUME r.op = "createWorkspace", Exists(e, r.org) PROVE HasEnvironment(e, r)
  BY <1>5, <1>11 DEF Knows
<1>12. /\ r.op = "addMemberRole" =>
             NoneFor(e, r.org, "user", r.user) /\ NoneFor(e, r.org, "service_account", r.user)
       /\ r.op = "removeMembership" => NoneFor(e, r.org, "user", r.user)
       /\ r.op = "deleteTeamRows" => NoneFor(e, r.org, "team", r.id)
  BY <1>6 DEF Knows
<1> QED
  BY <1>7, <1>8, <1>9, <1>10, <1>11, <1>12 DEF Knows

\* An event that grows older is of no interest.
LEMMA WindowPassesTidy ==
    ASSUME Before, NEW o, WindowPasses(o)
    PROVE  NothingDangles(db') /\ \A r : Knows(db, r) => Knows(db', r)
<1>1. PICK d, e : d = db /\ e = db' /\ d \in Database /\ NothingDangles(d)
  BY DEF Before
<1>2. PICK R : R = {[x EXCEPT !.due = x.due \/ x.org = o] : x \in d.archivals}
  OBVIOUS
<1>3. e = [d EXCEPT !.archivals = R]
  BY <1>1, <1>2 DEF WindowPasses
<1>4. /\ e.members = d.members /\ e.teams = d.teams /\ e.accounts = d.accounts
      /\ e.projects = d.projects /\ e.environments = d.environments
      /\ e.workspaces = d.workspaces /\ e.bindings = d.bindings /\ e.variables = d.variables
      /\ e.orgs = d.orgs
  BY <1>1, <1>3 DEF Database
<1>5. NothingDangles(e)
  BY <1>1, <1>4 DEF NothingDangles, SubjectExists, ScopeExists
<1>6. ASSUME NEW r, Knows(d, r) PROVE Knows(e, r)
  BY <1>4, <1>6 DEF Knows, SubjectExists, ScopeExists, HasEnvironment, IsIn, NoneFor, Exists
<1> QED
  BY <1>1, <1>5, <1>6

LEMMA PurgeKeepsKnowing ==
    ASSUME Before, NEW o, PurgeOrganization(o)
    PROVE  \A r : Knows(db, r) => Knows(db', r)
<1>1. PICK d, e : d = db /\ e = db' /\ d \in Database
  BY DEF Before
<1>2. /\ e.members = Without(d.members, o) /\ e.teams = Without(d.teams, o)
      /\ e.projects = Without(d.projects, o) /\ e.environments = Without(d.environments, o)
      /\ e.workspaces = Without(d.workspaces, o) /\ e.bindings = Without(d.bindings, o)
      /\ e.accounts = Without(d.accounts, o) /\ e.orgs = {x \in d.orgs : x.id # o}
  BY <1>1, PurgeLeaves
<1>3. \A i : Exists(e, i) => Exists(d, i) /\ i # o
  BY <1>2 DEF Exists
<1>4. ASSUME NEW r, Knows(d, r) PROVE Knows(e, r)
  BY <1>2, <1>3, <1>4, KnowsKept
<1> QED
  BY <1>1, <1>4

\* A history variable: what has overlapped has overlapped for ever.
LEMMA OverlapStays ==
    ASSUME NEW q, AccessRequest(q) \/ TenancyRequest(q) \/ ResourceRequest(q) \/ Breaks(q), overlap
    PROVE  overlap'
<1>1. \A r : Checked(q, r) => overlap'
  BY DEF Checked
<1>2. \A op, r : Goes(q, op, r) => overlap'
  BY DEF Goes
<1>3. CASE AccessRequest(q)
  <2>1. CreateRole(q) \/ UpdateRole(q) \/ CreateRoleBinding(q) \/ DeleteRoleBinding(q) => overlap'
    BY <1>1, <1>2 DEF Answers, CreateRole, UpdateRole, CreateRoleBinding, DeleteRoleBinding
  <2>2. CreateServiceAccount(q) \/ CreateAPIKey(q) \/ RevokeAPIKey(q) \/ SetPlatformAdmin(q)
        => overlap'
    BY <1>1, <1>2 DEF Answers, CreateServiceAccount, CreateAPIKey, RevokeAPIKey, SetPlatformAdmin
  <2> QED
    BY <1>3, <2>1, <2>2 DEF AccessRequest
<1>4. CASE TenancyRequest(q)
  <2>1. CreateOrganization(q) \/ ArchiveOrganization(q) \/ DeleteOrganization(q) \/ AddMember(q)
        => overlap'
    BY <1>1, <1>2 DEF Answers, CreateOrganization, ArchiveOrganization, DeleteOrganization,
                      AddMember
  <2>2. ChangeMemberRole(q) \/ RemoveMember(q) \/ BlockMember(q) \/ UnblockMember(q) => overlap'
    BY <1>1, <1>2 DEF Answers, ChangeMemberRole, RemoveMember, BlockMember, UnblockMember
  <2>3. CreateTeam(q) \/ UpdateTeam(q) \/ DeleteTeam(q) \/ AddTeamMember(q) => overlap'
    BY <1>1, <1>2 DEF Answers, CreateTeam, UpdateTeam, DeleteTeam, AddTeamMember
  <2>4. RemoveTeamMember(q) \/ CreateProject(q) \/ DeleteProject(q) => overlap'
    BY <1>1, <1>2 DEF Answers, RemoveTeamMember, CreateProject, DeleteProject
  <2> QED
    BY <1>4, <2>1, <2>2, <2>3, <2>4 DEF TenancyRequest
<1>5. CASE ResourceRequest(q)
  <2>1. CreateEnvironment(q) \/ CreateWorkspace(q) \/ DeleteWorkspace(q) \/ CreateVariable(q)
        => overlap'
    BY <1>1, <1>2 DEF Answers, CreateEnvironment, CreateWorkspace, DeleteWorkspace, CreateVariable
  <2>2. UpdateVariable(q) \/ DeleteVariable(q) \/ ResolveVariable(q) => overlap'
    BY <1>1, <1>2 DEF Answers, UpdateVariable, DeleteVariable, ResolveVariable
  <2> QED
    BY <1>5, <2>1, <2>2 DEF ResourceRequest
<1> QED
  BY <1>3, <1>4, <1>5 DEF Breaks

LEMMA TidyStep ==
    ASSUME Inv, Tidy, [Next]_vars
    PROVE  Tidy'
<1>1. SUFFICES ASSUME ~overlap' PROVE Tidy'
  BY DEF Tidy
<1>2. PICK ow : DbInv(ow, db) /\ RequestsOK(ow)
  BY DEF Inv
<1>3. DOMAIN request = Request /\ db \in Database
  BY <1>2 DEF Inv, DbInv, WellFormed
<1>4. ASSUME NEW q \in Request,
             AccessRequest(q) \/ TenancyRequest(q) \/ ResourceRequest(q) \/ Breaks(q), ~overlap
      PROVE  Cleans(q)
  BY <1>2, <1>4, RequestCleans DEF Tidy, Aware, Ready, RequestsOK
<1>5. ASSUME NEW q \in Request, NEW r, Checked(q, r), Knows(db, r) PROVE Tidy'
  <2>1. ~overlap /\ Active = {}
    BY <1>1, <1>5 DEF Checked
  <2>2. /\ db' = db /\ (request')[q] = r
        /\ \A p \in Request : p # q => (request')[p] = request[p]
    BY <1>3, <1>5 DEF Checked
  <2>3. \A p \in Request : p # q => request[p].op \in Resting
    BY <2>1 DEF Active, Resting
  <2>4. \A p \in Active' : p = q
    BY <2>2, <2>3 DEF Active, Resting
  <2>5. NothingDangles(db) /\ \A p \in Request : Knows(db, request[p])
    BY <2>1 DEF Tidy
  <2>6. NothingDangles(db')
    BY <2>2, <2>5
  <2>7. \A p \in Request : Knows(db', (request')[p])
    BY <1>5, <2>2, <2>5
  <2> QED
    BY <2>4, <2>6, <2>7 DEF Tidy
<1>6. ASSUME NEW q \in Request, NEW op, NEW r, Goes(q, op, r), op \notin Resting,
             NothingDangles(db'), Knows(db', r)
      PROVE  Tidy'
  <2>1. ~overlap
    BY <1>1, <1>6 DEF Goes
  <2>2. /\ (request')[q] = r
        /\ \A p \in Request : p # q => (request')[p] = request[p]
    BY <1>3, <1>6 DEF Goes
  <2>3. q \in Active
    BY <1>6 DEF Goes, Active, Resting
  <2>4. \A p \in Request : p # q => request[p].op \in Resting
    BY <2>1, <2>3 DEF Tidy, Active, Resting
  <2>5. \A p \in Active' : p = q
    BY <2>2, <2>4 DEF Active, Resting
  <2>6. PICK e : e = db'
    OBVIOUS
  <2>7. ASSUME NEW p \in Request PROVE Knows(e, (request')[p])
    <3>1. CASE p = q
      BY <1>6, <2>2, <2>6, <3>1
    <3>2. CASE p # q
      <4>1. (request')[p] = request[p] /\ request[p].op \notin KnowingOp
        BY <2>2, <2>4, <3>2 DEF Resting, KnowingOp
      <4> QED
        BY <4>1, PlainKnows
    <3> QED
      BY <3>1, <3>2
  <2> QED
    BY <1>6, <2>5, <2>6, <2>7 DEF Tidy
<1>7. ASSUME UNCHANGED <<request, overlap>>,
             ~overlap => NothingDangles(db') /\ \A r : Knows(db, r) => Knows(db', r)
      PROVE  Tidy'
  <2>1. ~overlap
    BY <1>1, <1>7
  <2>2. \A p, q \in Active' : p = q
    BY <1>7, <2>1 DEF Tidy, Active
  <2>3. \A q \in Request : Knows(db', (request')[q])
    BY <1>7, <2>1 DEF Tidy
  <2> QED
    BY <1>7, <2>1, <2>2, <2>3 DEF Tidy
<1>8. CASE \E q \in Request :
              AccessRequest(q) \/ TenancyRequest(q) \/ ResourceRequest(q) \/ Breaks(q)
  <2>1. PICK q \in Request :
              AccessRequest(q) \/ TenancyRequest(q) \/ ResourceRequest(q) \/ Breaks(q)
    BY <1>8
  <2>2. CASE overlap
    BY <1>1, <2>1, <2>2, OverlapStays
  <2>3. CASE ~overlap
    <3>1. Cleans(q)
      BY <1>4, <2>1, <2>3
    <3> QED
      BY <1>5, <1>6, <3>1 DEF Cleans
  <2> QED
    BY <2>2, <2>3
<1>9. CASE Reaper
  <2>1. ASSUME ~overlap PROVE Before
    BY <1>3, <2>1 DEF Tidy, Before
  <2>2. CASE ReaperScan
    BY <1>7, <2>2 DEF ReaperScan, Tidy
  <2>3. ASSUME NEW o \in Id, WindowPasses(o) PROVE Tidy'
    <3>1. UNCHANGED <<request, overlap>>
      BY <2>3 DEF WindowPasses
    <3> QED
      BY <1>7, <2>1, <2>3, <3>1, WindowPassesTidy
  <2>4. ASSUME NEW o \in Id, ReaperPurge(o) PROVE Tidy'
    <3>1. UNCHANGED <<request, overlap>> /\ PurgeOrganization(o)
      BY <2>4 DEF ReaperPurge
    <3> QED
      BY <1>7, <2>1, <3>1, PurgeOrganizationTidy, PurgeKeepsKnowing
  <2> QED
    BY <1>9, <2>2, <2>3, <2>4 DEF Reaper
<1>10. CASE UNCHANGED vars
  <2>1. UNCHANGED <<db, request, overlap, reaper>>
    BY <1>10 DEF vars, tenancyVars, accessVars
  <2> QED
    BY <1>7, <2>1 DEF Tidy
<1> QED
  BY <1>8, <1>9, <1>10 DEF Next

LEMMA TidyInit == Init => Tidy
<1>1. SUFFICES ASSUME Init PROVE Tidy
  OBVIOUS
<1>2. PICK i \in InitialState :
         /\ db = i.db
         /\ request = [q \in Request |-> IF q \in i.requests THEN Idle ELSE Ended]
  BY <1>1 DEF Init
<1>3. NothingDangles(db)
  BY <1>2, InitialAssumption
<1>4. \A q \in Request : request[q].op \in Resting /\ request[q].op \notin KnowingOp
  BY <1>2 DEF Idle, Ended, Resting, KnowingOp
<1>5. \A q \in Request : Knows(db, request[q])
  BY <1>4, PlainKnows
<1>6. Active = {}
  BY <1>4 DEF Active, Resting
<1> QED
  BY <1>3, <1>5, <1>6 DEF Tidy

LEMMA TidyAlways == Spec => []Tidy
<1>1. Inv /\ Tidy /\ [Next]_vars => Tidy'
  BY TidyStep
<1> QED
  BY <1>1, TidyInit, InvAlways, PTL DEF Spec

-----------------------------------------------------------------------------
(* The theorems.                                                            *)

\* Whatever single requests and the reaper do, and wherever a request breaks
\* off, no binding, variable or workspace is left pointing at something that
\* has been deleted: the cleanup of RemoveMember, DeleteTeam, DeleteProject,
\* DeleteWorkspace and the purge is complete.
THEOREM NothingIsLeftDangling == Spec => []NothingDanglesWithoutOverlap
<1>1. Tidy => NothingDanglesWithoutOverlap
  BY DEF Tidy, NothingDanglesWithoutOverlap
<1> QED
  BY <1>1, TidyAlways, PTL

\* Whoever has only the binding that AddMember makes.
OnlyTheReadRole(o, u) ==
    /\ TeamsOf(o, u) = {}
    /\ \A b \in db.bindings : b.org = o /\ b.subjectType # "team" /\ b.subject = u =>
          b.role = RoleRead /\ b.scopeType = "organization"
    /\ \A r \in db.roles : r.id = RoleRead => r.permissions = {"project:read", "workspace:read"}

LEMMA ReadRoleOnlyReads == \A o, u : OnlyTheReadRole(o, u) => OnlyReads(o, u)
<1>1. SUFFICES ASSUME NEW o, NEW u, OnlyTheReadRole(o, u) PROVE OnlyReads(o, u)
  OBVIOUS
<1>2. PICK c : c = [subject |-> u, scopes |-> Permission]
  OBVIOUS
<1>3. c.subject = u
  BY <1>2
<1>4. ASSUME NEW p, NEW scopes, NEW b \in Matches(o, u, p, scopes)
      PROVE  /\ p \in {"project:read", "workspace:read"} /\ b.scopeType = "organization"
             /\ <<b.scopeType, b.scope>> \in scopes
  <2>1. /\ b \in db.bindings /\ b.org = o /\ b.subjectType # "team" /\ b.subject = u
        /\ <<b.scopeType, b.scope>> \in scopes
    BY <1>1, <1>4 DEF Matches, OnlyTheReadRole
  <2>2. PICK r \in db.roles : r.id = b.role /\ p \in r.permissions
    BY <1>4 DEF Matches
  <2> QED
    BY <1>1, <2>1, <2>2 DEF OnlyTheReadRole
<1>5. ASSUME NEW p, NEW i, NEW j, HasPermissionAtScope(c, o, p, i, j)
      PROVE  p \in {"project:read", "workspace:read"}
  <2>1. PICK scopes : Decide(Matches(o, u, p, scopes))
    BY <1>3, <1>5 DEF HasPermissionAtScope
  <2>2. PICK b : b \in Matches(o, u, p, scopes)
    BY <2>1 DEF Decide
  <2> QED
    BY <1>4, <2>2
<1>6. ASSUME NEW p, NEW type, type # "organization", NEW i
      PROVE  ~HasScopedPermission(c, o, p, type, i)
  <2>1. ASSUME NEW b \in Matches(o, u, p, {<<type, i>>}) PROVE FALSE
    <3>1. PICK scopes : scopes = {<<type, i>>}
      OBVIOUS
    <3>2. b.scopeType = "organization" /\ <<b.scopeType, b.scope>> \in scopes
      BY <1>4, <2>1, <3>1
    <3> QED
      BY <1>6, <3>1, <3>2
  <2> QED
    BY <1>3, <2>1 DEF HasScopedPermission, Decide
<1>7. ~HasPermission(c, o, "organization:manage")
  BY <1>5 DEF HasPermission
<1>8. \A i : ~CanAccessProject(c, o, i)
  BY <1>6, <1>7 DEF CanAccessProject
<1>9. \A i, j : ~CanAccessWorkspace(c, o, i, j)
  BY <1>6, <1>8 DEF CanAccessWorkspace
<1> QED
  BY <1>2, <1>5, <1>8, <1>9 DEF OnlyReads

\* After addMemberRole nothing comes but the INSERT, or an error before it.
LEMMA RoleIsAssigned ==
    ASSUME NEW q, AccessRequest(q) \/ TenancyRequest(q) \/ ResourceRequest(q) \/ Breaks(q),
           request[q].op = "addMemberRole"
    PROVE  AssignRole(request[q].org, request[q].user, RoleRead) \/ UNCHANGED db
<1>1. \A r : ~Checked(q, r)
  BY DEF Checked, Idle
<1>2. \A op, r : Goes(q, op, r) => op = "addMemberRole"
  BY DEF Goes
<1>3. CASE AccessRequest(q)
  <2>1. ~(CreateRole(q) \/ UpdateRole(q) \/ CreateRoleBinding(q) \/ DeleteRoleBinding(q))
    BY <1>1, <1>2 DEF Answers, CreateRole, UpdateRole, CreateRoleBinding, DeleteRoleBinding
  <2>2. ~(CreateServiceAccount(q) \/ CreateAPIKey(q) \/ RevokeAPIKey(q) \/ SetPlatformAdmin(q))
    BY <1>1, <1>2 DEF Answers, CreateServiceAccount, CreateAPIKey, RevokeAPIKey, SetPlatformAdmin
  <2> QED
    BY <1>3, <2>1, <2>2 DEF AccessRequest
<1>4. CASE TenancyRequest(q)
  <2>1. ~(CreateOrganization(q) \/ ArchiveOrganization(q) \/ DeleteOrganization(q)
          \/ ChangeMemberRole(q))
    BY <1>1, <1>2 DEF Answers, CreateOrganization, ArchiveOrganization, DeleteOrganization,
                      ChangeMemberRole
  <2>2. ~(RemoveMember(q) \/ BlockMember(q) \/ UnblockMember(q) \/ CreateTeam(q))
    BY <1>1, <1>2 DEF Answers, RemoveMember, BlockMember, UnblockMember, CreateTeam
  <2>3. ~(UpdateTeam(q) \/ DeleteTeam(q) \/ AddTeamMember(q) \/ RemoveTeamMember(q))
    BY <1>1, <1>2 DEF Answers, UpdateTeam, DeleteTeam, AddTeamMember, RemoveTeamMember
  <2>4. ~(CreateProject(q) \/ DeleteProject(q))
    BY <1>1, <1>2 DEF Answers, CreateProject, DeleteProject
  <2>5. AddMember(q) => AssignRole(request[q].org, request[q].user, RoleRead)
    BY <1>1, <1>2 DEF Answers, AddMember
  <2> QED
    BY <1>4, <2>1, <2>2, <2>3, <2>4, <2>5 DEF TenancyRequest
<1>5. CASE ResourceRequest(q)
  <2>1. ~(CreateEnvironment(q) \/ CreateWorkspace(q) \/ DeleteWorkspace(q) \/ CreateVariable(q))
    BY <1>1, <1>2 DEF Answers, CreateEnvironment, CreateWorkspace, DeleteWorkspace, CreateVariable
  <2>2. ~(UpdateVariable(q) \/ DeleteVariable(q) \/ ResolveVariable(q))
    BY <1>1, <1>2 DEF Answers, UpdateVariable, DeleteVariable, ResolveVariable
  <2> QED
    BY <1>5, <2>1, <2>2 DEF ResourceRequest
<1> QED
  BY <1>3, <1>4, <1>5 DEF Breaks

\* What the INSERT leaves.
LEMMA AssignedOnlyReads ==
    ASSUME NEW ow, DbInv(ow, db), NEW o, NEW u,
           AssignRole(o, u, RoleRead) \/ UNCHANGED db, TeamsOf(o, u) = {},
           NoneFor(db, o, "user", u), NoneFor(db, o, "service_account", u)
    PROVE  OnlyTheReadRole(o, u)'
<1>1. PICK d, e : /\ d = db /\ e = db' /\ d \in Database /\ DbInv(ow, d)
                  /\ NoneFor(d, o, "user", u) /\ NoneFor(d, o, "service_account", u)
  BY DEF DbInv, WellFormed
<1>2. PICK new : new = [OrganizationBinding(o, u, RoleRead) EXCEPT !.id = d.next]
  OBVIOUS
<1>3. e = d \/ e = [[d EXCEPT !.bindings = @ \cup {new}] EXCEPT !.next = @ + 1]
  BY <1>1, <1>2 DEF AssignRole, InsertBinding, Insert
<1>4. /\ e.roles = d.roles /\ e.teamMembers = d.teamMembers
      /\ e.bindings \subseteq d.bindings \cup {new}
  BY <1>1, <1>3 DEF Database
<1>5. new.role = RoleRead /\ new.scopeType = "organization"
  BY <1>2 DEF OrganizationBinding
<1>6. ASSUME NEW b \in e.bindings, b.org = o, b.subjectType # "team", b.subject = u
      PROVE  b.role = RoleRead /\ b.scopeType = "organization"
  <2>1. CASE b \in d.bindings
    <3>1. b.subjectType \in {"user", "service_account"}
      BY <1>1, <1>6, <2>1, DatabaseTypes DEF RoleBinding, SubjectType
    <3> QED
      BY <1>1, <1>6, <2>1, <3>1 DEF NoneFor
  <2> QED
    BY <1>4, <1>5, <1>6, <2>1
<1>7. ASSUME NEW r \in e.roles, r.id = RoleRead
      PROVE  r.permissions = {"project:read", "workspace:read"}
  <2>1. r.org = ow[RoleRead] /\ ow[RoleRead] = 0
    BY <1>1, <1>4, <1>7, BuiltinOwned DEF DbInv, Owned, Owns
  <2>2. r \in BuiltinRoles
    BY <1>1, <1>4, <1>7, <2>1 DEF DbInv, WellFormed
  <2> QED
    BY <1>7, <2>2 DEF BuiltinRoles, RoleOwner, RoleAdmin, RoleWrite, RoleRead
<1>8. TeamsOf(o, u)' = {}
  BY <1>1, <1>4 DEF TeamsOf
<1> QED
  BY <1>1, <1>6, <1>7, <1>8 DEF OnlyTheReadRole

\* Whoever has just been added as a member only reads, also if an earlier
\* membership with more rights was removed before: add_member.go grants the
\* read role, and nothing that RemoveMember should have cleaned up adds to it.
THEOREM NewMembersOnlyRead == Spec => NewMemberOnlyReads
<1>1. (\A o, u : OnlyTheReadRole(o, u) => OnlyReads(o, u))'
  BY ReadRoleOnlyReads, PTL
<1>2. ASSUME Inv, Tidy, [Next]_vars, NEW q \in Request, NEW o \in Organization, NEW u \in User,
             request[q] = [op |-> "addMemberRole", org |-> o, user |-> u],
             request'[q] = Ended, ~overlap, TeamsOf(o, u) = {}
      PROVE  OnlyReads(o, u)'
  <2>1. request[q].op = "addMemberRole" /\ request[q].org = o /\ request[q].user = u
    BY <1>2
  <2>2. request'[q] # request[q]
    BY <1>2, <2>1 DEF Ended
  <2>3. PICK ow : DbInv(ow, db) /\ RequestsOK(ow)
    BY <1>2 DEF Inv
  <2>4. PICK p \in Request :
           AccessRequest(p) \/ TenancyRequest(p) \/ ResourceRequest(p) \/ Breaks(p)
    BY <1>2, <2>2 DEF Next, Reaper, ReaperScan, WindowPasses, ReaperPurge, vars, tenancyVars,
                      accessVars
  <2>5. p = q
    <3>1. Proceeds(ow, p)
      BY <2>3, <2>4, RequestProceeds DEF Ready, RequestsOK
    <3> QED
      BY <1>2, <2>2, <3>1 DEF Proceeds, Inv
  <2>6. AssignRole(o, u, RoleRead) \/ UNCHANGED db
    BY <2>1, <2>4, <2>5, RoleIsAssigned
  <2>7. NoneFor(db, o, "user", u) /\ NoneFor(db, o, "service_account", u)
    BY <1>2, <2>1 DEF Tidy, Knows
  <2>8. OnlyTheReadRole(o, u)'
    BY <1>2, <2>3, <2>6, <2>7, AssignedOnlyReads
  <2> QED
    BY <1>1, <2>8
<1>3. Inv /\ Tidy /\ [Next]_vars =>
         [\A q \in Request, o \in Organization, u \in User :
             /\ request[q] = [op |-> "addMemberRole", org |-> o, user |-> u]
             /\ request'[q] = Ended
             /\ ~overlap /\ TeamsOf(o, u) = {}
             => OnlyReads(o, u)']_vars
  BY <1>2
<1> QED
  BY <1>3, InvAlways, TidyAlways, PTL DEF Spec, NewMemberOnlyReads
=============================================================================
