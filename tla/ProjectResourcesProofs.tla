----------------------- MODULE ProjectResourcesProofs ----------------------
(***************************************************************************)
(* Proofs about ProjectResources, for any users, requests and databases to *)
(* start from that the assumptions allow.                                  *)
(*                                                                         *)
(* The inductive invariant Inv says that there is a function ow from ids   *)
(* to Organizations such that the database satisfies its schema and every  *)
(* row and every scope that a row names is what ow says (DbInv), and that  *)
(* what each request and the reaper carry between two transactions still   *)
(* agrees with it (RequestOK, Purgeable).  An id is drawn once, so ow only *)
(* grows; that is what keeps a row which points at something deleted in    *)
(* its own Organization, and the steps of one tenant out of the others.    *)
(*                                                                         *)
(* Evolves collects what one transaction does to the database.  There is   *)
(* one lemma per transaction (XStep) that proves it from DbInv, one per    *)
(* request (XProceeds) that proves RequestOK of what the request does      *)
(* next, and InvStep puts them together.                                   *)
(***************************************************************************)
EXTENDS ProjectResources, TLAPS

-----------------------------------------------------------------------------
(* The database.                                                            *)

Table == OrgTable \cup {"orgs", "admins"}

\* Only the tables T, and the next id, may differ.
Fixes(d, e, T) == \A t \in Table : t \notin T => e[t] = d[t]

Exists(d, o) == \E x \in d.orgs : x.id = o
ArchivedIn(d, o) == [id |-> o, archived |-> TRUE] \in d.orgs
DueIn(d, o) == [org |-> o, due |-> TRUE] \in d.archivals

\* An id below n that ow gives to the Organization o; and a scope that is o's.
Owns(ow, o, i, n) == i < n /\ ow[i] = o
ScopeOwned(ow, x, n) ==
    \/ x.scopeType = "organization" /\ x.scope = x.org
    \/ x.scopeType # "organization" /\ Owns(ow, x.org, x.scope, n)

\* Ids are drawn once, and what an id was drawn for is of one Organization for
\* ever: also a row that points at something deleted points at something of its
\* own Organization.
Owned(ow, d) ==
    /\ ow \in [Nat -> Nat]
    /\ \A u \in User : u < d.next
    /\ \A x \in d.orgs : x.id < d.next
    /\ \A x \in d.accounts : x.id \notin User
    /\ \A x \in d.projects : Owns(ow, x.org, x.id, d.next)
    /\ \A x \in d.environments \cup d.workspaces :
          Owns(ow, x.org, x.id, d.next) /\ Owns(ow, x.org, x.project, d.next)
    /\ \A x \in d.roles : Owns(ow, x.org, x.id, d.next)
    /\ \A x \in d.bindings : ScopeOwned(ow, x, d.next)
    /\ \A x \in d.variables : ScopeOwned(ow, x, d.next) /\ x.id < d.next
    /\ \A x, y \in d.variables : x.id = y.id => x = y

DbInv(ow, d) == WellFormed(d) /\ Owned(ow, d)

\* What a step may do to the Organizations: whoever exists and is not new has
\* existed, and as long as he does he stays archived and his event due.
OrgsLater(d, e) ==
    \A o \in Id : Exists(e, o) /\ o < d.next =>
        /\ Exists(d, o)
        /\ ArchivedIn(d, o) => ArchivedIn(e, o)
        /\ DueIn(d, o) => DueIn(e, o)

\* ... and to the variables: one that is not new has had its place before.
SamePlace(v, x) ==
    v.id = x.id /\ v.scopeType = x.scopeType /\ v.scope = x.scope /\ v.key = x.key
VariablesLater(d, e) ==
    \A x \in e.variables : d.next <= x.id \/ \E v \in d.variables : SamePlace(v, x)

Extends(ow, d, w, e) ==
    /\ d.next <= e.next
    /\ \A i \in Nat : i < d.next => w[i] = ow[i]

\* The steps of OrganizationLifecycle.
Touches(d, e, o) ==
    \A t \in OrgTable : \A x :
        (x \in d[t] /\ x \notin e[t]) \/ (x \in e[t] /\ x \notin d[t]) => x.org = o
Draws(d, e) == e.next = d.next \/ (d.next \in Id /\ e.next = d.next + 1)
Stays(d, e) == e.orgs = d.orgs /\ e.next = d.next /\ \A t \in OrgTable : e[t] = d[t]
Works(d, e, o) == Exists(d, o) /\ e.orgs = d.orgs /\ Draws(d, e) /\ Touches(d, e, o)
Creates(d, e) ==
    /\ d.next \in Id /\ e.next = d.next + 1
    /\ e.orgs = d.orgs \cup {[id |-> d.next, archived |-> FALSE]}
    /\ \A t \in OrgTable : e[t] = d[t]
Archives(d, e, o) ==
    /\ Exists(d, o) /\ e.next = d.next /\ Touches(d, e, o)
    /\ \A i \in Id : Exists(e, i) <=> Exists(d, i)
    /\ \A i \in Id : ArchivedIn(e, i) <=> ArchivedIn(d, i) \/ i = o
Removes(d, e, o) ==
    /\ Exists(d, o) /\ e.next = d.next /\ Touches(d, e, o)
    /\ e.orgs = {x \in d.orgs : x.id # o}
    /\ \A t \in OrgTable : \A x \in e[t] : x.org # o
Refines(d, e) ==
    \/ Stays(d, e) \/ Creates(d, e)
    \/ \E o \in Id : Works(d, e, o) \/ Archives(d, e, o) \/ Removes(d, e, o)

\* What every transaction does to the database.
Becomes(ow, d, w, e) ==
    /\ DbInv(w, e) /\ Extends(ow, d, w, e)
    /\ OrgsLater(d, e) /\ VariablesLater(d, e) /\ Refines(d, e)
Evolves(ow, d, e) == \E w : Becomes(ow, d, w, e)

-----------------------------------------------------------------------------
(* Changes of the database in general.                                      *)

LEMMA DatabaseTypes ==
    ASSUME NEW d \in Database
    PROVE  /\ d.orgs \subseteq Organizations /\ d.archivals \subseteq ArchivalEvent
           /\ d.members \subseteq OrganizationMembership /\ d.teams \subseteq Team
           /\ d.teamMembers \subseteq TeamMembership /\ d.projects \subseteq Project
           /\ d.environments \subseteq Environment /\ d.workspaces \subseteq Workspace
           /\ d.roles \subseteq Role /\ d.bindings \subseteq RoleBinding
           /\ d.accounts \subseteq ServiceAccount /\ d.apiKeys \subseteq APIKey
           /\ d.variables \subseteq Variable /\ d.admins \subseteq User /\ d.next \in Nat
BY DEF Database

\* Whatever is fixed is fixed.
LEMMA FixesAll ==
    ASSUME NEW d, NEW e, NEW T, Fixes(d, e, T)
    PROVE  /\ "orgs" \notin T => e.orgs = d.orgs
           /\ "archivals" \notin T => e.archivals = d.archivals
           /\ "members" \notin T => e.members = d.members
           /\ "teams" \notin T => e.teams = d.teams
           /\ "teamMembers" \notin T => e.teamMembers = d.teamMembers
           /\ "projects" \notin T => e.projects = d.projects
           /\ "environments" \notin T => e.environments = d.environments
           /\ "workspaces" \notin T => e.workspaces = d.workspaces
           /\ "roles" \notin T => e.roles = d.roles
           /\ "bindings" \notin T => e.bindings = d.bindings
           /\ "accounts" \notin T => e.accounts = d.accounts
           /\ "apiKeys" \notin T => e.apiKeys = d.apiKeys
           /\ "variables" \notin T => e.variables = d.variables
           /\ "admins" \notin T => e.admins = d.admins
BY DEF Fixes, Table, OrgTable

\* Nothing happens.
LEMMA NothingHappens ==
    ASSUME NEW ow, NEW d, DbInv(ow, d)
    PROVE  Evolves(ow, d, d)
<1>1. d.next \in Nat /\ d.variables \subseteq Variable
  BY DatabaseTypes DEF DbInv, WellFormed
<1>2. Extends(ow, d, ow, d) /\ OrgsLater(d, d) /\ VariablesLater(d, d) /\ Refines(d, d)
  BY <1>1 DEF Extends, OrgsLater, VariablesLater, SamePlace, Refines, Stays
<1> QED
  BY <1>2 DEF Evolves, Becomes

\* The owner of the id that is drawn.
LEMMA OwnerDrawn ==
    ASSUME NEW ow, NEW d, DbInv(ow, d), NEW o \in Id, d.next \in Id
    PROVE  \E w : /\ w \in [Nat -> Nat] /\ w[d.next] = o
                  /\ \A i \in Nat : i < d.next => w[i] = ow[i]
<1>1. ow \in [Nat -> Nat] /\ o \in Nat /\ d.next \in Nat
  BY DEF DbInv, Owned, Id
<1>2. PICK w : w = [ow EXCEPT ![d.next] = o]
  OBVIOUS
<1> QED
  BY <1>1, <1>2

\* What is owned remains so.
LEMMA StillOwned ==
    ASSUME NEW ow, NEW w, NEW m \in Nat, NEW n \in Nat, m <= n,
           \A i \in Nat : i < m => w[i] = ow[i]
    PROVE  /\ \A o : \A i \in Nat : Owns(ow, o, i, m) => Owns(w, o, i, n)
           /\ \A x : x.scope \in Nat /\ ScopeOwned(ow, x, m) => ScopeOwned(w, x, n)
<1>1. \A o : \A i \in Nat : Owns(ow, o, i, m) => Owns(w, o, i, n)
  BY DEF Owns
<1> QED
  BY <1>1 DEF ScopeOwned

\* Every row's Organization is still there.
OrgsExist(d) == \A t \in OrgTable : \A x \in d[t] : x.org # 0 => Exists(d, x.org)

\* A row is inserted, with a new id.
LEMMA RowInserted ==
    ASSUME NEW ow, NEW d, NEW e, DbInv(ow, d), NEW o \in Id, Exists(d, o),
           d.next \in Id, e.next = d.next + 1,
           NEW t \in OrgTable, NEW new, new.org = o, Fixes(d, e, {t}), e[t] = d[t] \cup {new}
    PROVE  OrgsExist(e) /\ Refines(d, e) /\ (t # "archivals" => OrgsLater(d, e))
<1>1. \A u \in OrgTable : u # t => e[u] = d[u]
  BY DEF Fixes, Table
<1>2. e.orgs = d.orgs
  BY FixesAll DEF OrgTable
<1>3. OrgsExist(e)
  BY <1>1, <1>2 DEF OrgsExist, DbInv, WellFormed, ForeignKeys, Exists
<1>4. Touches(d, e, o)
  BY <1>1 DEF Touches
<1>5. Refines(d, e)
  BY <1>2, <1>4 DEF Refines, Works, Draws
<1>6. ASSUME t # "archivals" PROVE OrgsLater(d, e)
  <2>1. e.archivals = d.archivals
    BY <1>6, FixesAll
  <2> QED
    BY <1>2, <2>1 DEF OrgsLater, Exists, ArchivedIn, DueIn
<1> QED
  BY <1>3, <1>5, <1>6

\* Rows of one Organization are deleted, or written anew.
LEMMA RowsRevised ==
    ASSUME NEW ow, NEW d, NEW e, DbInv(ow, d), NEW o \in Id,
           e.orgs = d.orgs, e.next = d.next,
           \A t \in OrgTable :
              /\ \A x \in d[t] : x \notin e[t] => x.org = o
              /\ \A x \in e[t] : x \notin d[t] => x.org = o /\ \E y \in d[t] : y.org = o
    PROVE  OrgsExist(e) /\ Refines(d, e)
<1>1. o # 0
  BY AccessAssumption DEF Id
<1>2. ASSUME NEW t \in OrgTable, NEW x \in e[t], x.org # 0 PROVE Exists(e, x.org)
  BY <1>1, <1>2 DEF DbInv, WellFormed, ForeignKeys, Exists
<1>3. OrgsExist(e)
  BY <1>2 DEF OrgsExist
<1>4. CASE Exists(d, o)
  <2>1. Touches(d, e, o)
    BY DEF Touches
  <2> QED
    BY <1>3, <1>4, <2>1 DEF Refines, Works, Draws
<1>5. CASE ~Exists(d, o)
  <2>1. ASSUME NEW t \in OrgTable, NEW x \in d[t] PROVE x.org # o
    BY <1>1, <1>5, <2>1 DEF DbInv, WellFormed, ForeignKeys, Exists
  <2>2. ASSUME NEW t \in OrgTable PROVE e[t] = d[t]
    BY <2>1, <2>2
  <2> QED
    BY <1>3, <2>2 DEF Refines, Stays
<1> QED
  BY <1>4, <1>5

\* Owned looks at the rows that are new only.
LEMMA OwnedKept ==
    ASSUME NEW ow, NEW d, NEW w, NEW e, DbInv(ow, d), d \in Database, e \in Database,
           w \in [Nat -> Nat], Extends(ow, d, w, e),
           \A x \in e.orgs : x \in d.orgs \/ x.id < e.next,
           \A x \in e.accounts : x \in d.accounts \/ x.id \notin User,
           \A x \in e.projects : x \in d.projects \/ Owns(w, x.org, x.id, e.next),
           \A x \in e.environments : \/ x \in d.environments
                                     \/ /\ Owns(w, x.org, x.id, e.next)
                                        /\ Owns(w, x.org, x.project, e.next),
           \A x \in e.workspaces : \/ x \in d.workspaces
                                   \/ /\ Owns(w, x.org, x.id, e.next)
                                      /\ Owns(w, x.org, x.project, e.next),
           \A x \in e.roles : x \in d.roles \/ Owns(w, x.org, x.id, e.next),
           \A x \in e.bindings : x \in d.bindings \/ ScopeOwned(w, x, e.next),
           \A x \in e.variables : \/ x \in d.variables
                                  \/ ScopeOwned(w, x, e.next) /\ x.id < e.next,
           \A x, y \in e.variables : x.id = y.id => x = y
    PROVE  Owned(w, e)
<1>1. d.next \in Nat /\ e.next \in Nat /\ d.next <= e.next
  BY DatabaseTypes DEF Extends
<1>2. /\ \A o : \A i \in Nat : Owns(ow, o, i, d.next) => Owns(w, o, i, e.next)
      /\ \A x : x.scope \in Nat /\ ScopeOwned(ow, x, d.next) => ScopeOwned(w, x, e.next)
  BY <1>1, StillOwned DEF Extends
<1>3. Id \subseteq Nat /\ User \subseteq Nat
  BY AccessAssumption DEF Id
<1>4. \A u \in User : u < e.next
  BY <1>1, <1>3 DEF DbInv, Owned
<1>5. \A x \in e.orgs : x.id < e.next
  <2>1. ASSUME NEW x \in d.orgs PROVE x.id \in Nat /\ x.id < d.next
    BY <1>3, DatabaseTypes DEF DbInv, Owned, Organizations
  <2> QED
    BY <1>1, <2>1
<1>6. \A x \in e.accounts : x.id \notin User
  BY DEF DbInv, Owned
<1>7. \A x \in e.projects : Owns(w, x.org, x.id, e.next)
  BY <1>2, <1>3, DatabaseTypes DEF DbInv, Owned, Project
<1>8. ASSUME NEW x \in d.environments \cup d.workspaces
      PROVE  Owns(w, x.org, x.id, e.next) /\ Owns(w, x.org, x.project, e.next)
  <2>1. x.id \in Nat /\ x.project \in Nat
    BY <1>3, DatabaseTypes DEF Environment, Workspace
  <2>2. Owns(ow, x.org, x.id, d.next) /\ Owns(ow, x.org, x.project, d.next)
    BY DEF DbInv, Owned
  <2> QED
    BY <1>2, <2>1, <2>2
<1>9. \A x \in e.roles : Owns(w, x.org, x.id, e.next)
  BY <1>2, <1>3, DatabaseTypes DEF DbInv, Owned, Role
<1>10. \A x \in e.bindings : ScopeOwned(w, x, e.next)
  BY <1>2, <1>3, DatabaseTypes DEF DbInv, Owned, RoleBinding
<1>11. ASSUME NEW x \in d.variables PROVE ScopeOwned(w, x, e.next) /\ x.id < e.next
  <2>1. x.id \in Nat /\ x.scope \in Nat
    BY <1>3, DatabaseTypes DEF Variable
  <2>2. ScopeOwned(ow, x, d.next) /\ x.id < d.next
    BY DEF DbInv, Owned
  <2> QED
    BY <1>1, <1>2, <2>1, <2>2
<1> QED
  BY <1>4, <1>5, <1>6, <1>7, <1>8, <1>9, <1>10, <1>11 DEF Owned

\* The variables are as they were.
LEMMA VariablesKept ==
    ASSUME NEW ow, NEW d, NEW e, DbInv(ow, d), e.variables \subseteq d.variables
    PROVE  VariablesLater(d, e) /\ \A x, y \in e.variables : x.id = y.id => x = y
BY DEF VariablesLater, SamePlace, DbInv, Owned

\* What a new row of a table needs.
Insertable(ow, d, t, x) ==
    /\ x.id = d.next
    /\ t = "teams" => \A u \in d.teams : ~(u.org = x.org /\ u.name = x.name)
    /\ t \in {"environments", "workspaces"} =>
          RowExists(d.projects, x.org, x.project)
    /\ t = "bindings" => /\ \E r \in d.roles : r.id = x.role
                         /\ \A r \in d.roles : r.id = x.role => r.org \in {0, x.org}
                         /\ \A c \in d.bindings : ~SameBinding(x, c)
                         /\ ScopeOwned(ow, x, d.next)
    /\ t = "variables" => /\ \A v \in d.variables :
                                ~(v.scopeType = x.scopeType /\ v.scope = x.scope /\ v.key = x.key)
                          /\ ScopeOwned(ow, x, d.next)

\* An INSERT with a new id.
LEMMA RowInserts ==
    ASSUME NEW ow, NEW d, NEW e, DbInv(ow, d), NEW o \in Id, Exists(d, o), d.next \in Id,
           e \in Database, e.next = d.next + 1,
           NEW t \in OrgTable \ {"archivals", "members", "teamMembers"},
           NEW new, new.org = o, Fixes(d, e, {t}), e[t] = d[t] \cup {new},
           Insertable(ow, d, t, new)
    PROVE  Evolves(ow, d, e)
<1>1. d \in Database /\ d.next \in Nat
  BY DatabaseTypes DEF DbInv, WellFormed
<1>2. OrgsExist(e) /\ Refines(d, e) /\ OrgsLater(d, e)
  BY RowInserted
<1>3. PICK w : /\ w \in [Nat -> Nat] /\ w[d.next] = o
               /\ \A i \in Nat : i < d.next => w[i] = ow[i]
  BY OwnerDrawn
<1>4. Extends(ow, d, w, e)
  BY <1>1, <1>3 DEF Extends
<1>5. /\ e.orgs = d.orgs /\ e.archivals = d.archivals /\ e.teamMembers = d.teamMembers
      /\ t # "teams" => e.teams = d.teams
      /\ t # "projects" => e.projects = d.projects
      /\ t # "environments" => e.environments = d.environments
      /\ t # "workspaces" => e.workspaces = d.workspaces
      /\ t # "roles" => e.roles = d.roles
      /\ t # "bindings" => e.bindings = d.bindings
      /\ t # "accounts" => e.accounts = d.accounts
      /\ t # "variables" => e.variables = d.variables
  BY FixesAll DEF OrgTable
<1>6. /\ t = "teams" => e.teams = d.teams \cup {new}
      /\ t = "projects" => e.projects = d.projects \cup {new}
      /\ t = "environments" => e.environments = d.environments \cup {new}
      /\ t = "workspaces" => e.workspaces = d.workspaces \cup {new}
      /\ t = "roles" => e.roles = d.roles \cup {new}
      /\ t = "bindings" => e.bindings = d.bindings \cup {new}
      /\ t = "accounts" => e.accounts = d.accounts \cup {new}
      /\ t = "variables" => e.variables = d.variables \cup {new}
  OBVIOUS
<1>7. new.id = d.next /\ Owns(w, o, new.id, e.next) /\ new.id \notin User
  BY <1>1, <1>3, AccessAssumption DEF Owns, Insertable, DbInv, Owned, Id
<1>8. /\ \A p : \A i \in Nat : Owns(ow, p, i, d.next) => Owns(w, p, i, e.next)
      /\ \A x : x.scope \in Nat /\ ScopeOwned(ow, x, d.next) => ScopeOwned(w, x, e.next)
  <2>1. e.next \in Nat /\ d.next <= e.next
    BY <1>1
  <2> QED
    BY <1>1, <1>3, <2>1, StillOwned
<1>9. VariablesLater(d, e) /\ \A x, y \in e.variables : x.id = y.id => x = y
  <2>1. \A v \in d.variables : v.id < d.next /\ v.id \in Nat
    BY <1>1, DatabaseTypes DEF DbInv, Owned, Variable, Id
  <2>2. CASE t = "variables"
    BY <1>1, <1>6, <1>7, <2>1, <2>2 DEF VariablesLater, SamePlace, DbInv, Owned
  <2>3. CASE t # "variables"
    BY <1>5, <2>3 DEF VariablesLater, SamePlace, DbInv, Owned
  <2> QED
    BY <2>2, <2>3
<1>10. Owned(w, e)
  <2>1. ASSUME t \in {"environments", "workspaces"} PROVE Owns(w, o, new.project, e.next)
    <3>1. PICK x \in d.projects : x.org = o /\ x.id = new.project
      BY <2>1 DEF Insertable, RowExists
    <3>2. Owns(ow, o, new.project, d.next) /\ new.project \in Nat
      BY <1>1, <3>1, DatabaseTypes DEF DbInv, Owned, Project, Id
    <3> QED
      BY <1>8, <3>2
  <2>2. ASSUME t = "bindings" PROVE ScopeOwned(w, new, e.next)
    <3>1. new.scope \in Nat
      BY <1>6, <2>2, DatabaseTypes DEF RoleBinding, Id
    <3> QED
      BY <1>8, <2>2, <3>1 DEF Insertable
  <2>3. ASSUME t = "variables" PROVE ScopeOwned(w, new, e.next) /\ new.id < e.next
    <3>1. new.scope \in Nat
      BY <1>6, <2>3, DatabaseTypes DEF Variable, Id
    <3> QED
      BY <1>1, <1>7, <1>8, <2>3, <3>1 DEF Insertable
  <2>4. /\ \A x \in e.projects : x \in d.projects \/ Owns(w, x.org, x.id, e.next)
        /\ \A x \in e.roles : x \in d.roles \/ Owns(w, x.org, x.id, e.next)
        /\ \A x \in e.accounts : x \in d.accounts \/ x.id \notin User
    BY <1>5, <1>6, <1>7
  <2>5. /\ \A x \in e.environments : \/ x \in d.environments
                                     \/ /\ Owns(w, x.org, x.id, e.next)
                                        /\ Owns(w, x.org, x.project, e.next)
        /\ \A x \in e.workspaces : \/ x \in d.workspaces
                                   \/ /\ Owns(w, x.org, x.id, e.next)
                                      /\ Owns(w, x.org, x.project, e.next)
    BY <1>5, <1>6, <1>7, <2>1
  <2>6. /\ \A x \in e.bindings : x \in d.bindings \/ ScopeOwned(w, x, e.next)
        /\ \A x \in e.variables : \/ x \in d.variables
                                  \/ ScopeOwned(w, x, e.next) /\ x.id < e.next
    BY <1>5, <1>6, <2>2, <2>3
  <2> QED
    BY <1>1, <1>3, <1>4, <1>5, <1>9, <2>4, <2>5, <2>6, OwnedKept
<1>11. ForeignKeys(e)
  <2>1. \A b \in e.bindings : \E r \in e.roles : r.id = b.role
    BY <1>5, <1>6 DEF Insertable, DbInv, WellFormed, ForeignKeys
  <2>2. \A x \in e.teamMembers : RowExists(e.teams, x.org, x.team)
    BY <1>5, <1>6 DEF DbInv, WellFormed, ForeignKeys, RowExists
  <2>3. d.projects \subseteq e.projects
    BY <1>5, <1>6
  <2>4. \A x \in e.environments \cup e.workspaces : RowExists(d.projects, x.org, x.project)
    BY <1>5, <1>6 DEF Insertable, DbInv, WellFormed, ForeignKeys
  <2>5. \A x \in e.environments \cup e.workspaces : RowExists(e.projects, x.org, x.project)
    BY <2>3, <2>4 DEF RowExists
  <2> QED
    BY <1>2, <2>1, <2>2, <2>5 DEF ForeignKeys, OrgsExist, Exists
<1>12. UniqueKeys(e)
  <2>1. \A x, u \in e.teams : x.org = u.org /\ x.name = u.name => x = u
    BY <1>5, <1>6 DEF Insertable, DbInv, WellFormed, UniqueKeys
  <2>2. \A b, c \in e.bindings : SameBinding(b, c) => b = c
    BY <1>5, <1>6 DEF Insertable, DbInv, WellFormed, UniqueKeys, SameBinding
  <2>3. \A v, x \in e.variables :
          v.scopeType = x.scopeType /\ v.scope = x.scope /\ v.key = x.key => v = x
    BY <1>5, <1>6 DEF Insertable, DbInv, WellFormed, UniqueKeys
  <2> QED
    BY <2>1, <2>2, <2>3 DEF UniqueKeys
<1>13. WellFormed(e)
  <2>1. BuiltinRoles \subseteq e.roles /\ \A r \in e.roles : r.org = 0 => r \in BuiltinRoles
    BY <1>5, <1>6, <1>1 DEF DbInv, WellFormed, Id
  <2>2. \A b \in e.bindings : \A r \in e.roles : r.id = b.role => r.org \in {0, b.org}
    <3>1. CASE t = "roles"
      <4>1. \A r \in d.roles : r.id < d.next /\ r.id \in Nat
        BY <1>1, DatabaseTypes DEF DbInv, Owned, Owns, Role, Id
      <4>2. \A b \in d.bindings : b.role # d.next
        BY <1>1, <4>1 DEF DbInv, WellFormed, ForeignKeys
      <4> QED
        BY <1>5, <1>6, <1>7, <3>1, <4>2 DEF DbInv, WellFormed
    <3>2. CASE t # "roles"
      BY <1>5, <1>6, <3>2 DEF Insertable, DbInv, WellFormed
    <3> QED
      BY <3>1, <3>2
  <2> QED
    BY <1>5, <1>11, <1>12, <2>1, <2>2 DEF DbInv, WellFormed
<1> QED
  BY <1>2, <1>4, <1>9, <1>10, <1>13 DEF Evolves, Becomes, DbInv

\* The built-in roles belong to no Organization.
LEMMA BuiltinOfNone == \A r \in BuiltinRoles : r.org = 0 /\ r.id \in {1, 2, 3, 4}
BY DEF BuiltinRoles, RoleOwner, RoleAdmin, RoleWrite, RoleRead

\* Rows of one Organization are deleted, with what refers to them.
LEMMA RowsDeleted ==
    ASSUME NEW ow, NEW d, NEW e, DbInv(ow, d), NEW o \in Id, e \in Database,
           Fixes(d, e, {"members", "teams", "teamMembers", "projects", "environments",
                        "workspaces", "bindings", "variables"}), e.next = d.next,
           \A t \in OrgTable : e[t] \subseteq d[t] /\ \A x \in d[t] : x \notin e[t] => x.org = o,
           \A x \in e.teamMembers : RowExists(e.teams, x.org, x.team),
           \A x \in e.environments \cup e.workspaces : RowExists(e.projects, x.org, x.project)
    PROVE  Evolves(ow, d, e)
<1>1. d \in Database /\ d.next \in Nat
  BY DatabaseTypes DEF DbInv, WellFormed
<1>2. /\ e.orgs = d.orgs /\ e.archivals = d.archivals /\ e.roles = d.roles
      /\ e.accounts = d.accounts
  BY FixesAll
<1>3. /\ e.teams \subseteq d.teams /\ e.projects \subseteq d.projects
      /\ e.environments \subseteq d.environments /\ e.workspaces \subseteq d.workspaces
      /\ e.bindings \subseteq d.bindings /\ e.variables \subseteq d.variables
  BY DEF OrgTable
<1>4. OrgsExist(e) /\ Refines(d, e)
  BY <1>2, RowsRevised
<1>5. Extends(ow, d, ow, e) /\ OrgsLater(d, e)
  BY <1>1, <1>2 DEF Extends, OrgsLater, Exists, ArchivedIn, DueIn
<1>6. VariablesLater(d, e) /\ \A x, y \in e.variables : x.id = y.id => x = y
  BY <1>3, VariablesKept
<1>7. Owned(ow, e)
  BY <1>1, <1>2, <1>3, <1>5, <1>6, OwnedKept DEF DbInv, Owned
<1>8. ForeignKeys(e)
  BY <1>2, <1>3, <1>4 DEF ForeignKeys, OrgsExist, Exists, DbInv, WellFormed
<1>9. UniqueKeys(e)
  BY <1>3 DEF UniqueKeys, DbInv, WellFormed
<1>10. WellFormed(e)
  BY <1>2, <1>3, <1>8, <1>9 DEF DbInv, WellFormed
<1> QED
  BY <1>4, <1>5, <1>6, <1>7, <1>10 DEF Evolves, Becomes, DbInv

\* Rows of one Organization get other values in columns that no other row and
\* no key depends on.
LEMMA RowsUpdated ==
    ASSUME NEW ow, NEW d, NEW e, DbInv(ow, d), NEW o \in Id, e \in Database, e.next = d.next,
           NEW t \in {"archivals", "members", "teams", "roles", "apiKeys", "variables"},
           Fixes(d, e, {t}),
           \A x \in e[t] : \/ x \in d[t]
                           \/ x.org = o /\ \E y \in d[t] : y.org = o
                                             /\ (t # "archivals" /\ t # "members" => y.id = x.id)
                                             /\ (t = "variables" => SamePlace(y, x)),
           \A y \in d[t] : \/ y \in e[t]
                           \/ y.org = o /\ \E x \in e[t] : x.org = o
                                             /\ (t # "archivals" /\ t # "members" => y.id = x.id)
                                             /\ (t = "archivals" /\ y.due => x.due),
           t = "teams" => \A x, y \in e.teams : x.org = y.org /\ x.name = y.name => x = y,
           t = "variables" => \A x, y \in e.variables : x.id = y.id => x = y
    PROVE  Evolves(ow, d, e)
<1>1. d \in Database /\ d.next \in Nat
  BY DatabaseTypes DEF DbInv, WellFormed
<1>2. t \in OrgTable /\ \A u \in OrgTable : u # t => e[u] = d[u]
  BY DEF Fixes, Table, OrgTable
<1>3. /\ e.orgs = d.orgs /\ e.teamMembers = d.teamMembers /\ e.projects = d.projects
      /\ e.environments = d.environments /\ e.workspaces = d.workspaces
      /\ e.bindings = d.bindings /\ e.accounts = d.accounts
      /\ t # "archivals" => e.archivals = d.archivals
      /\ t # "teams" => e.teams = d.teams
      /\ t # "roles" => e.roles = d.roles
      /\ t # "variables" => e.variables = d.variables
  BY FixesAll
<1>4. OrgsExist(e) /\ Refines(d, e)
  <2>1. ASSUME NEW u \in OrgTable
        PROVE  /\ \A x \in d[u] : x \notin e[u] => x.org = o
               /\ \A x \in e[u] : x \notin d[u] => x.org = o /\ \E y \in d[u] : y.org = o
    BY <1>2
  <2> QED
    BY <1>3, <2>1, RowsRevised
<1>5. Extends(ow, d, ow, e)
  BY <1>1 DEF Extends
<1>6. OrgsLater(d, e)
  <2>1. CASE t = "archivals"
    <3>1. ASSUME NEW i \in Id, DueIn(d, i) PROVE DueIn(e, i)
      <4>1. PICK y : y = [org |-> i, due |-> TRUE]
        OBVIOUS
      <4>2. y \in e.archivals \/ (y.org = o /\ \E x \in e.archivals : x.org = o /\ x.due)
        BY <2>1, <3>1, <4>1 DEF DueIn
      <4>3. ASSUME NEW x \in e.archivals, x.org = i, x.due PROVE x = y
        BY <4>1, <4>3, DatabaseTypes DEF ArchivalEvent
      <4> QED
        BY <4>1, <4>2, <4>3 DEF DueIn
    <3> QED
      BY <1>3, <3>1 DEF OrgsLater, Exists, ArchivedIn
  <2>2. CASE t # "archivals"
    BY <1>3, <2>2 DEF OrgsLater, Exists, ArchivedIn, DueIn
  <2> QED
    BY <2>1, <2>2
<1>7. VariablesLater(d, e) /\ \A x, y \in e.variables : x.id = y.id => x = y
  <2>1. CASE t = "variables"
    BY <2>1 DEF VariablesLater, SamePlace
  <2>2. CASE t # "variables"
    BY <1>3, <2>2 DEF VariablesLater, SamePlace, DbInv, Owned
  <2> QED
    BY <2>1, <2>2
<1>8. Owned(ow, e)
  <2>1. \A x \in e.roles : x \in d.roles \/ Owns(ow, x.org, x.id, e.next)
    BY <1>3 DEF DbInv, Owned, Owns
  <2>2. \A x \in e.variables : \/ x \in d.variables
                               \/ ScopeOwned(ow, x, e.next) /\ x.id < e.next
    <3>1. ASSUME NEW x \in e.variables, t = "variables", x \notin d.variables
          PROVE  ScopeOwned(ow, x, e.next) /\ x.id < e.next
      <4>1. PICK y \in d.variables : y.org = x.org /\ SamePlace(y, x)
        BY <3>1
      <4>2. ScopeOwned(ow, y, d.next) /\ y.id < d.next
        BY DEF DbInv, Owned
      <4> QED
        BY <4>1, <4>2 DEF SamePlace, ScopeOwned
    <3> QED
      BY <1>3, <3>1
  <2> QED
    BY <1>1, <1>3, <1>5, <1>7, <2>1, <2>2, OwnedKept DEF DbInv, Owned
<1>9. o # 0
  BY AccessAssumption DEF Id
<1>10. ForeignKeys(e)
  <2>1. \A b \in e.bindings : \E r \in e.roles : r.id = b.role
    BY <1>3 DEF DbInv, WellFormed, ForeignKeys
  <2>2. \A x \in e.teamMembers : RowExists(e.teams, x.org, x.team)
    BY <1>3 DEF DbInv, WellFormed, ForeignKeys, RowExists
  <2> QED
    BY <1>3, <1>4, <2>1, <2>2 DEF DbInv, WellFormed, ForeignKeys, OrgsExist, Exists
<1>11. UniqueKeys(e)
  <2>1. \A x, u \in e.teams : x.org = u.org /\ x.name = u.name => x = u
    BY <1>3 DEF DbInv, WellFormed, UniqueKeys
  <2>2. \A b, c \in e.bindings : SameBinding(b, c) => b = c
    BY <1>3 DEF DbInv, WellFormed, UniqueKeys
  <2>3. ASSUME NEW v \in e.variables, NEW x \in e.variables,
               v.scopeType = x.scopeType /\ v.scope = x.scope /\ v.key = x.key
        PROVE  v = x
    <3>1. \E y \in d.variables : SamePlace(y, v)
      BY <1>3 DEF SamePlace
    <3>2. \E y \in d.variables : SamePlace(y, x)
      BY <1>3 DEF SamePlace
    <3>3. v.id = x.id
      BY <2>3, <3>1, <3>2 DEF SamePlace, DbInv, WellFormed, UniqueKeys
    <3> QED
      BY <1>7, <3>3
  <2> QED
    BY <2>1, <2>2, <2>3 DEF UniqueKeys
<1>12. WellFormed(e)
  <2>1. BuiltinRoles \subseteq e.roles
    BY <1>3, <1>9, BuiltinOfNone DEF DbInv, WellFormed
  <2>2. \A r \in e.roles : r.org = 0 => r \in BuiltinRoles
    BY <1>3, <1>9 DEF DbInv, WellFormed
  <2>3. \A b \in e.bindings : \A r \in e.roles : r.id = b.role => r.org \in {0, b.org}
    BY <1>3 DEF DbInv, WellFormed
  <2>4. ASSUME NEW x \in e.archivals PROVE [id |-> x.org, archived |-> TRUE] \in e.orgs
    <3>1. \E y \in d.archivals : y.org = x.org
      BY <1>3
    <3> QED
      BY <1>3, <3>1 DEF DbInv, WellFormed
  <2> QED
    BY <1>10, <1>11, <2>1, <2>2, <2>3, <2>4 DEF WellFormed
<1> QED
  BY <1>4, <1>5, <1>6, <1>7, <1>8, <1>12 DEF Evolves, Becomes, DbInv

-----------------------------------------------------------------------------
(* Transactions that insert.                                                *)

LEMMA InsertRoleStep ==
    ASSUME NEW ow, DbInv(ow, db), NEW o \in Id, NEW p \in SUBSET Permission,
           InsertRole(o, p)
    PROVE  Evolves(ow, db, db')
<1>1. PICK d, e : d = db /\ e = db' /\ DbInv(ow, d)
  OBVIOUS
<1>2. PICK new : new = [id |-> d.next, org |-> o, permissions |-> p]
  OBVIOUS
<1>3. \/ e = d
      \/ /\ d.next \in Id /\ Exists(d, o)
         /\ e = [[d EXCEPT !.roles = @ \cup {new}] EXCEPT !.next = @ + 1]
  BY <1>1, <1>2 DEF InsertRole, Insert, OrgExists, Exists
<1>4. CASE /\ d.next \in Id /\ Exists(d, o)
           /\ e = [[d EXCEPT !.roles = @ \cup {new}] EXCEPT !.next = @ + 1]
  <2>1. /\ d \in Database /\ d.next + 1 \in Nat /\ d.roles \cup {new} \in SUBSET Role
        /\ new.org = o /\ new.id = d.next
    BY <1>1, <1>2, <1>4, DatabaseTypes DEF DbInv, WellFormed, Role
  <2>2. PICK R, n : R = d.roles \cup {new} /\ n = d.next + 1
    OBVIOUS
  <2>3. e = [[d EXCEPT !.roles = R] EXCEPT !.next = n]
    BY <1>4, <2>1, <2>2 DEF Database
  <2>4. e \in Database /\ e.next = n /\ e["roles"] = R /\ Fixes(d, e, {"roles"})
    BY <2>1, <2>2, <2>3 DEF Database, Fixes, Table, OrgTable
  <2>6. Insertable(ow, d, "roles", new)
    BY <2>1 DEF Insertable
  <2> QED
    BY <1>1, <1>4, <2>1, <2>2, <2>4, <2>6, RowInserts DEF OrgTable
<1> QED
  BY <1>1, <1>3, <1>4, NothingHappens

LEMMA InsertServiceAccountStep ==
    ASSUME NEW ow, DbInv(ow, db), NEW o \in Id,
           InsertServiceAccount(o)
    PROVE  Evolves(ow, db, db')
<1>1. PICK d, e : d = db /\ e = db' /\ DbInv(ow, d)
  OBVIOUS
<1>2. PICK new : new = [org |-> o, id |-> d.next]
  OBVIOUS
<1>3. \/ e = d
      \/ /\ d.next \in Id /\ Exists(d, o)
         /\ e = [[d EXCEPT !.accounts = @ \cup {new}] EXCEPT !.next = @ + 1]
  BY <1>1, <1>2 DEF InsertServiceAccount, Insert, OrgExists, Exists
<1>4. CASE /\ d.next \in Id /\ Exists(d, o)
           /\ e = [[d EXCEPT !.accounts = @ \cup {new}] EXCEPT !.next = @ + 1]
  <2>1. /\ d \in Database /\ d.next + 1 \in Nat /\ d.accounts \cup {new} \in SUBSET ServiceAccount
        /\ new.org = o /\ new.id = d.next
    BY <1>1, <1>2, <1>4, DatabaseTypes DEF DbInv, WellFormed, ServiceAccount
  <2>2. PICK R, n : R = d.accounts \cup {new} /\ n = d.next + 1
    OBVIOUS
  <2>3. e = [[d EXCEPT !.accounts = R] EXCEPT !.next = n]
    BY <1>4, <2>1, <2>2 DEF Database
  <2>4. e \in Database /\ e.next = n /\ e["accounts"] = R /\ Fixes(d, e, {"accounts"})
    BY <2>1, <2>2, <2>3 DEF Database, Fixes, Table, OrgTable
  <2>6. Insertable(ow, d, "accounts", new)
    BY <2>1 DEF Insertable
  <2> QED
    BY <1>1, <1>4, <2>1, <2>2, <2>4, <2>6, RowInserts DEF OrgTable
<1> QED
  BY <1>1, <1>3, <1>4, NothingHappens

LEMMA InsertAPIKeyStep ==
    ASSUME NEW ow, DbInv(ow, db), NEW o \in Id, NEW a \in Id, NEW s \in SUBSET Permission,
           InsertAPIKey(o, a, s)
    PROVE  Evolves(ow, db, db')
<1>1. PICK d, e : d = db /\ e = db' /\ DbInv(ow, d)
  OBVIOUS
<1>2. PICK new : new = [org |-> o, id |-> d.next, owner |-> a, scopes |-> s, revoked |-> FALSE]
  OBVIOUS
<1>3. \/ e = d
      \/ /\ d.next \in Id /\ Exists(d, o)
         /\ e = [[d EXCEPT !.apiKeys = @ \cup {new}] EXCEPT !.next = @ + 1]
  BY <1>1, <1>2 DEF InsertAPIKey, Insert, OrgExists, Exists
<1>4. CASE /\ d.next \in Id /\ Exists(d, o)
           /\ e = [[d EXCEPT !.apiKeys = @ \cup {new}] EXCEPT !.next = @ + 1]
  <2>0. new \in APIKey /\ new.org = o /\ new.id = d.next
    BY <1>2, <1>4, Zenon DEF APIKey
  <2>1. /\ d \in Database /\ d.next + 1 \in Nat /\ d.apiKeys \cup {new} \in SUBSET APIKey
        /\ new.org = o /\ new.id = d.next
    BY <1>1, <2>0, DatabaseTypes DEF DbInv, WellFormed
  <2>2. PICK R, n : R = d.apiKeys \cup {new} /\ n = d.next + 1
    OBVIOUS
  <2>3. e = [[d EXCEPT !.apiKeys = R] EXCEPT !.next = n]
    BY <1>4, <2>1, <2>2 DEF Database
  <2>4. e \in Database /\ e.next = n /\ e["apiKeys"] = R /\ Fixes(d, e, {"apiKeys"})
    BY <2>1, <2>2, <2>3 DEF Database, Fixes, Table, OrgTable
  <2>6. Insertable(ow, d, "apiKeys", new)
    BY <2>1 DEF Insertable
  <2> QED
    BY <1>1, <1>4, <2>1, <2>2, <2>4, <2>6, RowInserts DEF OrgTable
<1> QED
  BY <1>1, <1>3, <1>4, NothingHappens

LEMMA InsertTeamStep ==
    ASSUME NEW ow, DbInv(ow, db), NEW o \in Id, NEW m \in Name,
           InsertTeam(o, m)
    PROVE  Evolves(ow, db, db')
<1>1. PICK d, e : d = db /\ e = db' /\ DbInv(ow, d)
  OBVIOUS
<1>2. PICK new : new = [org |-> o, id |-> d.next, name |-> m]
  OBVIOUS
<1>3. \/ e = d
      \/ /\ d.next \in Id /\ Exists(d, o) /\ (\A t \in d.teams : ~(t.org = o /\ t.id # 0 /\ t.name = m))
         /\ e = [[d EXCEPT !.teams = @ \cup {new}] EXCEPT !.next = @ + 1]
  BY <1>1, <1>2 DEF InsertTeam, Insert, OrgExists, Exists, NameTaken
<1>4. CASE /\ d.next \in Id /\ Exists(d, o) /\ (\A t \in d.teams : ~(t.org = o /\ t.id # 0 /\ t.name = m))
           /\ e = [[d EXCEPT !.teams = @ \cup {new}] EXCEPT !.next = @ + 1]
  <2>1. /\ d \in Database /\ d.next + 1 \in Nat /\ d.teams \cup {new} \in SUBSET Team
        /\ new.org = o /\ new.id = d.next
    BY <1>1, <1>2, <1>4, DatabaseTypes DEF DbInv, WellFormed, Team
  <2>2. PICK R, n : R = d.teams \cup {new} /\ n = d.next + 1
    OBVIOUS
  <2>3. e = [[d EXCEPT !.teams = R] EXCEPT !.next = n]
    BY <1>4, <2>1, <2>2 DEF Database
  <2>4. e \in Database /\ e.next = n /\ e["teams"] = R /\ Fixes(d, e, {"teams"})
    BY <2>1, <2>2, <2>3 DEF Database, Fixes, Table, OrgTable
  <2>6. Insertable(ow, d, "teams", new)
    BY <1>1, <1>2, <1>4, <2>1, DatabaseTypes, AccessAssumption DEF Insertable, Team, Id
  <2> QED
    BY <1>1, <1>4, <2>1, <2>2, <2>4, <2>6, RowInserts DEF OrgTable
<1> QED
  BY <1>1, <1>3, <1>4, NothingHappens

LEMMA InsertProjectStep ==
    ASSUME NEW ow, DbInv(ow, db), NEW o \in Id,
           InsertProject(o)
    PROVE  Evolves(ow, db, db')
<1>1. PICK d, e : d = db /\ e = db' /\ DbInv(ow, d)
  OBVIOUS
<1>2. PICK new : new = [org |-> o, id |-> d.next]
  OBVIOUS
<1>3. \/ e = d
      \/ /\ d.next \in Id /\ Exists(d, o)
         /\ e = [[d EXCEPT !.projects = @ \cup {new}] EXCEPT !.next = @ + 1]
  BY <1>1, <1>2 DEF InsertProject, Insert, OrgExists, Exists
<1>4. CASE /\ d.next \in Id /\ Exists(d, o)
           /\ e = [[d EXCEPT !.projects = @ \cup {new}] EXCEPT !.next = @ + 1]
  <2>1. /\ d \in Database /\ d.next + 1 \in Nat /\ d.projects \cup {new} \in SUBSET Project
        /\ new.org = o /\ new.id = d.next
    BY <1>1, <1>2, <1>4, DatabaseTypes DEF DbInv, WellFormed, Project
  <2>2. PICK R, n : R = d.projects \cup {new} /\ n = d.next + 1
    OBVIOUS
  <2>3. e = [[d EXCEPT !.projects = R] EXCEPT !.next = n]
    BY <1>4, <2>1, <2>2 DEF Database
  <2>4. e \in Database /\ e.next = n /\ e["projects"] = R /\ Fixes(d, e, {"projects"})
    BY <2>1, <2>2, <2>3 DEF Database, Fixes, Table, OrgTable
  <2>6. Insertable(ow, d, "projects", new)
    BY <2>1 DEF Insertable
  <2> QED
    BY <1>1, <1>4, <2>1, <2>2, <2>4, <2>6, RowInserts DEF OrgTable
<1> QED
  BY <1>1, <1>3, <1>4, NothingHappens

LEMMA InsertEnvironmentStep ==
    ASSUME NEW ow, DbInv(ow, db), NEW o \in Id, NEW p \in Id,
           InsertEnvironment(o, p)
    PROVE  Evolves(ow, db, db')
<1>1. PICK d, e : d = db /\ e = db' /\ DbInv(ow, d)
  OBVIOUS
<1>2. PICK new : new = [org |-> o, project |-> p, id |-> d.next]
  OBVIOUS
<1>3. \/ e = d
      \/ /\ d.next \in Id /\ RowExists(d.projects, o, p)
         /\ e = [[d EXCEPT !.environments = @ \cup {new}] EXCEPT !.next = @ + 1]
  BY <1>1, <1>2 DEF InsertEnvironment, Insert, RowExists
<1>4. CASE /\ d.next \in Id /\ RowExists(d.projects, o, p)
           /\ e = [[d EXCEPT !.environments = @ \cup {new}] EXCEPT !.next = @ + 1]
  <2>1. /\ d \in Database /\ d.next + 1 \in Nat /\ d.environments \cup {new} \in SUBSET Environment
        /\ new.org = o /\ new.id = d.next
    BY <1>1, <1>2, <1>4, DatabaseTypes DEF DbInv, WellFormed, Environment
  <2>2. PICK R, n : R = d.environments \cup {new} /\ n = d.next + 1
    OBVIOUS
  <2>3. e = [[d EXCEPT !.environments = R] EXCEPT !.next = n]
    BY <1>4, <2>1, <2>2 DEF Database
  <2>4. e \in Database /\ e.next = n /\ e["environments"] = R /\ Fixes(d, e, {"environments"})
    BY <2>1, <2>2, <2>3 DEF Database, Fixes, Table, OrgTable
  <2>5. Exists(d, o)
    <3>1. PICK x \in d.projects : x.org = o
      BY <1>4 DEF RowExists
    <3>2. x.org # 0
      BY <1>1, <2>1, DatabaseTypes, AccessAssumption DEF Project, Id
    <3>3. x \in d["projects"]
      OBVIOUS
    <3> QED
      BY <1>1, <3>1, <3>2, <3>3 DEF DbInv, WellFormed, ForeignKeys, Exists, OrgTable
  <2>6. Insertable(ow, d, "environments", new)
    BY <1>2, <1>4, <2>1 DEF Insertable
  <2> QED
    BY <1>1, <1>4, <2>1, <2>2, <2>4, <2>6, <2>5, RowInserts DEF OrgTable
<1> QED
  BY <1>1, <1>3, <1>4, NothingHappens

LEMMA InsertWorkspaceStep ==
    ASSUME NEW ow, DbInv(ow, db), NEW o \in Id, NEW p \in Id, NEW v \in Id \cup {0},
           InsertWorkspace(o, p, v)
    PROVE  Evolves(ow, db, db')
<1>1. PICK d, e : d = db /\ e = db' /\ DbInv(ow, d)
  OBVIOUS
<1>2. PICK new : new = [org |-> o, project |-> p, id |-> d.next, environment |-> v]
  OBVIOUS
<1>3. \/ e = d
      \/ /\ d.next \in Id /\ RowExists(d.projects, o, p)
         /\ e = [[d EXCEPT !.workspaces = @ \cup {new}] EXCEPT !.next = @ + 1]
  BY <1>1, <1>2 DEF InsertWorkspace, Insert, RowExists
<1>4. CASE /\ d.next \in Id /\ RowExists(d.projects, o, p)
           /\ e = [[d EXCEPT !.workspaces = @ \cup {new}] EXCEPT !.next = @ + 1]
  <2>1. /\ d \in Database /\ d.next + 1 \in Nat /\ d.workspaces \cup {new} \in SUBSET Workspace
        /\ new.org = o /\ new.id = d.next
    BY <1>1, <1>2, <1>4, DatabaseTypes DEF DbInv, WellFormed, Workspace
  <2>2. PICK R, n : R = d.workspaces \cup {new} /\ n = d.next + 1
    OBVIOUS
  <2>3. e = [[d EXCEPT !.workspaces = R] EXCEPT !.next = n]
    BY <1>4, <2>1, <2>2 DEF Database
  <2>4. e \in Database /\ e.next = n /\ e["workspaces"] = R /\ Fixes(d, e, {"workspaces"})
    BY <2>1, <2>2, <2>3 DEF Database, Fixes, Table, OrgTable
  <2>5. Exists(d, o)
    <3>1. PICK x \in d.projects : x.org = o
      BY <1>4 DEF RowExists
    <3>2. x.org # 0
      BY <1>1, <2>1, DatabaseTypes, AccessAssumption DEF Project, Id
    <3>3. x \in d["projects"]
      OBVIOUS
    <3> QED
      BY <1>1, <3>1, <3>2, <3>3 DEF DbInv, WellFormed, ForeignKeys, Exists, OrgTable
  <2>6. Insertable(ow, d, "workspaces", new)
    BY <1>2, <1>4, <2>1 DEF Insertable
  <2> QED
    BY <1>1, <1>4, <2>1, <2>2, <2>4, <2>6, <2>5, RowInserts DEF OrgTable
<1> QED
  BY <1>1, <1>3, <1>4, NothingHappens

LEMMA InsertVariableStep ==
    ASSUME NEW ow, DbInv(ow, db), NEW o \in Id, NEW y \in VariableScope, NEW s \in Id, NEW k \in Key, NEW c \in BOOLEAN,
           ScopeOwned(ow, [scopeType |-> y, scope |-> s, org |-> o], db.next),
           InsertVariable(o, y, s, k, c)
    PROVE  Evolves(ow, db, db')
<1>1. PICK d, e : d = db /\ e = db' /\ DbInv(ow, d)
  OBVIOUS
<1>2. PICK new : new = [org |-> o, id |-> d.next, scopeType |-> y, scope |-> s, key |-> k, secret |-> c]
  OBVIOUS
<1>3. \/ e = d
      \/ /\ d.next \in Id /\ Exists(d, o) /\ At(d.variables, y, s, k) = {}
         /\ e = [[d EXCEPT !.variables = @ \cup {new}] EXCEPT !.next = @ + 1]
  BY <1>1, <1>2 DEF InsertVariable, Insert, OrgExists, Exists
<1>4. CASE /\ d.next \in Id /\ Exists(d, o) /\ At(d.variables, y, s, k) = {}
           /\ e = [[d EXCEPT !.variables = @ \cup {new}] EXCEPT !.next = @ + 1]
  <2>1. /\ d \in Database /\ d.next + 1 \in Nat /\ d.variables \cup {new} \in SUBSET Variable
        /\ new.org = o /\ new.id = d.next
    BY <1>1, <1>2, <1>4, DatabaseTypes DEF DbInv, WellFormed, Variable
  <2>2. PICK R, n : R = d.variables \cup {new} /\ n = d.next + 1
    OBVIOUS
  <2>3. e = [[d EXCEPT !.variables = R] EXCEPT !.next = n]
    BY <1>4, <2>1, <2>2 DEF Database
  <2>4. e \in Database /\ e.next = n /\ e["variables"] = R /\ Fixes(d, e, {"variables"})
    BY <2>1, <2>2, <2>3 DEF Database, Fixes, Table, OrgTable
  <2>6. Insertable(ow, d, "variables", new)
    BY <1>1, <1>2, <1>4, <2>1 DEF Insertable, At, ScopeOwned
  <2> QED
    BY <1>1, <1>4, <2>1, <2>2, <2>4, <2>6, RowInserts DEF OrgTable
<1> QED
  BY <1>1, <1>3, <1>4, NothingHappens

\* A binding as a request carries it: without its id.
NewBinding == [id : {0}, org : Id, role : Id, subjectType : SubjectType, subject : Id,
               scopeType : ScopeType, scope : Id, effect : Effect]

\* Its role is built-in, or of its Organization, and so is its scope.
BindingOwned(ow, b, n) ==
    /\ b.role < n /\ ow[b.role] \in {0, b.org}
    /\ ScopeOwned(ow, b, n)

\* A binding gets its id.
LEMMA BindingInserts ==
    ASSUME NEW ow, NEW d, NEW e, DbInv(ow, d), NEW b \in NewBinding, Exists(d, b.org),
           BindingOwned(ow, b, d.next), \E r \in d.roles : r.id = b.role,
           \A c \in d.bindings : ~SameBinding(b, c), d.next \in Id,
           e = [[d EXCEPT !.bindings = @ \cup {[b EXCEPT !.id = d.next]}] EXCEPT !.next = @ + 1]
    PROVE  Evolves(ow, d, e)
<1>1. PICK new : new = [b EXCEPT !.id = d.next]
  OBVIOUS
<1>2. /\ new.id = d.next /\ new.org = b.org /\ new.role = b.role
      /\ new.subjectType = b.subjectType /\ new.subject = b.subject
      /\ new.scopeType = b.scopeType /\ new.scope = b.scope
      /\ b.org \in Id
  BY <1>1 DEF NewBinding
<1>3. new \in RoleBinding
  BY <1>1 DEF NewBinding, RoleBinding
<1>4. d \in Database /\ d.next + 1 \in Nat /\ d.bindings \cup {new} \in SUBSET RoleBinding
  BY <1>3, DatabaseTypes DEF DbInv, WellFormed
<1>5. PICK R, n : R = d.bindings \cup {new} /\ n = d.next + 1
  OBVIOUS
<1>6. e = [[d EXCEPT !.bindings = R] EXCEPT !.next = n]
  BY <1>1, <1>4, <1>5 DEF Database
<1>7. e \in Database /\ e.next = n /\ e["bindings"] = R /\ Fixes(d, e, {"bindings"})
  BY <1>4, <1>5, <1>6 DEF Database, Fixes, Table, OrgTable
<1>8. \A r \in d.roles : r.id = new.role => r.org \in {0, new.org}
  BY <1>2 DEF BindingOwned, DbInv, Owned, Owns
<1>9. Insertable(ow, d, "bindings", new)
  BY <1>2, <1>8 DEF Insertable, BindingOwned, ScopeOwned, SameBinding
<1> QED
  BY <1>2, <1>5, <1>7, <1>9, RowInserts DEF OrgTable

LEMMA InsertBindingStep ==
    ASSUME NEW ow, DbInv(ow, db), NEW b \in NewBinding, BindingOwned(ow, b, db.next),
           InsertBinding(b)
    PROVE  Evolves(ow, db, db')
<1>1. PICK d, e : d = db /\ e = db' /\ DbInv(ow, d)
  OBVIOUS
<1>2. \/ e = d
      \/ /\ Exists(d, b.org) /\ \E r \in d.roles : r.id = b.role
         /\ \A c \in d.bindings : ~SameBinding(b, c)
         /\ d.next \in Id
         /\ e = [[d EXCEPT !.bindings = @ \cup {[b EXCEPT !.id = d.next]}] EXCEPT !.next = @ + 1]
  BY <1>1 DEF InsertBinding, Insert, Bindable, OrgExists, Exists
<1> QED
  BY <1>1, <1>2, NothingHappens, BindingInserts

\* The built-in roles have their ids, and no owner.
LEMMA BuiltinOwned ==
    ASSUME NEW ow, NEW d, DbInv(ow, d), NEW i \in {RoleOwner, RoleAdmin, RoleWrite, RoleRead}
    PROVE  /\ i \in Id /\ i < d.next /\ ow[i] = 0
           /\ \E r \in d.roles : r.id = i
<1>1. PICK r \in BuiltinRoles : r.id = i /\ r.org = 0
  BY DEF BuiltinRoles, RoleOwner, RoleAdmin, RoleWrite, RoleRead
<1>2. r \in d.roles
  BY DEF DbInv, WellFormed
<1> QED
  BY <1>1, <1>2, DatabaseTypes DEF DbInv, WellFormed, Owned, Owns, Role

LEMMA OrganizationBindingOwned ==
    ASSUME NEW ow, NEW d, DbInv(ow, d), NEW o \in Id, NEW u \in Id,
           NEW i \in {RoleOwner, RoleAdmin, RoleWrite, RoleRead}
    PROVE  /\ OrganizationBinding(o, u, i) \in NewBinding
           /\ BindingOwned(ow, OrganizationBinding(o, u, i), d.next)
<1>1. i \in Id /\ i < d.next /\ ow[i] = 0
  BY BuiltinOwned
<1> QED
  BY <1>1 DEF OrganizationBinding, NewBinding, BindingOwned, ScopeOwned, SubjectType, ScopeType,
              Effect

LEMMA AssignRoleStep ==
    ASSUME NEW ow, DbInv(ow, db), NEW o \in Id, NEW u \in Id,
           NEW i \in {RoleOwner, RoleAdmin, RoleWrite, RoleRead}, AssignRole(o, u, i)
    PROVE  Evolves(ow, db, db')
<1>1. PICK b : b = OrganizationBinding(o, u, i)
  OBVIOUS
<1>2. InsertBinding(b)
  BY <1>1 DEF AssignRole
<1>3. b \in NewBinding /\ BindingOwned(ow, b, db.next)
  <2>1. PICK d : d = db
    OBVIOUS
  <2> QED
    BY <1>1, <2>1, OrganizationBindingOwned
<1> QED
  BY <1>2, <1>3, InsertBindingStep

\* The binding that is replaced and the new one are rows of one Organization.
LEMMA ReplaceRoleStep ==
    ASSUME NEW ow, DbInv(ow, db), NEW o \in Id, NEW u \in Id,
           NEW i \in {RoleOwner, RoleAdmin, RoleWrite, RoleRead}, ReplaceRole(o, u, i)
    PROVE  Evolves(ow, db, db')
<1>1. PICK d, e : d = db /\ e = db' /\ DbInv(ow, d)
  OBVIOUS
<1>2. PICK b : b = OrganizationBinding(o, u, i)
  OBVIOUS
<1>3. PICK kept : kept = {x \in d.bindings :
                            ~(/\ x.org = o /\ x.subjectType = "user" /\ x.subject = u
                              /\ x.scopeType = "organization" /\ x.scope = o)}
  OBVIOUS
<1>4. \/ e = d
      \/ /\ d.next \in Id /\ Exists(d, o)
         /\ e = [[d EXCEPT !.bindings = kept \cup {[b EXCEPT !.id = d.next]}] EXCEPT !.next = @ + 1]
  BY <1>1, <1>2, <1>3 DEF ReplaceRole, Insert, OrgExists, Exists
<1>5. CASE /\ d.next \in Id /\ Exists(d, o)
           /\ e = [[d EXCEPT !.bindings = kept \cup {[b EXCEPT !.id = d.next]}] EXCEPT !.next = @ + 1]
  <2>1. /\ d \in Database /\ d.next \in Nat /\ kept \in SUBSET RoleBinding /\ kept \subseteq d.bindings
    BY <1>1, <1>3, DatabaseTypes DEF DbInv, WellFormed
  <2>2. PICK m : m = [d EXCEPT !.bindings = kept]
    OBVIOUS
  <2>3. m \in Database /\ m.bindings = kept /\ Fixes(d, m, {"bindings"}) /\ m.next = d.next
    BY <2>1, <2>2 DEF Database, Fixes, Table, OrgTable
  <2>4. DbInv(ow, m)
    <3>1. /\ m.orgs = d.orgs /\ m.teams = d.teams /\ m.teamMembers = d.teamMembers
          /\ m.projects = d.projects /\ m.environments = d.environments
          /\ m.workspaces = d.workspaces /\ m.roles = d.roles /\ m.variables = d.variables
          /\ m.accounts = d.accounts /\ m.archivals = d.archivals
      BY <2>3, FixesAll
    <3>2. \A t \in OrgTable : m[t] \subseteq d[t]
      BY <2>1, <2>3 DEF Fixes, Table
    <3>3. WellFormed(m)
      BY <1>1, <2>1, <2>3, <3>1, <3>2 DEF DbInv, WellFormed, ForeignKeys, UniqueKeys
    <3>4. Owned(ow, m)
      BY <1>1, <2>1, <2>3, <3>1 DEF DbInv, Owned
    <3> QED
      BY <3>3, <3>4 DEF DbInv
  <2>5. /\ b \in NewBinding /\ BindingOwned(ow, b, m.next) /\ b.org = o /\ b.role = i
        /\ b.subjectType = "user" /\ b.subject = u /\ b.scopeType = "organization" /\ b.scope = o
    BY <1>2, <2>4, OrganizationBindingOwned DEF OrganizationBinding
  <2>6. Exists(m, b.org) /\ m.orgs = d.orgs /\ m.archivals = d.archivals /\ m.variables = d.variables
    BY <1>5, <2>3, <2>5, FixesAll DEF Exists
  <2>7. \E r \in m.roles : r.id = b.role
    BY <2>4, <2>5, BuiltinOwned
  <2>8. ASSUME NEW c \in m.bindings PROVE ~SameBinding(b, c)
    <3>1. c \in d.bindings /\ (c.scopeType = "organization" => c.scope = c.org)
      BY <1>1, <2>1, <2>3 DEF DbInv, Owned, ScopeOwned
    <3> QED
      BY <1>3, <2>3, <2>5, <3>1 DEF SameBinding
  <2>9. e = [[m EXCEPT !.bindings = @ \cup {[b EXCEPT !.id = m.next]}] EXCEPT !.next = @ + 1]
    <3>1. PICK R : R = kept \cup {[b EXCEPT !.id = d.next]}
      OBVIOUS
    <3>2. R = m.bindings \cup {[b EXCEPT !.id = m.next]}
      BY <2>3, <3>1
    <3>3. [d EXCEPT !.bindings = R] = [m EXCEPT !.bindings = R]
      BY <2>1, <2>2 DEF Database
    <3> QED
      BY <1>5, <3>1, <3>2, <3>3, <2>3
  <2>10. Evolves(ow, m, e)
    BY <1>5, <2>3, <2>4, <2>5, <2>6, <2>7, <2>8, <2>9, BindingInserts
  <2>11. PICK w : Becomes(ow, m, w, e)
    BY <2>10 DEF Evolves
  <2>12. Extends(ow, d, w, e) /\ OrgsLater(d, e) /\ VariablesLater(d, e)
    BY <2>3, <2>6, <2>11 DEF Becomes, Extends, OrgsLater, VariablesLater, Exists, ArchivedIn, DueIn
  <2>13. Refines(d, e)
    <3>0. PICK new : new = [b EXCEPT !.id = d.next]
      OBVIOUS
    <3>1. new = [b EXCEPT !.id = d.next] /\ new.org = o
      BY <2>5, <3>0 DEF NewBinding
    <3>2. PICK R, n : R = kept \cup {new} /\ n = d.next + 1
      OBVIOUS
    <3>3. e = [[d EXCEPT !.bindings = R] EXCEPT !.next = n]
      BY <1>5, <2>1, <3>1, <3>2 DEF Database
    <3>4. e.next = n /\ e["bindings"] = R /\ Fixes(d, e, {"bindings"})
      BY <2>1, <3>3 DEF Database, Fixes, Table, OrgTable
    <3>5. e.orgs = d.orgs
      BY <3>4, FixesAll
    <3>6. \A x \in d["bindings"] : x \notin kept => x.org = o
      BY <1>3
    <3>7. Touches(d, e, o)
      BY <2>1, <3>1, <3>2, <3>4, <3>6 DEF Touches, Fixes, Table
    <3> QED
      BY <1>5, <3>2, <3>4, <3>5, <3>7 DEF Refines, Works, Draws
  <2> QED
    BY <1>1, <2>11, <2>12, <2>13 DEF Evolves, Becomes
<1> QED
  BY <1>1, <1>4, <1>5, NothingHappens

\* An INSERT into a table without ids.
LEMMA LinkInserts ==
    ASSUME NEW ow, NEW d, NEW e, DbInv(ow, d), NEW o \in Id, Exists(d, o), e \in Database,
           NEW t \in {"members", "teamMembers"}, e.next = d.next, NEW new, new.org = o,
           Fixes(d, e, {t}), e[t] = d[t] \cup {new},
           t = "teamMembers" => RowExists(d.teams, o, new.team)
    PROVE  Evolves(ow, d, e)
<1>1. d \in Database /\ d.next \in Nat
  BY DatabaseTypes DEF DbInv, WellFormed
<1>2. t \in OrgTable /\ \A u \in OrgTable : u # t => e[u] = d[u]
  BY DEF Fixes, Table, OrgTable
<1>3. /\ e.orgs = d.orgs /\ e.archivals = d.archivals /\ e.projects = d.projects
      /\ e.environments = d.environments /\ e.workspaces = d.workspaces
      /\ e.bindings = d.bindings /\ e.accounts = d.accounts
      /\ e.teams = d.teams /\ e.roles = d.roles /\ e.variables = d.variables
  BY FixesAll
<1>4. OrgsExist(e)
  BY <1>2, <1>3 DEF OrgsExist, DbInv, WellFormed, ForeignKeys, Exists
<1>5. Touches(d, e, o)
  BY <1>2 DEF Touches
<1>6. Refines(d, e)
  BY <1>3, <1>5 DEF Refines, Works, Draws
<1>7. Extends(ow, d, ow, e) /\ OrgsLater(d, e) /\ VariablesLater(d, e)
  BY <1>1, <1>3 DEF Extends, OrgsLater, VariablesLater, SamePlace, Exists, ArchivedIn, DueIn
<1>8. Owned(ow, e)
  BY <1>3 DEF DbInv, Owned
<1>9. \A x \in e.teamMembers : RowExists(e.teams, x.org, x.team)
  <2>1. t = "teamMembers" => e.teamMembers = d.teamMembers \cup {new}
    OBVIOUS
  <2>2. t # "teamMembers" => e.teamMembers = d.teamMembers
    BY FixesAll
  <2> QED
    BY <1>3, <2>1, <2>2 DEF DbInv, WellFormed, ForeignKeys
<1>10. ForeignKeys(e) /\ UniqueKeys(e)
  BY <1>3, <1>4, <1>9 DEF DbInv, WellFormed, ForeignKeys, UniqueKeys, OrgsExist, Exists
<1>11. WellFormed(e)
  BY <1>3, <1>10 DEF DbInv, WellFormed
<1> QED
  BY <1>6, <1>7, <1>8, <1>11 DEF Evolves, Becomes, DbInv

LEMMA InsertMembershipStep ==
    ASSUME NEW ow, DbInv(ow, db), NEW o \in Id, NEW u, InsertMembership(o, u)
    PROVE  Evolves(ow, db, db')
<1>1. PICK d, e : d = db /\ e = db' /\ DbInv(ow, d)
  OBVIOUS
<1>2. PICK new : new = [org |-> o, user |-> u, blocked |-> FALSE]
  OBVIOUS
<1>3. e = d \/ (Exists(d, o) /\ u \in User /\ e = [d EXCEPT !.members = @ \cup {new}])
  BY <1>1, <1>2 DEF InsertMembership, OrgExists, Exists
<1>4. CASE Exists(d, o) /\ u \in User /\ e = [d EXCEPT !.members = @ \cup {new}]
  <2>0. new \in OrganizationMembership /\ new.org = o
    BY <1>2, <1>4, Zenon DEF OrganizationMembership
  <2>1. d \in Database /\ d.members \cup {new} \in SUBSET OrganizationMembership
    BY <1>1, <2>0, DatabaseTypes DEF DbInv, WellFormed
  <2>2. PICK R : R = d.members \cup {new}
    OBVIOUS
  <2>3. e \in Database /\ e.next = d.next /\ e["members"] = R /\ Fixes(d, e, {"members"})
    BY <1>4, <2>1, <2>2 DEF Database, Fixes, Table, OrgTable
  <2> QED
    BY <1>1, <1>4, <2>0, <2>2, <2>3, LinkInserts
<1> QED
  BY <1>1, <1>3, <1>4, NothingHappens

LEMMA InsertTeamMemberStep ==
    ASSUME NEW ow, DbInv(ow, db), NEW o \in Id, NEW i \in Id, NEW u, InsertTeamMember(o, i, u)
    PROVE  Evolves(ow, db, db')
<1>1. PICK d, e : d = db /\ e = db' /\ DbInv(ow, d)
  OBVIOUS
<1>2. PICK new : new = [org |-> o, team |-> i, user |-> u]
  OBVIOUS
<1>3. \/ e = d
      \/ RowExists(d.teams, o, i) /\ u \in User /\ e = [d EXCEPT !.teamMembers = @ \cup {new}]
  BY <1>1, <1>2 DEF InsertTeamMember
<1>4. CASE RowExists(d.teams, o, i) /\ u \in User /\ e = [d EXCEPT !.teamMembers = @ \cup {new}]
  <2>1. /\ d \in Database /\ d.teamMembers \cup {new} \in SUBSET TeamMembership
        /\ new.org = o /\ new.team = i
    BY <1>1, <1>2, <1>4, DatabaseTypes DEF DbInv, WellFormed, TeamMembership
  <2>2. PICK R : R = d.teamMembers \cup {new}
    OBVIOUS
  <2>3. e \in Database /\ e.next = d.next /\ e["teamMembers"] = R /\ Fixes(d, e, {"teamMembers"})
    BY <1>4, <2>1, <2>2 DEF Database, Fixes, Table, OrgTable
  <2>4. Exists(d, o)
    <3>1. PICK x \in d["teams"] : x.org = o
      BY <1>4 DEF RowExists
    <3>2. o # 0
      BY AccessAssumption DEF Id
    <3> QED
      BY <1>1, <3>1, <3>2 DEF DbInv, WellFormed, ForeignKeys, Exists, OrgTable
  <2> QED
    BY <1>1, <1>4, <2>1, <2>2, <2>3, <2>4, LinkInserts
<1> QED
  BY <1>1, <1>3, <1>4, NothingHappens

LEMMA InsertOrganizationStep ==
    ASSUME NEW ow, DbInv(ow, db), InsertOrganization
    PROVE  Evolves(ow, db, db')
<1>1. PICK d, e : d = db /\ e = db' /\ DbInv(ow, d)
  OBVIOUS
<1>2. PICK new : new = [id |-> d.next, archived |-> FALSE]
  OBVIOUS
<1>3. d.next \in Id /\ e = [[d EXCEPT !.orgs = @ \cup {new}] EXCEPT !.next = @ + 1]
  BY <1>1, <1>2 DEF InsertOrganization, Insert
<1>4. new \in Organizations /\ new.id = d.next
  BY <1>2, <1>3, Zenon DEF Organizations
<1>5. /\ d \in Database /\ d.next \in Nat /\ d.next + 1 \in Nat
      /\ d.orgs \cup {new} \in SUBSET Organizations
  BY <1>1, <1>4, DatabaseTypes DEF DbInv, WellFormed
<1>6. PICK R, n : R = d.orgs \cup {new} /\ n = d.next + 1
  OBVIOUS
<1>7. e = [[d EXCEPT !.orgs = R] EXCEPT !.next = n]
  BY <1>3, <1>5, <1>6 DEF Database
<1>8. e \in Database /\ e.next = n /\ e.orgs = R /\ Fixes(d, e, {"orgs"})
  BY <1>5, <1>6, <1>7 DEF Database, Fixes, Table, OrgTable
<1>9. /\ e.archivals = d.archivals /\ e.teams = d.teams /\ e.teamMembers = d.teamMembers
      /\ e.projects = d.projects /\ e.environments = d.environments
      /\ e.workspaces = d.workspaces /\ e.bindings = d.bindings /\ e.accounts = d.accounts
      /\ e.roles = d.roles /\ e.variables = d.variables
  BY <1>8, FixesAll
<1>10. \A t \in OrgTable : e[t] = d[t]
  BY <1>8 DEF Fixes, Table, OrgTable
<1>11. Refines(d, e)
  BY <1>2, <1>3, <1>6, <1>8, <1>10 DEF Refines, Creates
<1>12. Extends(ow, d, ow, e) /\ VariablesLater(d, e)
  BY <1>5, <1>6, <1>8, <1>9 DEF Extends, VariablesLater, SamePlace
<1>13. OrgsLater(d, e)
  <2>1. ASSUME NEW o \in Id, Exists(e, o), o < d.next PROVE Exists(d, o)
    BY <1>4, <1>5, <1>6, <1>8, <2>1 DEF Exists
  <2>2. \A o : ArchivedIn(d, o) => ArchivedIn(e, o)
    BY <1>6, <1>8 DEF ArchivedIn
  <2> QED
    BY <1>9, <2>1, <2>2 DEF OrgsLater, DueIn
<1>14. Owned(ow, e)
  <2>1. \A x \in e.orgs : x \in d.orgs \/ x.id < e.next
    BY <1>4, <1>5, <1>6, <1>8
  <2>2. ow \in [Nat -> Nat] /\ \A x, y \in d.variables : x.id = y.id => x = y
    BY <1>1 DEF DbInv, Owned
  <2> QED
    BY <1>1, <1>5, <1>8, <1>9, <1>12, <2>1, <2>2, OwnedKept
<1>15. ForeignKeys(e) /\ UniqueKeys(e)
  BY <1>1, <1>6, <1>8, <1>9, <1>10 DEF DbInv, WellFormed, ForeignKeys, UniqueKeys
<1>16. WellFormed(e)
  BY <1>1, <1>6, <1>8, <1>9, <1>15 DEF DbInv, WellFormed
<1> QED
  BY <1>1, <1>11, <1>12, <1>13, <1>14, <1>16 DEF Evolves, Becomes, DbInv

-----------------------------------------------------------------------------
(* Transactions that delete.                                                *)

\* Rows of a table that nothing refers to.
LEMMA RowsGo ==
    ASSUME NEW ow, NEW d, NEW e, DbInv(ow, d), NEW o \in Id, NEW R,
           NEW t \in {"members", "teamMembers", "bindings", "variables"},
           R \subseteq d[t], \A x \in d[t] : x \notin R => x.org = o,
           e = [d EXCEPT ![t] = R]
    PROVE  Evolves(ow, d, e)
<1>1. d \in Database
  BY DEF DbInv, WellFormed
<1>2. e.next = d.next /\ e[t] = R /\ Fixes(d, e, {t})
  BY <1>1 DEF Database, Fixes, Table, OrgTable
<1>3. e \in Database
  <2>1. CASE t = "members"
    BY <1>1, <2>1 DEF Database
  <2>2. CASE t = "teamMembers"
    BY <1>1, <2>2 DEF Database
  <2>3. CASE t = "bindings"
    BY <1>1, <2>3 DEF Database
  <2>4. CASE t = "variables"
    BY <1>1, <2>4 DEF Database
  <2> QED
    BY <2>1, <2>2, <2>3, <2>4
<1>4. e.teams = d.teams /\ e.projects = d.projects /\ e.environments = d.environments
      /\ e.workspaces = d.workspaces /\ e.teamMembers \subseteq d.teamMembers
  <2>1. t # "teamMembers" => e.teamMembers = d.teamMembers
    BY <1>2, FixesAll
  <2> QED
    BY <1>2, <2>1, FixesAll
<1>5. ASSUME NEW u \in OrgTable PROVE e[u] \subseteq d[u] /\ \A x \in d[u] : x \notin e[u] => x.org = o
  BY <1>2 DEF Fixes, Table
<1>6. Fixes(d, e, {"members", "teams", "teamMembers", "projects", "environments",
                   "workspaces", "bindings", "variables"})
  BY <1>2 DEF Fixes
<1>7. /\ \A x \in e.teamMembers : RowExists(e.teams, x.org, x.team)
      /\ \A x \in e.environments \cup e.workspaces : RowExists(e.projects, x.org, x.project)
  BY <1>4 DEF DbInv, WellFormed, ForeignKeys
<1> QED
  BY <1>2, <1>3, <1>5, <1>6, <1>7, RowsDeleted

LEMMA DeleteBindingRowStep ==
    ASSUME NEW ow, DbInv(ow, db), NEW o \in Id, NEW i, DeleteBindingRow(i, o)
    PROVE  Evolves(ow, db, db')
<1>1. PICK d, e : d = db /\ e = db' /\ DbInv(ow, d)
  OBVIOUS
<1>2. PICK R : R = {x \in d.bindings : ~(x.id = i /\ x.org = o)}
  OBVIOUS
<1>3. e = [d EXCEPT !.bindings = R]
  BY <1>1, <1>2 DEF DeleteBindingRow
<1> QED
  BY <1>1, <1>2, <1>3, RowsGo DEF OrgTable

LEMMA DeleteForSubjectStep ==
    ASSUME NEW ow, DbInv(ow, db), NEW o \in Id, NEW s, NEW u, DeleteForSubject(o, s, u)
    PROVE  Evolves(ow, db, db')
<1>1. PICK d, e : d = db /\ e = db' /\ DbInv(ow, d)
  OBVIOUS
<1>2. PICK R : R = {x \in d.bindings : ~(x.org = o /\ x.subjectType = s /\ x.subject = u)}
  OBVIOUS
<1>3. e = [d EXCEPT !.bindings = R]
  BY <1>1, <1>2 DEF DeleteForSubject
<1> QED
  BY <1>1, <1>2, <1>3, RowsGo DEF OrgTable

LEMMA DeleteMembershipStep ==
    ASSUME NEW ow, DbInv(ow, db), NEW o \in Id, NEW u, DeleteMembership(o, u)
    PROVE  Evolves(ow, db, db')
<1>1. PICK d, e : d = db /\ e = db' /\ DbInv(ow, d)
  OBVIOUS
<1>2. PICK R : R = {x \in d.members : ~(x.org = o /\ x.user = u)}
  OBVIOUS
<1>3. e = [d EXCEPT !.members = R]
  BY <1>1, <1>2 DEF DeleteMembership
<1> QED
  BY <1>1, <1>2, <1>3, RowsGo DEF OrgTable

LEMMA DeleteTeamMemberStep ==
    ASSUME NEW ow, DbInv(ow, db), NEW o \in Id, NEW i, NEW u, DeleteTeamMember(o, i, u)
    PROVE  Evolves(ow, db, db')
<1>1. PICK d, e : d = db /\ e = db' /\ DbInv(ow, d)
  OBVIOUS
<1>2. PICK R : R = {x \in d.teamMembers : ~(x.org = o /\ x.team = i /\ x.user = u)}
  OBVIOUS
<1>3. e = [d EXCEPT !.teamMembers = R]
  BY <1>1, <1>2 DEF DeleteTeamMember
<1> QED
  BY <1>1, <1>2, <1>3, RowsGo DEF OrgTable

LEMMA DeleteVariableRowStep ==
    ASSUME NEW ow, DbInv(ow, db), NEW o \in Id, NEW i, DeleteVariableRow(o, i)
    PROVE  Evolves(ow, db, db')
<1>1. PICK d, e : d = db /\ e = db' /\ DbInv(ow, d)
  OBVIOUS
<1>2. PICK R : R = {x \in d.variables : ~(x.org = o /\ x.id = i)}
  OBVIOUS
<1>3. e = [d EXCEPT !.variables = R]
  BY <1>1, <1>2 DEF DeleteVariableRow
<1> QED
  BY <1>1, <1>2, <1>3, RowsGo DEF OrgTable

LEMMA DeleteTeamAndMembershipsStep ==
    ASSUME NEW ow, DbInv(ow, db), NEW o \in Id, NEW i, DeleteTeamAndMemberships(o, i)
    PROVE  Evolves(ow, db, db')
<1>1. PICK d, e : d = db /\ e = db' /\ DbInv(ow, d)
  OBVIOUS
<1>2. PICK M, T : /\ M = {x \in d.teamMembers : ~(x.org = o /\ x.team = i)}
                  /\ T = {x \in d.teams : ~(x.org = o /\ x.id = i)}
  OBVIOUS
<1>3. e = [d EXCEPT !.teamMembers = M, !.teams = T]
  BY <1>1, <1>2 DEF DeleteTeamAndMemberships
<1>4. d \in Database /\ M \subseteq d.teamMembers /\ T \subseteq d.teams
  BY <1>1, <1>2 DEF DbInv, WellFormed
<1>5. /\ e.next = d.next /\ e["teamMembers"] = M /\ e["teams"] = T
      /\ Fixes(d, e, {"teams", "teamMembers"})
  BY <1>3, <1>4 DEF Database, Fixes, Table, OrgTable
<1>6. e \in Database
  BY <1>3, <1>4 DEF Database
<1>7. e.projects = d.projects /\ e.environments = d.environments /\ e.workspaces = d.workspaces
  BY <1>5, FixesAll
<1>8. ASSUME NEW u \in OrgTable PROVE e[u] \subseteq d[u] /\ \A x \in d[u] : x \notin e[u] => x.org = o
  BY <1>2, <1>4, <1>5 DEF Fixes, Table
<1>9. Fixes(d, e, {"members", "teams", "teamMembers", "projects", "environments",
                   "workspaces", "bindings", "variables"})
  BY <1>5 DEF Fixes
<1>10. \A x \in e.teamMembers : RowExists(e.teams, x.org, x.team)
  BY <1>1, <1>2, <1>5 DEF DbInv, WellFormed, ForeignKeys, RowExists
<1>11. \A x \in e.environments \cup e.workspaces : RowExists(e.projects, x.org, x.project)
  BY <1>1, <1>7 DEF DbInv, WellFormed, ForeignKeys
<1> QED
  BY <1>1, <1>5, <1>6, <1>8, <1>9, <1>10, <1>11, RowsDeleted

LEMMA PurgeWorkspaceStep ==
    ASSUME NEW ow, DbInv(ow, db), NEW o \in Id, NEW i \in Id, Owns(ow, o, i, db.next),
           PurgeWorkspace(o, i)
    PROVE  Evolves(ow, db, db')
<1>1. PICK d, e : d = db /\ e = db' /\ DbInv(ow, d) /\ Owns(ow, o, i, d.next)
  OBVIOUS
<1>2. PICK V, B, W : /\ V = {v \in d.variables : ~(v.scopeType = "workspace" /\ v.scope = i)}
                     /\ B = {b \in d.bindings : ~(b.scopeType = "workspace" /\ b.scope = i)}
                     /\ W = {w \in d.workspaces : ~(w.org = o /\ w.id = i)}
  OBVIOUS
<1>3. e = [d EXCEPT !.variables = V, !.bindings = B, !.workspaces = W]
  BY <1>1, <1>2 DEF PurgeWorkspace
<1>4. /\ d \in Database /\ V \subseteq d.variables /\ B \subseteq d.bindings
      /\ W \subseteq d.workspaces
  BY <1>1, <1>2 DEF DbInv, WellFormed
<1>5. /\ e.next = d.next /\ e["variables"] = V /\ e["bindings"] = B /\ e["workspaces"] = W
      /\ Fixes(d, e, {"variables", "bindings", "workspaces"})
  BY <1>3, <1>4 DEF Database, Fixes, Table, OrgTable
<1>6. e \in Database
  BY <1>3, <1>4 DEF Database
<1>7. /\ \A x \in d["variables"] : x \notin V => x.org = o
      /\ \A x \in d["bindings"] : x \notin B => x.org = o
      /\ \A x \in d["workspaces"] : x \notin W => x.org = o
  BY <1>1, <1>2 DEF DbInv, Owned, ScopeOwned, Owns
<1>8. ASSUME NEW u \in OrgTable PROVE e[u] \subseteq d[u] /\ \A x \in d[u] : x \notin e[u] => x.org = o
  BY <1>4, <1>5, <1>7 DEF Fixes, Table
<1>9. Fixes(d, e, {"members", "teams", "teamMembers", "projects", "environments",
                   "workspaces", "bindings", "variables"})
  BY <1>5 DEF Fixes
<1>10. /\ e.projects = d.projects /\ e.environments = d.environments
       /\ e.workspaces \subseteq d.workspaces /\ e.teams = d.teams /\ e.teamMembers = d.teamMembers
  BY <1>4, <1>5, FixesAll
<1>11. /\ \A x \in e.teamMembers : RowExists(e.teams, x.org, x.team)
       /\ \A x \in e.environments \cup e.workspaces : RowExists(e.projects, x.org, x.project)
  BY <1>1, <1>10 DEF DbInv, WellFormed, ForeignKeys
<1> QED
  BY <1>1, <1>5, <1>6, <1>8, <1>9, <1>11, RowsDeleted

LEMMA PurgeProjectStep ==
    ASSUME NEW ow, DbInv(ow, db), NEW o \in Id, NEW p \in Id, Owns(ow, o, p, db.next),
           PurgeProject(o, p)
    PROVE  Evolves(ow, db, db')
<1>1. PICK d, e : d = db /\ e = db' /\ DbInv(ow, d) /\ Owns(ow, o, p, d.next)
  OBVIOUS
<1>2. PICK V, B :
        /\ V = {v \in db.variables :
                  ~(\/ v.scopeType = "project" /\ v.scope = p
                    \/ v.scopeType = "environment" /\ v.scope \in Of(db.environments, p)
                    \/ v.scopeType = "workspace" /\ v.scope \in Of(db.workspaces, p))}
        /\ B = {b \in db.bindings :
                  ~(\/ b.scopeType = "project" /\ b.scope = p
                    \/ b.scopeType = "workspace" /\ b.scope \in Of(db.workspaces, p))}
  OBVIOUS
<1>3. PICK W, E, P : /\ W = {w \in db.workspaces : w.project # p}
                     /\ E = {x \in db.environments : x.project # p}
                     /\ P = {x \in db.projects : ~(x.org = o /\ x.id = p)}
  OBVIOUS
<1>a. db' = [db EXCEPT !.variables = V, !.bindings = B, !.workspaces = W, !.environments = E,
                       !.projects = P]
  BY <1>2, <1>3, Zenon DEF PurgeProject
<1>4. e = [d EXCEPT !.variables = V, !.bindings = B, !.workspaces = W, !.environments = E,
                    !.projects = P]
  BY <1>1, <1>a
<1>5. /\ d \in Database /\ V \subseteq d.variables /\ B \subseteq d.bindings
      /\ W \subseteq d.workspaces /\ E \subseteq d.environments /\ P \subseteq d.projects
  BY <1>1, <1>2, <1>3 DEF DbInv, WellFormed
<1>6. /\ e.next = d.next /\ e["variables"] = V /\ e["bindings"] = B /\ e["workspaces"] = W
      /\ e["environments"] = E /\ e["projects"] = P
      /\ Fixes(d, e, {"variables", "bindings", "workspaces", "environments", "projects"})
  BY <1>4, <1>5 DEF Database, Fixes, Table, OrgTable
<1>7. e \in Database
  BY <1>4, <1>5 DEF Database
<1>8. /\ \A x \in d.environments : x.project = p => x.org = o /\ ow[x.id] = o
      /\ \A x \in d.workspaces : x.project = p => x.org = o /\ ow[x.id] = o
  BY <1>1 DEF DbInv, Owned, Owns
<1>9. /\ \A i \in Of(d.environments, p) : ow[i] = o
      /\ \A i \in Of(d.workspaces, p) : ow[i] = o
  BY <1>8 DEF Of
<1>10. /\ \A x \in d["variables"] : x \notin V => x.org = o
       /\ \A x \in d["bindings"] : x \notin B => x.org = o
  BY <1>1, <1>2, <1>9 DEF DbInv, Owned, ScopeOwned, Owns
<1>11. /\ \A x \in d["workspaces"] : x \notin W => x.org = o
       /\ \A x \in d["environments"] : x \notin E => x.org = o
       /\ \A x \in d["projects"] : x \notin P => x.org = o
  BY <1>1, <1>3, <1>8
<1>12. ASSUME NEW u \in OrgTable PROVE e[u] \subseteq d[u] /\ \A x \in d[u] : x \notin e[u] => x.org = o
  BY <1>5, <1>6, <1>10, <1>11 DEF Fixes, Table
<1>13. Fixes(d, e, {"members", "teams", "teamMembers", "projects", "environments",
                   "workspaces", "bindings", "variables"})
  BY <1>6 DEF Fixes
<1>14. \A x \in e.teamMembers : RowExists(e.teams, x.org, x.team)
  <2>1. e.teams = d.teams /\ e.teamMembers = d.teamMembers
    BY <1>6, FixesAll
  <2> QED
    BY <1>1, <2>1 DEF DbInv, WellFormed, ForeignKeys
<1>15. \A x \in e.environments \cup e.workspaces : RowExists(e.projects, x.org, x.project)
  BY <1>1, <1>3, <1>6 DEF DbInv, WellFormed, ForeignKeys, RowExists
<1> QED
  BY <1>1, <1>6, <1>7, <1>12, <1>13, <1>14, <1>15, RowsDeleted

-----------------------------------------------------------------------------
(* Transactions that update.                                                *)

LEMMA UpdateRoleRowStep ==
    ASSUME NEW ow, DbInv(ow, db), NEW o \in Id, NEW i, NEW P \in SUBSET Permission,
           UpdateRoleRow(o, i, P)
    PROVE  Evolves(ow, db, db')
<1>1. PICK d, e : d = db /\ e = db' /\ DbInv(ow, d)
  OBVIOUS
<1>2. PICK R : R = {IF r.id = i /\ r.org = o THEN [r EXCEPT !.permissions = P] ELSE r :
                       r \in d.roles}
  OBVIOUS
<1>3. e = [d EXCEPT !.roles = R]
  BY <1>1, <1>2 DEF UpdateRoleRow
<1>4. d \in Database /\ d.roles \subseteq Role
  BY <1>1, DatabaseTypes DEF DbInv, WellFormed
<1>5. \A x \in R : \/ x \in d.roles
                   \/ \E y \in d.roles : y.id = i /\ y.org = o /\ x = [y EXCEPT !.permissions = P]
  BY <1>2
<1>6. \A y \in d.roles : y \in R \/ (y.id = i /\ y.org = o /\ [y EXCEPT !.permissions = P] \in R)
  BY <1>2
<1>7. ASSUME NEW y \in d.roles
      PROVE  /\ [y EXCEPT !.permissions = P] \in Role
             /\ [y EXCEPT !.permissions = P].id = y.id /\ [y EXCEPT !.permissions = P].org = y.org
  BY <1>4 DEF Role
<1>8. R \in SUBSET Role
  BY <1>4, <1>5, <1>7
<1>9. e \in Database /\ e.next = d.next /\ e["roles"] = R /\ Fixes(d, e, {"roles"})
  BY <1>3, <1>4, <1>8 DEF Database, Fixes, Table, OrgTable
<1>10. /\ \A x \in R : \/ x \in d["roles"]
                       \/ x.org = o /\ \E y \in d["roles"] : y.org = o /\ y.id = x.id
       /\ \A y \in d["roles"] : \/ y \in R
                                \/ y.org = o /\ \E x \in R : x.org = o /\ y.id = x.id
  BY <1>5, <1>6, <1>7
<1> QED
  BY <1>1, <1>9, <1>10, RowsUpdated

LEMMA RevokeRowStep ==
    ASSUME NEW ow, DbInv(ow, db), NEW o \in Id, NEW i, RevokeRow(o, i)
    PROVE  Evolves(ow, db, db')
<1>1. PICK d, e : d = db /\ e = db' /\ DbInv(ow, d)
  OBVIOUS
<1>2. PICK R : R = {IF k.id = i /\ k.org = o THEN [k EXCEPT !.revoked = TRUE] ELSE k :
                       k \in d.apiKeys}
  OBVIOUS
<1>3. e = [d EXCEPT !.apiKeys = R]
  BY <1>1, <1>2 DEF RevokeRow
<1>4. d \in Database /\ d.apiKeys \subseteq APIKey
  BY <1>1, DatabaseTypes DEF DbInv, WellFormed
<1>5. \A x \in R : \/ x \in d.apiKeys
                   \/ \E y \in d.apiKeys : y.id = i /\ y.org = o /\ x = [y EXCEPT !.revoked = TRUE]
  BY <1>2
<1>6. \A y \in d.apiKeys : y \in R \/ (y.id = i /\ y.org = o /\ [y EXCEPT !.revoked = TRUE] \in R)
  BY <1>2
<1>7. ASSUME NEW y \in d.apiKeys
      PROVE  /\ [y EXCEPT !.revoked = TRUE] \in APIKey
             /\ [y EXCEPT !.revoked = TRUE].id = y.id /\ [y EXCEPT !.revoked = TRUE].org = y.org
  BY <1>4 DEF APIKey
<1>8. R \in SUBSET APIKey
  BY <1>4, <1>5, <1>7
<1>9. e \in Database /\ e.next = d.next /\ e["apiKeys"] = R /\ Fixes(d, e, {"apiKeys"})
  BY <1>3, <1>4, <1>8 DEF Database, Fixes, Table, OrgTable
<1>10. /\ \A x \in R : \/ x \in d["apiKeys"]
                       \/ x.org = o /\ \E y \in d["apiKeys"] : y.org = o /\ y.id = x.id
       /\ \A y \in d["apiKeys"] : \/ y \in R
                                  \/ y.org = o /\ \E x \in R : x.org = o /\ y.id = x.id
  BY <1>5, <1>6, <1>7
<1> QED
  BY <1>1, <1>9, <1>10, RowsUpdated

LEMMA SetBlockedStep ==
    ASSUME NEW ow, DbInv(ow, db), NEW o \in Id, NEW u, NEW b \in BOOLEAN, SetBlocked(o, u, b)
    PROVE  Evolves(ow, db, db')
<1>1. PICK d, e : d = db /\ e = db' /\ DbInv(ow, d)
  OBVIOUS
<1>2. PICK R : R = {IF m.org = o /\ m.user = u THEN [m EXCEPT !.blocked = b] ELSE m :
                       m \in d.members}
  OBVIOUS
<1>3. e = [d EXCEPT !.members = R]
  BY <1>1, <1>2 DEF SetBlocked
<1>4. d \in Database /\ d.members \subseteq OrganizationMembership
  BY <1>1, DatabaseTypes DEF DbInv, WellFormed
<1>5. \A x \in R : \/ x \in d.members
                   \/ \E y \in d.members : y.org = o /\ x = [y EXCEPT !.blocked = b]
  BY <1>2
<1>6. \A y \in d.members : y \in R \/ (y.org = o /\ [y EXCEPT !.blocked = b] \in R)
  BY <1>2
<1>7. ASSUME NEW y \in d.members
      PROVE  /\ [y EXCEPT !.blocked = b] \in OrganizationMembership
             /\ [y EXCEPT !.blocked = b].org = y.org
  BY <1>4 DEF OrganizationMembership
<1>8. R \in SUBSET OrganizationMembership
  BY <1>4, <1>5, <1>7
<1>9. e \in Database /\ e.next = d.next /\ e["members"] = R /\ Fixes(d, e, {"members"})
  BY <1>3, <1>4, <1>8 DEF Database, Fixes, Table, OrgTable
<1>10. /\ \A x \in R : \/ x \in d["members"]
                       \/ x.org = o /\ \E y \in d["members"] : y.org = o
       /\ \A y \in d["members"] : \/ y \in R
                                  \/ y.org = o /\ \E x \in R : x.org = o
  BY <1>5, <1>6, <1>7
<1> QED
  BY <1>1, <1>9, <1>10, RowsUpdated

LEMMA RenameTeamStep ==
    ASSUME NEW ow, DbInv(ow, db), NEW o \in Id, NEW i, NEW n \in Name, RenameTeam(o, i, n)
    PROVE  Evolves(ow, db, db')
<1>1. PICK d, e : d = db /\ e = db' /\ DbInv(ow, d)
  OBVIOUS
<1>2. PICK R : R = {IF t.org = o /\ t.id = i THEN [t EXCEPT !.name = n] ELSE t : t \in d.teams}
  OBVIOUS
<1>3. \/ e = d
      \/ /\ e = [d EXCEPT !.teams = R]
         /\ \A t \in d.teams : ~(t.org = o /\ t.id # i /\ t.name = n)
  BY <1>1, <1>2 DEF RenameTeam, NameTaken
<1>4. d \in Database /\ d.teams \subseteq Team
  BY <1>1, DatabaseTypes DEF DbInv, WellFormed
<1>5. \A x \in R : \/ x \in d.teams /\ ~(x.org = o /\ x.id = i)
                   \/ \E y \in d.teams : y.id = i /\ y.org = o /\ x = [y EXCEPT !.name = n]
  BY <1>2
<1>6. \A y \in d.teams : y \in R \/ (y.id = i /\ y.org = o /\ [y EXCEPT !.name = n] \in R)
  BY <1>2
<1>7. ASSUME NEW y \in d.teams
      PROVE  /\ [y EXCEPT !.name = n] \in Team /\ [y EXCEPT !.name = n].name = n
             /\ [y EXCEPT !.name = n].id = y.id /\ [y EXCEPT !.name = n].org = y.org
  BY <1>4 DEF Team
<1>8. CASE /\ e = [d EXCEPT !.teams = R]
           /\ \A t \in d.teams : ~(t.org = o /\ t.id # i /\ t.name = n)
  <2>1. R \in SUBSET Team
    BY <1>4, <1>5, <1>7
  <2>2. e \in Database /\ e.next = d.next /\ e["teams"] = R /\ Fixes(d, e, {"teams"})
    BY <1>4, <1>8, <2>1 DEF Database, Fixes, Table, OrgTable
  <2>3. /\ \A x \in R : \/ x \in d["teams"]
                        \/ x.org = o /\ \E y \in d["teams"] : y.org = o /\ y.id = x.id
        /\ \A y \in d["teams"] : \/ y \in R
                                 \/ y.org = o /\ \E x \in R : x.org = o /\ y.id = x.id
    BY <1>5, <1>6, <1>7
  <2>4. ASSUME NEW x \in R, NEW y \in R, x.org = y.org, x.name = y.name PROVE x = y
    <3>1. CASE x \in d.teams /\ ~(x.org = o /\ x.id = i) /\ y \in d.teams
      BY <1>1, <2>4, <3>1 DEF DbInv, WellFormed, UniqueKeys
    <3>2. ASSUME NEW z \in d.teams, z.id = i, z.org = o,
                 x = [z EXCEPT !.name = n] \/ y = [z EXCEPT !.name = n]
          PROVE  x.org = o /\ x.name = n /\ y.org = o /\ y.name = n
      BY <1>7, <2>4, <3>2
    <3>3. ASSUME x.org = o, x.name = n, y.org = o, y.name = n PROVE x = y
      <4>1. ASSUME NEW z \in R, z.org = o, z.name = n
            PROVE  z = [org |-> o, id |-> i, name |-> n]
        <5>1. PICK y1 \in d.teams : y1.id = i /\ y1.org = o /\ z = [y1 EXCEPT !.name = n]
          BY <1>5, <1>8, <4>1
        <5> QED
          BY <1>4, <5>1 DEF Team
      <4> QED
        BY <3>3, <4>1
    <3> QED
      BY <1>5, <3>1, <3>2, <3>3
  <2> QED
    BY <1>1, <2>2, <2>3, <2>4, RowsUpdated
<1> QED
  BY <1>1, <1>3, <1>8, NothingHappens

LEMMA UpdateVariableRowStep ==
    ASSUME NEW ow, DbInv(ow, db), NEW o \in Id, NEW i, UpdateVariableRow(o, i)
    PROVE  Evolves(ow, db, db')
<1>1. PICK d, e : d = db /\ e = db' /\ DbInv(ow, d)
  OBVIOUS
<1>2. PICK R : R = {IF v.org = o /\ v.id = i THEN [v EXCEPT !.secret = FALSE] ELSE v :
                       v \in d.variables}
  OBVIOUS
<1>3. e = [d EXCEPT !.variables = R]
  BY <1>1, <1>2 DEF UpdateVariableRow
<1>4. d \in Database /\ d.variables \subseteq Variable
  BY <1>1, DatabaseTypes DEF DbInv, WellFormed
<1>5. \A x \in R : \/ x \in d.variables /\ ~(x.org = o /\ x.id = i)
                   \/ \E y \in d.variables : y.id = i /\ y.org = o /\ x = [y EXCEPT !.secret = FALSE]
  BY <1>2
<1>6. \A y \in d.variables : y \in R \/ (y.id = i /\ y.org = o /\ [y EXCEPT !.secret = FALSE] \in R)
  BY <1>2
<1>7. ASSUME NEW y \in d.variables
      PROVE  /\ [y EXCEPT !.secret = FALSE] \in Variable
             /\ [y EXCEPT !.secret = FALSE].org = y.org
             /\ SamePlace(y, [y EXCEPT !.secret = FALSE])
  BY <1>4 DEF Variable, SamePlace
<1>8. R \in SUBSET Variable
  BY <1>4, <1>5, <1>7
<1>9. e \in Database /\ e.next = d.next /\ e["variables"] = R /\ Fixes(d, e, {"variables"})
  BY <1>3, <1>4, <1>8 DEF Database, Fixes, Table, OrgTable
<1>10. /\ \A x \in R : \/ x \in d["variables"]
                       \/ x.org = o /\ \E y \in d["variables"] : y.org = o /\ y.id = x.id
                                                                /\ SamePlace(y, x)
       /\ \A y \in d["variables"] : \/ y \in R
                                    \/ y.org = o /\ \E x \in R : x.org = o /\ y.id = x.id
  <2>1. ASSUME NEW x \in R, x \notin d.variables
        PROVE  x.org = o /\ \E y \in d.variables : y.org = o /\ y.id = x.id /\ SamePlace(y, x)
    <3>1. PICK y \in d.variables : y.id = i /\ y.org = o /\ x = [y EXCEPT !.secret = FALSE]
      BY <1>5, <2>1
    <3> QED
      BY <1>7, <3>1 DEF SamePlace
  <2>2. ASSUME NEW y \in d.variables, y \notin R
        PROVE  y.org = o /\ \E x \in R : x.org = o /\ y.id = x.id
    BY <1>6, <1>7, <2>2 DEF SamePlace
  <2> QED
    BY <2>1, <2>2
<1>11. ASSUME NEW x \in R, NEW y \in R, x.id = y.id PROVE x = y
  <2>1. \A v, z \in d.variables : v.id = z.id => v = z
    BY <1>1 DEF DbInv, Owned
  <2>2. \A v \in d.variables : [v EXCEPT !.secret = FALSE].id = v.id
    BY <1>4 DEF Variable
  <2>3. ASSUME NEW z \in R
        PROVE  \E v \in d.variables :
                  v.id = z.id /\ z = IF v.org = o /\ v.id = i THEN [v EXCEPT !.secret = FALSE] ELSE v
    BY <1>2, <2>2
  <2>4. PICK v \in d.variables :
           v.id = x.id /\ x = IF v.org = o /\ v.id = i THEN [v EXCEPT !.secret = FALSE] ELSE v
    BY <2>3
  <2>5. PICK z \in d.variables :
           z.id = y.id /\ y = IF z.org = o /\ z.id = i THEN [z EXCEPT !.secret = FALSE] ELSE z
    BY <2>3
  <2>6. v = z
    BY <1>11, <2>1, <2>4, <2>5
  <2> QED
    BY <2>4, <2>5, <2>6, Zenon
<1> QED
  BY <1>1, <1>9, <1>10, <1>11, RowsUpdated

LEMMA WindowPassesStep ==
    ASSUME NEW ow, DbInv(ow, db), NEW o \in Id, WindowPasses(o)
    PROVE  Evolves(ow, db, db')
<1>1. PICK d, e : d = db /\ e = db' /\ DbInv(ow, d)
  OBVIOUS
<1>2. PICK R : R = {[x EXCEPT !.due = x.due \/ x.org = o] : x \in d.archivals}
  OBVIOUS
<1>3. e = [d EXCEPT !.archivals = R]
  BY <1>1, <1>2 DEF WindowPasses
<1>4. d \in Database /\ d.archivals \subseteq ArchivalEvent
  BY <1>1, DatabaseTypes DEF DbInv, WellFormed
<1>5. ASSUME NEW y \in d.archivals
      PROVE  /\ [y EXCEPT !.due = y.due \/ y.org = o] \in ArchivalEvent
             /\ [y EXCEPT !.due = y.due \/ y.org = o].org = y.org
             /\ y.org # o => [y EXCEPT !.due = y.due \/ y.org = o] = y
             /\ y.due => [y EXCEPT !.due = y.due \/ y.org = o].due
  <2>1. y \in ArchivalEvent /\ y.due \in BOOLEAN
    BY <1>4 DEF ArchivalEvent
  <2>2. PICK b \in BOOLEAN : b = (y.due \/ y.org = o)
    BY <2>1
  <2>3. (y.org # o => b = y.due) /\ (y.due => b)
    BY <2>1, <2>2
  <2>4. [y EXCEPT !.due = b] \in ArchivalEvent /\ [y EXCEPT !.due = b].org = y.org
        /\ [y EXCEPT !.due = b].due = b
    BY <2>1 DEF ArchivalEvent
  <2>5. y.org # o => [y EXCEPT !.due = b] = y
    BY <2>1, <2>3 DEF ArchivalEvent
  <2> QED
    BY <2>2, <2>3, <2>4, <2>5
<1>6. /\ \A x \in R : \E y \in d.archivals : x = [y EXCEPT !.due = y.due \/ y.org = o]
      /\ \A y \in d.archivals : [y EXCEPT !.due = y.due \/ y.org = o] \in R
  BY <1>2
<1>8. R \in SUBSET ArchivalEvent
  BY <1>5, <1>6
<1>9. e \in Database /\ e.next = d.next /\ e["archivals"] = R /\ Fixes(d, e, {"archivals"})
  BY <1>3, <1>4, <1>8 DEF Database, Fixes, Table, OrgTable
<1>10. /\ \A x \in R : \/ x \in d["archivals"]
                       \/ x.org = o /\ \E y \in d["archivals"] : y.org = o
       /\ \A y \in d["archivals"] : \/ y \in R
                                    \/ y.org = o /\ \E x \in R : x.org = o /\ (y.due => x.due)
  <2>1. ASSUME NEW x \in R, x \notin d.archivals
        PROVE  x.org = o /\ \E y \in d.archivals : y.org = o
    <3>1. PICK y \in d.archivals : x = [y EXCEPT !.due = y.due \/ y.org = o]
      BY <1>6
    <3>2. y.org = o /\ x.org = y.org
      BY <1>5, <2>1, <3>1
    <3> QED
      BY <3>2
  <2>2. ASSUME NEW y \in d.archivals, y \notin R
        PROVE  y.org = o /\ \E x \in R : x.org = o /\ (y.due => x.due)
    <3>1. PICK x \in R : x = [y EXCEPT !.due = y.due \/ y.org = o]
      BY <1>6
    <3>2. y.org = o
      BY <1>5, <2>2, <3>1
    <3>3. x.org = y.org
      BY <1>5, <3>1
    <3>4. y.due => x.due
      BY <1>5, <3>1
    <3> QED
      BY <3>2, <3>3, <3>4
  <2> QED
    BY <2>1, <2>2, Zenon
<1> QED
  BY <1>1, <1>9, <1>10, RowsUpdated

-----------------------------------------------------------------------------
(* The other transactions.                                                  *)

LEMMA SetAdminStep ==
    ASSUME NEW ow, DbInv(ow, db), NEW u \in User, NEW b \in BOOLEAN, SetAdmin(u, b)
    PROVE  Evolves(ow, db, db')
<1>1. PICK d, e : d = db /\ e = db' /\ DbInv(ow, d)
  OBVIOUS
<1>2. PICK R : R = IF b THEN d.admins \cup {u} ELSE d.admins \ {u}
  OBVIOUS
<1>3. e = [d EXCEPT !.admins = R]
  BY <1>1, <1>2 DEF SetAdmin
<1>4. d \in Database /\ R \in SUBSET User /\ d.next \in Nat
  BY <1>1, <1>2, DatabaseTypes DEF DbInv, WellFormed
<1>5. e \in Database /\ e.next = d.next /\ Fixes(d, e, {"admins"})
  BY <1>3, <1>4 DEF Database, Fixes, Table, OrgTable
<1>6. \A t \in OrgTable : e[t] = d[t]
  BY <1>5 DEF Fixes, Table, OrgTable
<1>7. /\ e.orgs = d.orgs /\ e.archivals = d.archivals /\ e.projects = d.projects
      /\ e.environments = d.environments /\ e.workspaces = d.workspaces
      /\ e.bindings = d.bindings /\ e.accounts = d.accounts /\ e.teamMembers = d.teamMembers
      /\ e.teams = d.teams /\ e.roles = d.roles /\ e.variables = d.variables
  BY <1>5, FixesAll
<1>8. WellFormed(e)
  BY <1>1, <1>5, <1>6, <1>7 DEF DbInv, WellFormed, ForeignKeys, UniqueKeys
<1>9. Owned(ow, e)
  BY <1>1, <1>5, <1>7 DEF DbInv, Owned
<1>10. /\ Extends(ow, d, ow, e) /\ OrgsLater(d, e) /\ VariablesLater(d, e)
       /\ Refines(d, e)
  BY <1>4, <1>5, <1>6, <1>7 DEF Extends, OrgsLater, VariablesLater, SamePlace, Exists, ArchivedIn,
                                DueIn, Refines, Stays
<1> QED
  BY <1>1, <1>8, <1>9, <1>10 DEF Evolves, Becomes, DbInv

LEMMA ArchiveStep ==
    ASSUME NEW ow, DbInv(ow, db), NEW o \in Id, Archive(o)
    PROVE  Evolves(ow, db, db')
<1>1. PICK d, e : d = db /\ e = db' /\ DbInv(ow, d)
  OBVIOUS
<1>2. PICK S, new : /\ S = {IF x.id = o THEN [x EXCEPT !.archived = TRUE] ELSE x : x \in d.orgs}
                    /\ new = [org |-> o, due |-> FALSE]
  OBVIOUS
<1>3. PICK A : A = d.archivals \cup {new}
  OBVIOUS
<1>4. e = d \/ (Exists(d, o) /\ e = [d EXCEPT !.orgs = S, !.archivals = A])
  BY <1>1, <1>2, <1>3 DEF Archive, OrgExists, Exists
<1>5. CASE Exists(d, o) /\ e = [d EXCEPT !.orgs = S, !.archivals = A]
  <2>1. /\ d \in Database /\ d.next \in Nat /\ d.orgs \subseteq Organizations
        /\ d.archivals \subseteq ArchivalEvent
    BY <1>1, DatabaseTypes DEF DbInv, WellFormed
  <2>2. ASSUME NEW x \in Organizations, x.id = o
        PROVE  [x EXCEPT !.archived = TRUE] = [id |-> o, archived |-> TRUE]
    <3>1. PICK y : y = [x EXCEPT !.archived = TRUE]
      OBVIOUS
    <3>2. y \in Organizations /\ y.id = o /\ y.archived = TRUE
      BY <2>2, <3>1 DEF Organizations
    <3>3. y = [id |-> y.id, archived |-> y.archived]
      BY <3>2 DEF Organizations
    <3> QED
      BY <3>1, <3>2, <3>3, Zenon
  <2>3. /\ \A x \in S : x = [id |-> o, archived |-> TRUE] \/ (x \in d.orgs /\ x.id # o)
        /\ \A x \in d.orgs : x.id # o => x \in S
        /\ [id |-> o, archived |-> TRUE] \in S
    BY <1>2, <1>5, <2>1, <2>2 DEF Exists
  <2>4. [id |-> o, archived |-> TRUE] \in Organizations
    BY Zenon DEF Organizations
  <2>5. new \in ArchivalEvent /\ new.org = o
    BY <1>2, Zenon DEF ArchivalEvent
  <2>6. S \in SUBSET Organizations /\ A \in SUBSET ArchivalEvent
    BY <1>3, <2>1, <2>3, <2>4, <2>5
  <2>7. /\ e \in Database /\ e.next = d.next /\ e.orgs = S /\ e.archivals = A
        /\ e["archivals"] = A /\ Fixes(d, e, {"orgs", "archivals"})
    BY <1>5, <2>1, <2>6 DEF Database, Fixes, Table, OrgTable
  <2>8. \A t \in OrgTable : t # "archivals" => e[t] = d[t]
    BY <2>7 DEF Fixes, Table, OrgTable
  <2>9. /\ e.projects = d.projects /\ e.environments = d.environments
        /\ e.workspaces = d.workspaces /\ e.bindings = d.bindings /\ e.accounts = d.accounts
        /\ e.teamMembers = d.teamMembers /\ e.teams = d.teams /\ e.roles = d.roles
        /\ e.variables = d.variables
    BY <2>7, FixesAll
  <2>10. \A i : Exists(e, i) <=> Exists(d, i)
    BY <1>5, <2>3, <2>7 DEF Exists
  <2>11. \A i : ArchivedIn(e, i) <=> ArchivedIn(d, i) \/ i = o
    BY <2>3, <2>7 DEF ArchivedIn
  <2>12. Touches(d, e, o)
    BY <1>3, <2>5, <2>7, <2>8 DEF Touches
  <2>13. Refines(d, e)
    BY <1>5, <2>7, <2>10, <2>11, <2>12 DEF Refines, Archives
  <2>14. \A t \in OrgTable : \A x \in e[t] : x.org # 0 => Exists(e, x.org)
    <3>1. ASSUME NEW x \in A, x.org # 0 PROVE Exists(e, x.org)
      <4>1. \A y \in d["archivals"] : y.org # 0 => Exists(d, y.org)
        BY <1>1 DEF DbInv, WellFormed, ForeignKeys, OrgTable, Exists
      <4> QED
        BY <1>3, <1>5, <2>5, <2>10, <3>1, <4>1
    <3>2. ASSUME NEW t \in OrgTable, NEW x \in d[t], x.org # 0 PROVE Exists(e, x.org)
      BY <1>1, <2>10, <3>2 DEF DbInv, WellFormed, ForeignKeys, Exists
    <3> QED
      BY <2>7, <2>8, <3>1, <3>2
  <2>15. ForeignKeys(e) /\ UniqueKeys(e)
    BY <1>1, <2>9, <2>14 DEF DbInv, WellFormed, ForeignKeys, UniqueKeys, Exists
  <2>16. \A x \in e.archivals : [id |-> x.org, archived |-> TRUE] \in e.orgs
    <3>1. \A x \in d.archivals : ArchivedIn(d, x.org)
      BY <1>1 DEF DbInv, WellFormed, ArchivedIn
    <3>2. \A x \in d.archivals : ArchivedIn(e, x.org)
      BY <2>11, <3>1
    <3>3. ArchivedIn(e, new.org)
      BY <2>5, <2>11
    <3> QED
      BY <1>3, <2>7, <3>2, <3>3 DEF ArchivedIn
  <2>17. WellFormed(e)
    BY <1>1, <2>7, <2>9, <2>15, <2>16 DEF DbInv, WellFormed
  <2>18. Owned(ow, e)
    <3>1. \A x \in e.orgs : x.id < e.next
      <4>1. o < d.next
        BY <1>1, <1>5 DEF DbInv, Owned, Exists
      <4> QED
        BY <1>1, <2>3, <2>7, <4>1 DEF DbInv, Owned
    <3> QED
      BY <1>1, <2>7, <2>9, <3>1 DEF DbInv, Owned
  <2>19. Extends(ow, d, ow, e) /\ VariablesLater(d, e)
    BY <2>1, <2>7, <2>9 DEF Extends, VariablesLater, SamePlace
  <2>20. OrgsLater(d, e)
    BY <1>3, <2>7, <2>10, <2>11 DEF OrgsLater, DueIn
  <2> QED
    BY <1>1, <2>13, <2>17, <2>18, <2>19, <2>20 DEF Evolves, Becomes, DbInv
<1> QED
  BY <1>1, <1>4, <1>5, NothingHappens

\* The Organization goes with all its rows, whether it is there or not.
LEMMA PurgeOrganizationStep ==
    ASSUME NEW ow, DbInv(ow, db), NEW o \in Id, PurgeOrganization(o)
    PROVE  Evolves(ow, db, db')
<1>1. PICK d, e : d = db /\ e = db' /\ DbInv(ow, d)
  OBVIOUS
<1>2. d \in Database /\ d.next \in Nat /\ o # 0
  BY <1>1, DatabaseTypes, AccessAssumption DEF DbInv, WellFormed, Id
<1>3. PICK m : m = [d EXCEPT !.archivals = Without(@, o), !.members = Without(@, o),
                             !.teams = Without(@, o), !.teamMembers = Without(@, o),
                             !.projects = Without(@, o), !.environments = Without(@, o),
                             !.workspaces = Without(@, o), !.roles = Without(@, o),
                             !.bindings = Without(@, o), !.variables = Without(@, o),
                             !.accounts = Without(@, o), !.apiKeys = Without(@, o)]
  OBVIOUS
<1>4. e = Purged(o, m)
  BY <1>1, <1>3 DEF PurgeOrganization
<1>5. /\ m.archivals = Without(d.archivals, o) /\ m.members = Without(d.members, o)
      /\ m.teams = Without(d.teams, o) /\ m.teamMembers = Without(d.teamMembers, o)
      /\ m.projects = Without(d.projects, o) /\ m.environments = Without(d.environments, o)
      /\ m.workspaces = Without(d.workspaces, o) /\ m.roles = Without(d.roles, o)
      /\ m.bindings = Without(d.bindings, o) /\ m.variables = Without(d.variables, o)
      /\ m.accounts = Without(d.accounts, o) /\ m.apiKeys = Without(d.apiKeys, o)
      /\ m.orgs = d.orgs /\ m.next = d.next /\ m.admins = d.admins
  BY <1>2, <1>3 DEF Database
<1>6. \A T : Without(T, o) \subseteq T /\ \A x \in Without(T, o) : x.org # o
  BY DEF Without
<1>7. m \in Database
  <2>1. /\ m.archivals \subseteq ArchivalEvent /\ m.members \subseteq OrganizationMembership
        /\ m.teams \subseteq Team /\ m.teamMembers \subseteq TeamMembership
        /\ m.projects \subseteq Project /\ m.environments \subseteq Environment
        /\ m.workspaces \subseteq Workspace /\ m.roles \subseteq Role
        /\ m.bindings \subseteq RoleBinding /\ m.accounts \subseteq ServiceAccount
        /\ m.apiKeys \subseteq APIKey /\ m.variables \subseteq Variable
    BY <1>2, <1>5, DatabaseTypes DEF Without
  <2> HIDE DEF Without
  <2> QED
    BY <1>2, <1>3, <1>5, <2>1 DEF Database
<1>8. PICK S : S = {x \in d.orgs : x.id # o}
  OBVIOUS
<1>9. e = [m EXCEPT !.orgs = S]
  <2>1. \A table \in {m.archivals, m.members, m.teams, m.teamMembers,
                     m.projects, m.environments, m.workspaces, m.roles,
                     m.bindings, m.accounts, m.apiKeys, m.variables} :
          \A x \in table : x.org # o
    BY <1>5, <1>6
  <2>2. e = [m EXCEPT !.orgs = {x \in @ : x.id # o}]
    BY <1>4, <2>1 DEF Purged
  <2>3. S = {x \in m.orgs : x.id # o}
    BY <1>5, <1>8
  <2> QED
    BY <2>2, <2>3
<1>10. e \in Database /\ e.orgs = S /\ Fixes(m, e, {"orgs"}) /\ e.next = d.next
  <2>1. S \in SUBSET Organizations
    BY <1>2, <1>8, DatabaseTypes
  <2> QED
    BY <1>5, <1>7, <1>9, <2>1 DEF Database, Fixes, Table, OrgTable
<1>11. /\ e.archivals = Without(d.archivals, o) /\ e.members = Without(d.members, o)
       /\ e.teams = Without(d.teams, o) /\ e.teamMembers = Without(d.teamMembers, o)
       /\ e.projects = Without(d.projects, o) /\ e.environments = Without(d.environments, o)
       /\ e.workspaces = Without(d.workspaces, o) /\ e.roles = Without(d.roles, o)
       /\ e.bindings = Without(d.bindings, o) /\ e.variables = Without(d.variables, o)
       /\ e.accounts = Without(d.accounts, o) /\ e.apiKeys = Without(d.apiKeys, o)
  BY <1>5, <1>10, FixesAll
<1>12. ASSUME NEW t \in OrgTable PROVE e[t] = Without(d[t], o)
  BY <1>11 DEF OrgTable
<1>13. \A t \in OrgTable : \A x : x \in e[t] <=> x \in d[t] /\ x.org # o
  BY <1>12 DEF Without
<1>14. /\ \A x \in e.orgs : x \in d.orgs /\ x.id # o
       /\ \A x \in d.orgs : x.id # o => x \in e.orgs
  BY <1>8, <1>10
<1>15. /\ e.archivals \subseteq d.archivals
       /\ e.teams \subseteq d.teams /\ e.teamMembers \subseteq d.teamMembers
       /\ e.projects \subseteq d.projects /\ e.environments \subseteq d.environments
       /\ e.workspaces \subseteq d.workspaces /\ e.roles \subseteq d.roles
       /\ e.bindings \subseteq d.bindings /\ e.variables \subseteq d.variables
       /\ e.accounts \subseteq d.accounts
  BY <1>11 DEF Without
<1>16. Refines(d, e)
  <2>1. CASE Exists(d, o)
    <3>1. Touches(d, e, o)
      BY <1>13 DEF Touches
    <3>2. Removes(d, e, o)
      BY <1>8, <1>10, <1>13, <2>1, <3>1 DEF Removes
    <3> QED
      BY <3>2 DEF Refines
  <2>2. CASE ~Exists(d, o)
    <3>1. e.orgs = d.orgs
      BY <1>8, <1>10, <2>2 DEF Exists
    <3>2. ASSUME NEW t \in OrgTable PROVE e[t] = d[t]
      <4>1. \A x \in d[t] : x.org # o
        BY <1>1, <1>2, <2>2 DEF DbInv, WellFormed, ForeignKeys, Exists
      <4> QED
        BY <1>12, <4>1 DEF Without
    <3> QED
      BY <1>10, <3>1, <3>2 DEF Refines, Stays
  <2> QED
    BY <2>1, <2>2
<1>17. ForeignKeys(e)
  <2>1. ASSUME NEW t \in OrgTable, NEW x \in e[t], x.org # 0 PROVE \E y \in e.orgs : y.id = x.org
    <3>1. x \in d[t] /\ x.org # o
      BY <1>13
    <3>2. PICK y \in d.orgs : y.id = x.org
      BY <1>1, <2>1, <3>1 DEF DbInv, WellFormed, ForeignKeys
    <3> QED
      BY <1>14, <3>1, <3>2
  <2>2. ASSUME NEW b \in e.bindings PROVE \E r \in e.roles : r.id = b.role
    <3>1. b \in d.bindings /\ b.org # o
      BY <1>11 DEF Without
    <3>2. PICK r \in d.roles : r.id = b.role
      BY <1>1, <3>1 DEF DbInv, WellFormed, ForeignKeys
    <3>3. r.org # o
      BY <1>1, <1>2, <3>1, <3>2 DEF DbInv, WellFormed
    <3> QED
      BY <1>11, <3>2, <3>3 DEF Without
  <2>3. \A x \in e.teamMembers : RowExists(e.teams, x.org, x.team)
    BY <1>1, <1>11 DEF Without, DbInv, WellFormed, ForeignKeys, RowExists
  <2>4. ASSUME NEW x \in e.environments \cup e.workspaces
        PROVE  RowExists(e.projects, x.org, x.project)
    <3>1. x \in d.environments \cup d.workspaces /\ x.org # o
      BY <1>11 DEF Without
    <3> QED
      BY <1>1, <1>11, <3>1 DEF Without, DbInv, WellFormed, ForeignKeys, RowExists
  <2> QED
    BY <2>1, <2>2, <2>3, <2>4 DEF ForeignKeys
<1>18. UniqueKeys(e)
  BY <1>1, <1>15 DEF UniqueKeys, DbInv, WellFormed
<1>19. WellFormed(e)
  <2>1. BuiltinRoles \subseteq e.roles
    BY <1>1, <1>2, <1>11, BuiltinOfNone DEF DbInv, WellFormed, Without
  <2>2. \A x \in e.archivals : [id |-> x.org, archived |-> TRUE] \in e.orgs
    <3>1. ASSUME NEW x \in e.archivals PROVE [id |-> x.org, archived |-> TRUE] \in d.orgs /\ x.org # o
      BY <1>1, <1>11 DEF DbInv, WellFormed, Without
    <3> QED
      BY <1>14, <3>1
  <2> QED
    BY <1>1, <1>10, <1>15, <1>17, <1>18, <2>1, <2>2 DEF DbInv, WellFormed
<1>20. Owned(ow, e)
  BY <1>1, <1>10, <1>14, <1>15 DEF DbInv, Owned
<1>21. Extends(ow, d, ow, e) /\ VariablesLater(d, e)
  BY <1>2, <1>10, <1>15 DEF Extends, VariablesLater, SamePlace
<1>22. OrgsLater(d, e)
  <2>1. ASSUME NEW i \in Id, Exists(e, i)
        PROVE  /\ Exists(d, i)
               /\ ArchivedIn(d, i) => ArchivedIn(e, i)
               /\ DueIn(d, i) => DueIn(e, i)
    <3>1. Exists(d, i) /\ i # o
      BY <1>14, <2>1 DEF Exists
    <3>2. [id |-> i, archived |-> TRUE].id # o /\ [org |-> i, due |-> TRUE].org # o
      BY <3>1
    <3>3. ArchivedIn(d, i) => ArchivedIn(e, i)
      BY <1>14, <3>2 DEF ArchivedIn
    <3>4. DueIn(d, i) => DueIn(e, i)
      BY <1>11, <3>2 DEF DueIn, Without
    <3> QED
      BY <3>1, <3>3, <3>4
  <2> QED
    BY <2>1 DEF OrgsLater
<1> QED
  BY <1>1, <1>16, <1>19, <1>20, <1>21, <1>22 DEF Evolves, Becomes, DbInv

-----------------------------------------------------------------------------
(* Requests on their way.                                                   *)

OrgOp == {"createRole", "updateRole", "deleteBinding", "createAccount", "createKey", "revokeKey",
          "orgMembership", "orgOwner", "orgFirstAdmin", "archiveOrg", "deleteOrg", "addMember",
          "addMemberRole", "changeRole", "removeMember", "removeMembership", "blockMember",
          "unblockMember", "createTeam", "updateTeam", "deleteTeam", "deleteTeamRows",
          "addTeamMember", "removeTeamMember", "createProject", "deleteProject",
          "createEnvironment", "createWorkspace", "deleteWorkspace", "createVariable",
          "updateVariable", "deleteVariable"}

\* The requests that go on as another, and what they go on with.
CreationOp == {"orgMembership", "orgOwner", "orgFirstAdmin"}
MemberOp == {"addMember", "addMemberRole", "removeMember", "removeMembership"}
TeamOp == {"deleteTeam", "deleteTeamRows"}
Creation == [op : CreationOp, org : Id, user : User, first : BOOLEAN]
MemberChange == [op : MemberOp, org : Id, user : User]
TeamDeletion == [op : TeamOp, org : Id, id : Id]

\* What a request goes on with has its type; and what it names, though it may be
\* deleted by now, is of the Organization that the request was checked for.
RequestOK(ow, n, r) ==
    /\ r.op \in OrgOp => r.org \in Id
    /\ r.op \in {"createRole", "updateRole"} => r.permissions \in SUBSET Permission
    /\ r.op = "createBinding" => r.row \in NewBinding /\ BindingOwned(ow, r.row, n)
    /\ r.op = "createKey" => r.owner \in Id /\ r.scopes \in SUBSET Permission
    /\ r.op = "setAdmin" => r.user \in User /\ r.isAdmin \in BOOLEAN
    /\ r.op = "createOrg" => r.user \in User /\ r.first \in BOOLEAN
    /\ r.op \in CreationOp => r \in Creation
    /\ r.op \in MemberOp => r \in MemberChange
    /\ r.op = "changeRole" =>
          r.user \in Id /\ r.role \in {RoleOwner, RoleAdmin, RoleWrite, RoleRead}
    /\ r.op \in {"createTeam", "updateTeam"} => r.name \in Name
    /\ r.op \in TeamOp => r \in TeamDeletion
    /\ r.op = "addTeamMember" => r.id \in Id
    /\ r.op = "deleteProject" => r.project \in Id /\ Owns(ow, r.org, r.project, n)
    /\ r.op = "createEnvironment" => r.project \in Id
    /\ r.op = "createWorkspace" => r.project \in Id /\ r.environment \in Id \cup {0}
    /\ r.op = "deleteWorkspace" => r.workspace \in Id /\ Owns(ow, r.org, r.workspace, n)
    /\ r.op = "createVariable" =>
          /\ r.scopeType \in VariableScope /\ r.scope \in Id /\ r.key \in Key
          /\ r.secret \in BOOLEAN /\ ScopeOwned(ow, r, n)

\* A resolution that has come to some level knows that what applies and is
\* still there is of that level or a later one; and one that has ended is right.
Resolving == [op : {"resolve"}, workspace : Workspace, key : Key, level : 1..4,
              from : SUBSET Variable]
Honours(r) ==
    \A v \in Applicable(r.from, r.workspace, r.key) : (\E x \in r.to : x.id = v.id) =>
        /\ r.found # {}
        /\ \A x \in r.from \cup r.to :
              x.id \in r.found => Distance(x.scopeType) <= Distance(v.scopeType)
ResolveOK(d, r) ==
    /\ r.op = "resolve" =>
          /\ r \in Resolving
          /\ \A v \in r.from : v.id < d.next
          /\ \A v \in r.from : \A x \in d.variables : v.id = x.id => SamePlace(v, x)
          /\ \A v \in Applicable(r.from, r.workspace, r.key) : \A x \in d.variables :
                v.id = x.id => r.level <= Distance(v.scopeType)
    /\ r.op = "resolved" => Honours(r)

LEMMA RequestKept ==
    ASSUME NEW ow, NEW d, NEW w, NEW e, NEW r, d \in Database, e \in Database,
           Extends(ow, d, w, e), RequestOK(ow, d.next, r)
    PROVE  RequestOK(w, e.next, r)
<1>1. d.next \in Nat /\ e.next \in Nat /\ d.next <= e.next
  BY DatabaseTypes DEF Extends
<1>2. /\ \A o : \A i \in Nat : Owns(ow, o, i, d.next) => Owns(w, o, i, e.next)
      /\ \A x : x.scope \in Nat /\ ScopeOwned(ow, x, d.next) => ScopeOwned(w, x, e.next)
  BY <1>1, StillOwned DEF Extends
<1>3. Id \subseteq Nat
  BY DEF Id
<1>4. ASSUME r.op = "createBinding" PROVE BindingOwned(w, r.row, e.next)
  <2>1. r.row \in NewBinding /\ BindingOwned(ow, r.row, d.next)
    BY <1>4 DEF RequestOK
  <2>2. r.row.role \in Nat /\ r.row.scope \in Nat
    BY <1>3, <2>1 DEF NewBinding
  <2> QED
    BY <1>1, <1>2, <2>1, <2>2 DEF BindingOwned, Extends
<1>5. ASSUME r.op = "deleteProject" PROVE Owns(w, r.org, r.project, e.next)
  BY <1>2, <1>3, <1>5 DEF RequestOK
<1>6. ASSUME r.op = "deleteWorkspace" PROVE Owns(w, r.org, r.workspace, e.next)
  BY <1>2, <1>3, <1>6 DEF RequestOK
<1>7. ASSUME r.op = "createVariable" PROVE ScopeOwned(w, r, e.next)
  BY <1>2, <1>3, <1>7 DEF RequestOK
<1> QED
  BY <1>4, <1>5, <1>6, <1>7 DEF RequestOK

LEMMA ResolveKept ==
    ASSUME NEW d, NEW e, NEW r, d \in Database, e \in Database, d.next <= e.next,
           VariablesLater(d, e), ResolveOK(d, r)
    PROVE  ResolveOK(e, r)
<1>1. SUFFICES ASSUME r.op = "resolve"
               PROVE  /\ r \in Resolving
                      /\ \A v \in r.from : v.id < e.next
                      /\ \A v \in r.from : \A x \in e.variables : v.id = x.id => SamePlace(v, x)
                      /\ \A v \in Applicable(r.from, r.workspace, r.key) : \A x \in e.variables :
                            v.id = x.id => r.level <= Distance(v.scopeType)
  BY DEF ResolveOK
<1>2. /\ r \in Resolving /\ \A v \in r.from : v.id < d.next
      /\ \A v \in r.from : \A x \in d.variables : v.id = x.id => SamePlace(v, x)
      /\ \A v \in Applicable(r.from, r.workspace, r.key) : \A x \in d.variables :
            v.id = x.id => r.level <= Distance(v.scopeType)
  BY <1>1 DEF ResolveOK
<1>3. /\ d.next \in Nat /\ e.next \in Nat
      /\ \A v \in r.from : v.id \in Nat
      /\ \A x \in e.variables : x.id \in Nat
  BY <1>2, DatabaseTypes DEF Resolving, Variable, Id
<1>4. \A v \in r.from : v.id < e.next
  BY <1>2, <1>3
<1>5. ASSUME NEW v \in r.from, NEW x \in e.variables, v.id = x.id
      PROVE  \E y \in d.variables : SamePlace(y, x)
  BY <1>2, <1>3, <1>5 DEF VariablesLater
<1>6. \A v \in r.from : \A x \in e.variables : v.id = x.id => SamePlace(v, x)
  BY <1>2, <1>5 DEF SamePlace
<1>7. \A v \in Applicable(r.from, r.workspace, r.key) : \A x \in e.variables :
         v.id = x.id => r.level <= Distance(v.scopeType)
  BY <1>2, <1>5 DEF SamePlace, Applicable
<1> QED
  BY <1>2, <1>4, <1>6, <1>7

\* What a step of a request has to do with it.
Ready(ow, q) ==
    /\ DbInv(ow, db) /\ q \in Request
    /\ RequestOK(ow, db.next, request[q]) /\ ResolveOK(db, request[q])
Proceeds(ow, q) ==
    /\ Evolves(ow, db, db')
    /\ \E r : /\ request' = [request EXCEPT ![q] = r]
              /\ RequestOK(ow, db.next, r) /\ ResolveOK(db, r)
    /\ overlap' = overlap \/ overlap' \in BOOLEAN

LEMMA Asked ==
    ASSUME NEW ow, NEW q, Ready(ow, q), NEW r, Checked(q, r), RequestOK(ow, db.next, r),
           ResolveOK(db, r)
    PROVE  Proceeds(ow, q)
BY NothingHappens DEF Ready, Checked, Proceeds

LEMMA Continued ==
    ASSUME NEW ow, NEW q, NEW op, NEW r, Goes(q, op, r), Evolves(ow, db, db'),
           RequestOK(ow, db.next, r), r.op \notin {"resolve", "resolved"}
    PROVE  Proceeds(ow, q)
BY DEF Goes, Proceeds, ResolveOK

LEMMA Answered ==
    ASSUME NEW ow, NEW q, NEW op, Answers(q, op), Evolves(ow, db, db')
    PROVE  Proceeds(ow, q)
<1>1. Ended.op = "ended"
  BY DEF Ended
<1>2. RequestOK(ow, db.next, Ended)
  BY <1>1 DEF RequestOK, OrgOp, CreationOp, MemberOp, TeamOp
<1> QED
  BY <1>1, <1>2, Continued DEF Answers

\* The rows that requests are about have ids.
LEMMA RowIds ==
    ASSUME NEW ow, DbInv(ow, db)
    PROVE  /\ \A o \in Organization : o \in Id /\ OrgExists(o)
           /\ \A x \in db.roles : x.id \in Id /\ (x.org # 0 => x.org \in Id)
           /\ \A x \in db.bindings : x.org \in Id
           /\ \A x \in db.apiKeys : x.org \in Id
           /\ \A x \in db.accounts : x.org \in Id /\ x.id \in Id
           /\ \A x \in db.members : x.org \in Id /\ x.user \in User
           /\ \A x \in db.teams : x.org \in Id /\ x.id \in Id
           /\ \A x \in db.teamMembers : x.org \in Id
           /\ \A x \in db.projects : x.org \in Id /\ x.id \in Id
           /\ \A x \in db.environments : x.org \in Id /\ x.id \in Id /\ x.project \in Id
           /\ \A x \in db.workspaces : x.org \in Id /\ x.id \in Id /\ x.project \in Id
           /\ \A x \in db.variables : x.org \in Id
<1>1. db \in Database
  BY DEF DbInv, WellFormed
<1>2. \A o \in Organization : o \in Id /\ OrgExists(o)
  BY <1>1, DatabaseTypes DEF Organization, Organizations, OrgExists
<1>3. /\ \A x \in db.roles : x.id \in Id /\ (x.org # 0 => x.org \in Id)
      /\ \A x \in db.bindings : x.org \in Id
      /\ \A x \in db.apiKeys : x.org \in Id
      /\ \A x \in db.accounts : x.org \in Id /\ x.id \in Id
  BY <1>1, DatabaseTypes DEF Role, RoleBinding, APIKey, ServiceAccount
<1>4. /\ \A x \in db.members : x.org \in Id /\ x.user \in User
      /\ \A x \in db.teams : x.org \in Id /\ x.id \in Id
      /\ \A x \in db.teamMembers : x.org \in Id
      /\ \A x \in db.projects : x.org \in Id /\ x.id \in Id
  BY <1>1, DatabaseTypes DEF OrganizationMembership, Team, TeamMembership, Project
<1>5. /\ \A x \in db.environments : x.org \in Id /\ x.id \in Id /\ x.project \in Id
      /\ \A x \in db.workspaces : x.org \in Id /\ x.id \in Id /\ x.project \in Id
      /\ \A x \in db.variables : x.org \in Id
  BY <1>1, DatabaseTypes DEF Environment, Workspace, Variable
<1> QED
  BY <1>2, <1>3, <1>4, <1>5

LEMMA CreateRoleProceeds ==
    ASSUME NEW ow, NEW q, Ready(ow, q), CreateRole(q)
    PROVE  Proceeds(ow, q)
<1>1. ASSUME NEW o \in Organization, NEW p \in RolePermissions,
             Checked(q, [op |-> "createRole", org |-> o, permissions |-> p])
      PROVE  Proceeds(ow, q)
  <2>1. PICK r : r = [op |-> "createRole", org |-> o, permissions |-> p]
    OBVIOUS
  <2>2. o \in Id /\ p \in SUBSET Permission
    BY <1>1, RowIds, AccessAssumption DEF Ready
  <2>3. RequestOK(ow, db.next, r) /\ ResolveOK(db, r)
    BY <2>1, <2>2 DEF RequestOK, ResolveOK, OrgOp, CreationOp, MemberOp, TeamOp
  <2> QED
    BY <1>1, <2>1, <2>3, Asked
<1>2. ASSUME Answers(q, "createRole"), InsertRole(request[q].org, request[q].permissions) PROVE Proceeds(ow, q)
  <2>1. DbInv(ow, db) /\ request[q].org \in Id /\ request[q].permissions \in SUBSET Permission
    BY <1>2 DEF Ready, RequestOK, OrgOp, Answers, Goes
  <2>2. Evolves(ow, db, db')
    BY <1>2, <2>1, InsertRoleStep
  <2> QED
    BY <1>2, <2>2, Answered
<1> QED
  BY <1>1, <1>2 DEF CreateRole

LEMMA UpdateRoleProceeds ==
    ASSUME NEW ow, NEW q, Ready(ow, q), UpdateRole(q)
    PROVE  Proceeds(ow, q)
<1>1. ASSUME NEW x \in db.roles, NEW p \in RolePermissions, x.org # 0,
             Checked(q, [op |-> "updateRole", org |-> x.org, id |-> x.id, permissions |-> p])
      PROVE  Proceeds(ow, q)
  <2>1. PICK r : r = [op |-> "updateRole", org |-> x.org, id |-> x.id, permissions |-> p]
    OBVIOUS
  <2>2. x.org \in Id /\ p \in SUBSET Permission
    BY <1>1, RowIds, AccessAssumption DEF Ready
  <2>3. RequestOK(ow, db.next, r) /\ ResolveOK(db, r)
    BY <2>1, <2>2 DEF RequestOK, ResolveOK, OrgOp, CreationOp, MemberOp, TeamOp
  <2> QED
    BY <1>1, <2>1, <2>3, Asked
<1>2. ASSUME Answers(q, "updateRole"), UpdateRoleRow(request[q].org, request[q].id, request[q].permissions) PROVE Proceeds(ow, q)
  <2>1. DbInv(ow, db) /\ request[q].org \in Id /\ request[q].permissions \in SUBSET Permission
    BY <1>2 DEF Ready, RequestOK, OrgOp, Answers, Goes
  <2>2. Evolves(ow, db, db')
    BY <1>2, <2>1, UpdateRoleRowStep
  <2> QED
    BY <1>2, <2>2, Answered
<1> QED
  BY <1>1, <1>2 DEF UpdateRole

LEMMA DeleteRoleBindingProceeds ==
    ASSUME NEW ow, NEW q, Ready(ow, q), DeleteRoleBinding(q)
    PROVE  Proceeds(ow, q)
<1>1. ASSUME NEW b \in db.bindings,
             Checked(q, [op |-> "deleteBinding", org |-> b.org, id |-> b.id])
      PROVE  Proceeds(ow, q)
  <2>1. PICK r : r = [op |-> "deleteBinding", org |-> b.org, id |-> b.id]
    OBVIOUS
  <2>2. b.org \in Id
    BY <1>1, RowIds DEF Ready
  <2>3. RequestOK(ow, db.next, r) /\ ResolveOK(db, r)
    BY <2>1, <2>2 DEF RequestOK, ResolveOK, OrgOp, CreationOp, MemberOp, TeamOp
  <2> QED
    BY <1>1, <2>1, <2>3, Asked
<1>2. ASSUME Answers(q, "deleteBinding"), DeleteBindingRow(request[q].id, request[q].org) PROVE Proceeds(ow, q)
  <2>1. DbInv(ow, db) /\ request[q].org \in Id
    BY <1>2 DEF Ready, RequestOK, OrgOp, Answers, Goes
  <2>2. Evolves(ow, db, db')
    BY <1>2, <2>1, DeleteBindingRowStep
  <2> QED
    BY <1>2, <2>2, Answered
<1> QED
  BY <1>1, <1>2 DEF DeleteRoleBinding

LEMMA CreateServiceAccountProceeds ==
    ASSUME NEW ow, NEW q, Ready(ow, q), CreateServiceAccount(q)
    PROVE  Proceeds(ow, q)
<1>1. ASSUME NEW o \in Organization,
             Checked(q, [op |-> "createAccount", org |-> o])
      PROVE  Proceeds(ow, q)
  <2>1. PICK r : r = [op |-> "createAccount", org |-> o]
    OBVIOUS
  <2>2. o \in Id
    BY <1>1, RowIds DEF Ready
  <2>3. RequestOK(ow, db.next, r) /\ ResolveOK(db, r)
    BY <2>1, <2>2 DEF RequestOK, ResolveOK, OrgOp, CreationOp, MemberOp, TeamOp
  <2> QED
    BY <1>1, <2>1, <2>3, Asked
<1>2. ASSUME Answers(q, "createAccount"), InsertServiceAccount(request[q].org) PROVE Proceeds(ow, q)
  <2>1. DbInv(ow, db) /\ request[q].org \in Id
    BY <1>2 DEF Ready, RequestOK, OrgOp, Answers, Goes
  <2>2. Evolves(ow, db, db')
    BY <1>2, <2>1, InsertServiceAccountStep
  <2> QED
    BY <1>2, <2>2, Answered
<1> QED
  BY <1>1, <1>2 DEF CreateServiceAccount

LEMMA CreateAPIKeyProceeds ==
    ASSUME NEW ow, NEW q, Ready(ow, q), CreateAPIKey(q)
    PROVE  Proceeds(ow, q)
<1>1. ASSUME NEW a \in db.accounts, NEW s \in KeyScopes,
             Checked(q, [op |-> "createKey", org |-> a.org, owner |-> a.id, scopes |-> s])
      PROVE  Proceeds(ow, q)
  <2>1. PICK r : r = [op |-> "createKey", org |-> a.org, owner |-> a.id, scopes |-> s]
    OBVIOUS
  <2>2. a.org \in Id /\ a.id \in Id /\ s \in SUBSET Permission
    BY <1>1, RowIds, AccessAssumption DEF Ready
  <2>3. RequestOK(ow, db.next, r) /\ ResolveOK(db, r)
    BY <2>1, <2>2 DEF RequestOK, ResolveOK, OrgOp, CreationOp, MemberOp, TeamOp
  <2> QED
    BY <1>1, <2>1, <2>3, Asked
<1>2. ASSUME Answers(q, "createKey"), InsertAPIKey(request[q].org, request[q].owner, request[q].scopes) PROVE Proceeds(ow, q)
  <2>1. DbInv(ow, db) /\ request[q].org \in Id /\ request[q].owner \in Id
        /\ request[q].scopes \in SUBSET Permission
    BY <1>2 DEF Ready, RequestOK, OrgOp, Answers, Goes
  <2>2. Evolves(ow, db, db')
    BY <1>2, <2>1, InsertAPIKeyStep
  <2> QED
    BY <1>2, <2>2, Answered
<1> QED
  BY <1>1, <1>2 DEF CreateAPIKey

LEMMA RevokeAPIKeyProceeds ==
    ASSUME NEW ow, NEW q, Ready(ow, q), RevokeAPIKey(q)
    PROVE  Proceeds(ow, q)
<1>1. ASSUME NEW k \in db.apiKeys,
             Checked(q, [op |-> "revokeKey", org |-> k.org, id |-> k.id])
      PROVE  Proceeds(ow, q)
  <2>1. PICK r : r = [op |-> "revokeKey", org |-> k.org, id |-> k.id]
    OBVIOUS
  <2>2. k.org \in Id
    BY <1>1, RowIds DEF Ready
  <2>3. RequestOK(ow, db.next, r) /\ ResolveOK(db, r)
    BY <2>1, <2>2 DEF RequestOK, ResolveOK, OrgOp, CreationOp, MemberOp, TeamOp
  <2> QED
    BY <1>1, <2>1, <2>3, Asked
<1>2. ASSUME Answers(q, "revokeKey"), RevokeRow(request[q].org, request[q].id) PROVE Proceeds(ow, q)
  <2>1. DbInv(ow, db) /\ request[q].org \in Id
    BY <1>2 DEF Ready, RequestOK, OrgOp, Answers, Goes
  <2>2. Evolves(ow, db, db')
    BY <1>2, <2>1, RevokeRowStep
  <2> QED
    BY <1>2, <2>2, Answered
<1> QED
  BY <1>1, <1>2 DEF RevokeAPIKey

LEMMA SetPlatformAdminProceeds ==
    ASSUME NEW ow, NEW q, Ready(ow, q), SetPlatformAdmin(q)
    PROVE  Proceeds(ow, q)
<1>1. ASSUME NEW u \in User, NEW b \in BOOLEAN,
             Checked(q, [op |-> "setAdmin", user |-> u, isAdmin |-> b])
      PROVE  Proceeds(ow, q)
  <2>1. PICK r : r = [op |-> "setAdmin", user |-> u, isAdmin |-> b]
    OBVIOUS
  <2>2. u \in User /\ b \in BOOLEAN
    BY <1>1, RowIds DEF Ready
  <2>3. RequestOK(ow, db.next, r) /\ ResolveOK(db, r)
    BY <2>1, <2>2 DEF RequestOK, ResolveOK, OrgOp, CreationOp, MemberOp, TeamOp
  <2> QED
    BY <1>1, <2>1, <2>3, Asked
<1>2. ASSUME Answers(q, "setAdmin"), SetAdmin(request[q].user, request[q].isAdmin) PROVE Proceeds(ow, q)
  <2>1. DbInv(ow, db) /\ request[q].user \in User /\ request[q].isAdmin \in BOOLEAN
    BY <1>2 DEF Ready, RequestOK, OrgOp, Answers, Goes
  <2>2. Evolves(ow, db, db')
    BY <1>2, <2>1, SetAdminStep
  <2> QED
    BY <1>2, <2>2, Answered
<1> QED
  BY <1>1, <1>2 DEF SetPlatformAdmin

LEMMA ArchiveOrganizationProceeds ==
    ASSUME NEW ow, NEW q, Ready(ow, q), ArchiveOrganization(q)
    PROVE  Proceeds(ow, q)
<1>1. ASSUME NEW o \in Organization,
             Checked(q, [op |-> "archiveOrg", org |-> o])
      PROVE  Proceeds(ow, q)
  <2>1. PICK r : r = [op |-> "archiveOrg", org |-> o]
    OBVIOUS
  <2>2. o \in Id
    BY <1>1, RowIds DEF Ready
  <2>3. RequestOK(ow, db.next, r) /\ ResolveOK(db, r)
    BY <2>1, <2>2 DEF RequestOK, ResolveOK, OrgOp, CreationOp, MemberOp, TeamOp
  <2> QED
    BY <1>1, <2>1, <2>3, Asked
<1>2. ASSUME Answers(q, "archiveOrg"), Archive(request[q].org) PROVE Proceeds(ow, q)
  <2>1. DbInv(ow, db) /\ request[q].org \in Id
    BY <1>2 DEF Ready, RequestOK, OrgOp, Answers, Goes
  <2>2. Evolves(ow, db, db')
    BY <1>2, <2>1, ArchiveStep
  <2> QED
    BY <1>2, <2>2, Answered
<1> QED
  BY <1>1, <1>2 DEF ArchiveOrganization

LEMMA DeleteOrganizationProceeds ==
    ASSUME NEW ow, NEW q, Ready(ow, q), DeleteOrganization(q)
    PROVE  Proceeds(ow, q)
<1>1. ASSUME NEW o \in Organization,
             Checked(q, [op |-> "deleteOrg", org |-> o])
      PROVE  Proceeds(ow, q)
  <2>1. PICK r : r = [op |-> "deleteOrg", org |-> o]
    OBVIOUS
  <2>2. o \in Id
    BY <1>1, RowIds DEF Ready
  <2>3. RequestOK(ow, db.next, r) /\ ResolveOK(db, r)
    BY <2>1, <2>2 DEF RequestOK, ResolveOK, OrgOp, CreationOp, MemberOp, TeamOp
  <2> QED
    BY <1>1, <2>1, <2>3, Asked
<1>2. ASSUME Answers(q, "deleteOrg"), PurgeOrganization(request[q].org) PROVE Proceeds(ow, q)
  <2>1. DbInv(ow, db) /\ request[q].org \in Id
    BY <1>2 DEF Ready, RequestOK, OrgOp, Answers, Goes
  <2>2. Evolves(ow, db, db')
    BY <1>2, <2>1, PurgeOrganizationStep
  <2> QED
    BY <1>2, <2>2, Answered
<1> QED
  BY <1>1, <1>2 DEF DeleteOrganization

LEMMA BlockMemberProceeds ==
    ASSUME NEW ow, NEW q, Ready(ow, q), BlockMember(q)
    PROVE  Proceeds(ow, q)
<1>1. ASSUME NEW m \in db.members,
             Checked(q, [op |-> "blockMember", org |-> m.org, user |-> m.user])
      PROVE  Proceeds(ow, q)
  <2>1. PICK r : r = [op |-> "blockMember", org |-> m.org, user |-> m.user]
    OBVIOUS
  <2>2. m.org \in Id
    BY <1>1, RowIds DEF Ready
  <2>3. RequestOK(ow, db.next, r) /\ ResolveOK(db, r)
    BY <2>1, <2>2 DEF RequestOK, ResolveOK, OrgOp, CreationOp, MemberOp, TeamOp
  <2> QED
    BY <1>1, <2>1, <2>3, Asked
<1>2. ASSUME Answers(q, "blockMember"), SetBlocked(request[q].org, request[q].user, TRUE) PROVE Proceeds(ow, q)
  <2>1. DbInv(ow, db) /\ request[q].org \in Id
    BY <1>2 DEF Ready, RequestOK, OrgOp, Answers, Goes
  <2>2. Evolves(ow, db, db')
    BY <1>2, <2>1, SetBlockedStep
  <2> QED
    BY <1>2, <2>2, Answered
<1> QED
  BY <1>1, <1>2 DEF BlockMember

LEMMA UnblockMemberProceeds ==
    ASSUME NEW ow, NEW q, Ready(ow, q), UnblockMember(q)
    PROVE  Proceeds(ow, q)
<1>1. ASSUME NEW m \in db.members,
             Checked(q, [op |-> "unblockMember", org |-> m.org, user |-> m.user])
      PROVE  Proceeds(ow, q)
  <2>1. PICK r : r = [op |-> "unblockMember", org |-> m.org, user |-> m.user]
    OBVIOUS
  <2>2. m.org \in Id
    BY <1>1, RowIds DEF Ready
  <2>3. RequestOK(ow, db.next, r) /\ ResolveOK(db, r)
    BY <2>1, <2>2 DEF RequestOK, ResolveOK, OrgOp, CreationOp, MemberOp, TeamOp
  <2> QED
    BY <1>1, <2>1, <2>3, Asked
<1>2. ASSUME Answers(q, "unblockMember"), SetBlocked(request[q].org, request[q].user, FALSE) PROVE Proceeds(ow, q)
  <2>1. DbInv(ow, db) /\ request[q].org \in Id
    BY <1>2 DEF Ready, RequestOK, OrgOp, Answers, Goes
  <2>2. Evolves(ow, db, db')
    BY <1>2, <2>1, SetBlockedStep
  <2> QED
    BY <1>2, <2>2, Answered
<1> QED
  BY <1>1, <1>2 DEF UnblockMember

LEMMA CreateTeamProceeds ==
    ASSUME NEW ow, NEW q, Ready(ow, q), CreateTeam(q)
    PROVE  Proceeds(ow, q)
<1>1. ASSUME NEW o \in Organization, NEW n \in Name,
             Checked(q, [op |-> "createTeam", org |-> o, name |-> n])
      PROVE  Proceeds(ow, q)
  <2>1. PICK r : r = [op |-> "createTeam", org |-> o, name |-> n]
    OBVIOUS
  <2>2. o \in Id
    BY <1>1, RowIds DEF Ready
  <2>3. RequestOK(ow, db.next, r) /\ ResolveOK(db, r)
    BY <2>1, <2>2 DEF RequestOK, ResolveOK, OrgOp, CreationOp, MemberOp, TeamOp
  <2> QED
    BY <1>1, <2>1, <2>3, Asked
<1>2. ASSUME Answers(q, "createTeam"), InsertTeam(request[q].org, request[q].name) PROVE Proceeds(ow, q)
  <2>1. DbInv(ow, db) /\ request[q].org \in Id /\ request[q].name \in Name
    BY <1>2 DEF Ready, RequestOK, OrgOp, Answers, Goes
  <2>2. Evolves(ow, db, db')
    BY <1>2, <2>1, InsertTeamStep
  <2> QED
    BY <1>2, <2>2, Answered
<1> QED
  BY <1>1, <1>2 DEF CreateTeam

LEMMA UpdateTeamProceeds ==
    ASSUME NEW ow, NEW q, Ready(ow, q), UpdateTeam(q)
    PROVE  Proceeds(ow, q)
<1>1. ASSUME NEW t \in db.teams, NEW n \in Name,
             Checked(q, [op |-> "updateTeam", org |-> t.org, id |-> t.id, name |-> n])
      PROVE  Proceeds(ow, q)
  <2>1. PICK r : r = [op |-> "updateTeam", org |-> t.org, id |-> t.id, name |-> n]
    OBVIOUS
  <2>2. t.org \in Id
    BY <1>1, RowIds DEF Ready
  <2>3. RequestOK(ow, db.next, r) /\ ResolveOK(db, r)
    BY <2>1, <2>2 DEF RequestOK, ResolveOK, OrgOp, CreationOp, MemberOp, TeamOp
  <2> QED
    BY <1>1, <2>1, <2>3, Asked
<1>2. ASSUME Answers(q, "updateTeam"), RenameTeam(request[q].org, request[q].id, request[q].name) PROVE Proceeds(ow, q)
  <2>1. DbInv(ow, db) /\ request[q].org \in Id /\ request[q].name \in Name
    BY <1>2 DEF Ready, RequestOK, OrgOp, Answers, Goes
  <2>2. Evolves(ow, db, db')
    BY <1>2, <2>1, RenameTeamStep
  <2> QED
    BY <1>2, <2>2, Answered
<1> QED
  BY <1>1, <1>2 DEF UpdateTeam

LEMMA AddTeamMemberProceeds ==
    ASSUME NEW ow, NEW q, Ready(ow, q), AddTeamMember(q)
    PROVE  Proceeds(ow, q)
<1>1. ASSUME NEW t \in db.teams, NEW s \in Members(t.org),
             Checked(q, [op |-> "addTeamMember", org |-> t.org, id |-> t.id, user |-> s])
      PROVE  Proceeds(ow, q)
  <2>1. PICK r : r = [op |-> "addTeamMember", org |-> t.org, id |-> t.id, user |-> s]
    OBVIOUS
  <2>2. t.org \in Id /\ t.id \in Id
    BY <1>1, RowIds DEF Ready
  <2>3. RequestOK(ow, db.next, r) /\ ResolveOK(db, r)
    BY <2>1, <2>2 DEF RequestOK, ResolveOK, OrgOp, CreationOp, MemberOp, TeamOp
  <2> QED
    BY <1>1, <2>1, <2>3, Asked
<1>2. ASSUME Answers(q, "addTeamMember"), InsertTeamMember(request[q].org, request[q].id, request[q].user) PROVE Proceeds(ow, q)
  <2>1. DbInv(ow, db) /\ request[q].org \in Id /\ request[q].id \in Id
    BY <1>2 DEF Ready, RequestOK, OrgOp, Answers, Goes
  <2>2. Evolves(ow, db, db')
    BY <1>2, <2>1, InsertTeamMemberStep
  <2> QED
    BY <1>2, <2>2, Answered
<1> QED
  BY <1>1, <1>2 DEF AddTeamMember

LEMMA RemoveTeamMemberProceeds ==
    ASSUME NEW ow, NEW q, Ready(ow, q), RemoveTeamMember(q)
    PROVE  Proceeds(ow, q)
<1>1. ASSUME NEW t \in db.teamMembers,
             Checked(q, [op |-> "removeTeamMember", org |-> t.org, id |-> t.team, user |-> t.user])
      PROVE  Proceeds(ow, q)
  <2>1. PICK r : r = [op |-> "removeTeamMember", org |-> t.org, id |-> t.team, user |-> t.user]
    OBVIOUS
  <2>2. t.org \in Id
    BY <1>1, RowIds DEF Ready
  <2>3. RequestOK(ow, db.next, r) /\ ResolveOK(db, r)
    BY <2>1, <2>2 DEF RequestOK, ResolveOK, OrgOp, CreationOp, MemberOp, TeamOp
  <2> QED
    BY <1>1, <2>1, <2>3, Asked
<1>2. ASSUME Answers(q, "removeTeamMember"), DeleteTeamMember(request[q].org, request[q].id, request[q].user) PROVE Proceeds(ow, q)
  <2>1. DbInv(ow, db) /\ request[q].org \in Id
    BY <1>2 DEF Ready, RequestOK, OrgOp, Answers, Goes
  <2>2. Evolves(ow, db, db')
    BY <1>2, <2>1, DeleteTeamMemberStep
  <2> QED
    BY <1>2, <2>2, Answered
<1> QED
  BY <1>1, <1>2 DEF RemoveTeamMember

LEMMA CreateProjectProceeds ==
    ASSUME NEW ow, NEW q, Ready(ow, q), CreateProject(q)
    PROVE  Proceeds(ow, q)
<1>1. ASSUME NEW o \in Organization,
             Checked(q, [op |-> "createProject", org |-> o])
      PROVE  Proceeds(ow, q)
  <2>1. PICK r : r = [op |-> "createProject", org |-> o]
    OBVIOUS
  <2>2. o \in Id
    BY <1>1, RowIds DEF Ready
  <2>3. RequestOK(ow, db.next, r) /\ ResolveOK(db, r)
    BY <2>1, <2>2 DEF RequestOK, ResolveOK, OrgOp, CreationOp, MemberOp, TeamOp
  <2> QED
    BY <1>1, <2>1, <2>3, Asked
<1>2. ASSUME Answers(q, "createProject"), InsertProject(request[q].org) PROVE Proceeds(ow, q)
  <2>1. DbInv(ow, db) /\ request[q].org \in Id
    BY <1>2 DEF Ready, RequestOK, OrgOp, Answers, Goes
  <2>2. Evolves(ow, db, db')
    BY <1>2, <2>1, InsertProjectStep
  <2> QED
    BY <1>2, <2>2, Answered
<1> QED
  BY <1>1, <1>2 DEF CreateProject

LEMMA DeleteProjectProceeds ==
    ASSUME NEW ow, NEW q, Ready(ow, q), DeleteProject(q)
    PROVE  Proceeds(ow, q)
<1>1. ASSUME NEW p \in db.projects,
             Checked(q, [op |-> "deleteProject", org |-> p.org, project |-> p.id])
      PROVE  Proceeds(ow, q)
  <2>1. PICK r : r = [op |-> "deleteProject", org |-> p.org, project |-> p.id]
    OBVIOUS
  <2>2. p.org \in Id /\ p.id \in Id /\ Owns(ow, p.org, p.id, db.next)
    BY <1>1, RowIds DEF Ready, DbInv, Owned
  <2>3. RequestOK(ow, db.next, r) /\ ResolveOK(db, r)
    BY <2>1, <2>2 DEF RequestOK, ResolveOK, OrgOp, CreationOp, MemberOp, TeamOp
  <2> QED
    BY <1>1, <2>1, <2>3, Asked
<1>2. ASSUME Answers(q, "deleteProject"), PurgeProject(request[q].org, request[q].project) PROVE Proceeds(ow, q)
  <2>1. DbInv(ow, db) /\ request[q].org \in Id /\ request[q].project \in Id
        /\ Owns(ow, request[q].org, request[q].project, db.next)
    BY <1>2 DEF Ready, RequestOK, OrgOp, Answers, Goes
  <2>2. Evolves(ow, db, db')
    BY <1>2, <2>1, PurgeProjectStep
  <2> QED
    BY <1>2, <2>2, Answered
<1> QED
  BY <1>1, <1>2 DEF DeleteProject

LEMMA CreateEnvironmentProceeds ==
    ASSUME NEW ow, NEW q, Ready(ow, q), CreateEnvironment(q)
    PROVE  Proceeds(ow, q)
<1>1. ASSUME NEW p \in db.projects,
             Checked(q, [op |-> "createEnvironment", org |-> p.org, project |-> p.id])
      PROVE  Proceeds(ow, q)
  <2>1. PICK r : r = [op |-> "createEnvironment", org |-> p.org, project |-> p.id]
    OBVIOUS
  <2>2. p.org \in Id /\ p.id \in Id
    BY <1>1, RowIds DEF Ready
  <2>3. RequestOK(ow, db.next, r) /\ ResolveOK(db, r)
    BY <2>1, <2>2 DEF RequestOK, ResolveOK, OrgOp, CreationOp, MemberOp, TeamOp
  <2> QED
    BY <1>1, <2>1, <2>3, Asked
<1>2. ASSUME Answers(q, "createEnvironment"), InsertEnvironment(request[q].org, request[q].project) PROVE Proceeds(ow, q)
  <2>1. DbInv(ow, db) /\ request[q].org \in Id /\ request[q].project \in Id
    BY <1>2 DEF Ready, RequestOK, OrgOp, Answers, Goes
  <2>2. Evolves(ow, db, db')
    BY <1>2, <2>1, InsertEnvironmentStep
  <2> QED
    BY <1>2, <2>2, Answered
<1> QED
  BY <1>1, <1>2 DEF CreateEnvironment

LEMMA CreateWorkspaceProceeds ==
    ASSUME NEW ow, NEW q, Ready(ow, q), CreateWorkspace(q)
    PROVE  Proceeds(ow, q)
<1>1. ASSUME NEW p \in db.projects, NEW e \in {0} \cup {x.id : x \in db.environments},
             Checked(q, [op |-> "createWorkspace", org |-> p.org, project |-> p.id,
                          environment |-> e])
      PROVE  Proceeds(ow, q)
  <2>1. PICK r : r = [op |-> "createWorkspace", org |-> p.org, project |-> p.id,
                          environment |-> e]
    OBVIOUS
  <2>2. p.org \in Id /\ p.id \in Id /\ e \in Id \cup {0}
    BY <1>1, RowIds DEF Ready
  <2>3. RequestOK(ow, db.next, r) /\ ResolveOK(db, r)
    BY <2>1, <2>2 DEF RequestOK, ResolveOK, OrgOp, CreationOp, MemberOp, TeamOp
  <2> QED
    BY <1>1, <2>1, <2>3, Asked
<1>2. ASSUME Answers(q, "createWorkspace"), InsertWorkspace(request[q].org, request[q].project, request[q].environment) PROVE Proceeds(ow, q)
  <2>1. DbInv(ow, db) /\ request[q].org \in Id /\ request[q].project \in Id
        /\ request[q].environment \in Id \cup {0}
    BY <1>2 DEF Ready, RequestOK, OrgOp, Answers, Goes
  <2>2. Evolves(ow, db, db')
    BY <1>2, <2>1, InsertWorkspaceStep
  <2> QED
    BY <1>2, <2>2, Answered
<1> QED
  BY <1>1, <1>2 DEF CreateWorkspace

LEMMA DeleteWorkspaceProceeds ==
    ASSUME NEW ow, NEW q, Ready(ow, q), DeleteWorkspace(q)
    PROVE  Proceeds(ow, q)
<1>1. ASSUME NEW w \in db.workspaces,
             Checked(q, [op |-> "deleteWorkspace", org |-> w.org, workspace |-> w.id])
      PROVE  Proceeds(ow, q)
  <2>1. PICK r : r = [op |-> "deleteWorkspace", org |-> w.org, workspace |-> w.id]
    OBVIOUS
  <2>2. w.org \in Id /\ w.id \in Id /\ Owns(ow, w.org, w.id, db.next)
    BY <1>1, RowIds DEF Ready, DbInv, Owned
  <2>3. RequestOK(ow, db.next, r) /\ ResolveOK(db, r)
    BY <2>1, <2>2 DEF RequestOK, ResolveOK, OrgOp, CreationOp, MemberOp, TeamOp
  <2> QED
    BY <1>1, <2>1, <2>3, Asked
<1>2. ASSUME Answers(q, "deleteWorkspace"), PurgeWorkspace(request[q].org, request[q].workspace) PROVE Proceeds(ow, q)
  <2>1. DbInv(ow, db) /\ request[q].org \in Id /\ request[q].workspace \in Id
        /\ Owns(ow, request[q].org, request[q].workspace, db.next)
    BY <1>2 DEF Ready, RequestOK, OrgOp, Answers, Goes
  <2>2. Evolves(ow, db, db')
    BY <1>2, <2>1, PurgeWorkspaceStep
  <2> QED
    BY <1>2, <2>2, Answered
<1> QED
  BY <1>1, <1>2 DEF DeleteWorkspace

LEMMA UpdateVariableProceeds ==
    ASSUME NEW ow, NEW q, Ready(ow, q), UpdateVariable(q)
    PROVE  Proceeds(ow, q)
<1>1. ASSUME NEW v \in db.variables,
             Checked(q, [op |-> "updateVariable", org |-> v.org, id |-> v.id])
      PROVE  Proceeds(ow, q)
  <2>1. PICK r : r = [op |-> "updateVariable", org |-> v.org, id |-> v.id]
    OBVIOUS
  <2>2. v.org \in Id
    BY <1>1, RowIds DEF Ready
  <2>3. RequestOK(ow, db.next, r) /\ ResolveOK(db, r)
    BY <2>1, <2>2 DEF RequestOK, ResolveOK, OrgOp, CreationOp, MemberOp, TeamOp
  <2> QED
    BY <1>1, <2>1, <2>3, Asked
<1>2. ASSUME Answers(q, "updateVariable"), UpdateVariableRow(request[q].org, request[q].id) PROVE Proceeds(ow, q)
  <2>1. DbInv(ow, db) /\ request[q].org \in Id
    BY <1>2 DEF Ready, RequestOK, OrgOp, Answers, Goes
  <2>2. Evolves(ow, db, db')
    BY <1>2, <2>1, UpdateVariableRowStep
  <2> QED
    BY <1>2, <2>2, Answered
<1> QED
  BY <1>1, <1>2 DEF UpdateVariable

LEMMA DeleteVariableProceeds ==
    ASSUME NEW ow, NEW q, Ready(ow, q), DeleteVariable(q)
    PROVE  Proceeds(ow, q)
<1>1. ASSUME NEW v \in db.variables,
             Checked(q, [op |-> "deleteVariable", org |-> v.org, id |-> v.id])
      PROVE  Proceeds(ow, q)
  <2>1. PICK r : r = [op |-> "deleteVariable", org |-> v.org, id |-> v.id]
    OBVIOUS
  <2>2. v.org \in Id
    BY <1>1, RowIds DEF Ready
  <2>3. RequestOK(ow, db.next, r) /\ ResolveOK(db, r)
    BY <2>1, <2>2 DEF RequestOK, ResolveOK, OrgOp, CreationOp, MemberOp, TeamOp
  <2> QED
    BY <1>1, <2>1, <2>3, Asked
<1>2. ASSUME Answers(q, "deleteVariable"), DeleteVariableRow(request[q].org, request[q].id) PROVE Proceeds(ow, q)
  <2>1. DbInv(ow, db) /\ request[q].org \in Id
    BY <1>2 DEF Ready, RequestOK, OrgOp, Answers, Goes
  <2>2. Evolves(ow, db, db')
    BY <1>2, <2>1, DeleteVariableRowStep
  <2> QED
    BY <1>2, <2>2, Answered
<1> QED
  BY <1>1, <1>2 DEF DeleteVariable

LEMMA ChangeMemberRoleProceeds ==
    ASSUME NEW ow, NEW q, Ready(ow, q), ChangeMemberRole(q)
    PROVE  Proceeds(ow, q)
<1>1. ASSUME NEW o \in Organization, NEW s \in Members(o),
             NEW i \in {RoleOwner, RoleAdmin, RoleWrite, RoleRead},
             Checked(q, [op |-> "changeRole", org |-> o, user |-> s, role |-> i])
      PROVE  Proceeds(ow, q)
  <2>1. PICK r : r = [op |-> "changeRole", org |-> o, user |-> s, role |-> i]
    OBVIOUS
  <2>2. o \in Id /\ s \in Id
    BY <1>1, RowIds DEF Ready, Members
  <2>3. RequestOK(ow, db.next, r) /\ ResolveOK(db, r)
    BY <2>1, <2>2 DEF RequestOK, ResolveOK, OrgOp, CreationOp, MemberOp, TeamOp
  <2> QED
    BY <1>1, <2>1, <2>3, Asked
<1>2. ASSUME Answers(q, "changeRole"), ReplaceRole(request[q].org, request[q].user, request[q].role) PROVE Proceeds(ow, q)
  <2>1. DbInv(ow, db) /\ request[q].org \in Id /\ request[q].user \in Id
        /\ request[q].role \in {RoleOwner, RoleAdmin, RoleWrite, RoleRead}
    BY <1>2 DEF Ready, RequestOK, OrgOp, Answers, Goes
  <2>2. Evolves(ow, db, db')
    BY <1>2, <2>1, ReplaceRoleStep
  <2> QED
    BY <1>2, <2>2, Answered
<1> QED
  BY <1>1, <1>2 DEF ChangeMemberRole

\* The scopes that the checks accept belong to the Organization.
LEMMA ScopesOwned ==
    ASSUME NEW ow, DbInv(ow, db), NEW o \in Id, NEW s \in ResolveScope(o)
    PROVE  /\ s[1] \in VariableScope /\ s[2] \in Id
           /\ \/ s[1] = "organization" /\ s[2] = o
              \/ s[1] # "organization" /\ Owns(ow, o, s[2], db.next)
           /\ s \in ValidScope(o) => s[1] \in ScopeType
<1>1. CASE s = <<"organization", o>>
  BY <1>1 DEF VariableScope, ScopeType
<1>2. CASE s \in {"project"} \X Ids(db.projects, o)
  <2>1. s[1] = "project" /\ s[2] \in Ids(db.projects, o)
    BY <1>2
  <2> QED
    BY <2>1, RowIds DEF Ids, VariableScope, ScopeType, DbInv, Owned
<1>3. CASE s \in {"workspace"} \X Ids(db.workspaces, o)
  <2>1. s[1] = "workspace" /\ s[2] \in Ids(db.workspaces, o)
    BY <1>3
  <2> QED
    BY <2>1, RowIds DEF Ids, VariableScope, ScopeType, DbInv, Owned
<1>4. CASE s \in {"environment"} \X Ids(db.environments, o)
  <2>1. s[1] = "environment" /\ s[2] \in Ids(db.environments, o)
    BY <1>4
  <2>2. s \notin ValidScope(o)
    BY <2>1 DEF ValidScope
  <2> QED
    BY <2>1, <2>2, RowIds DEF Ids, VariableScope, DbInv, Owned
<1> QED
  BY <1>1, <1>2, <1>3, <1>4 DEF ResolveScope, ValidScope

LEMMA CreateRoleBindingProceeds ==
    ASSUME NEW ow, NEW q, Ready(ow, q), CreateRoleBinding(q)
    PROVE  Proceeds(ow, q)
<1>1. ASSUME NEW o \in Organization, NEW g \in Grant, NEW s \in ValidSubject(o),
             NEW c \in ValidScope(o), \E x \in db.roles : x.id = g.role /\ x.org \in {0, o},
             Checked(q, [op |-> "createBinding",
                         row |-> [id |-> 0, org |-> o, role |-> g.role,
                                  subjectType |-> s[1], subject |-> s[2],
                                  scopeType |-> c[1], scope |-> c[2], effect |-> g.effect]])
      PROVE  Proceeds(ow, q)
  <2>1. PICK b : b = [id |-> 0, org |-> o, role |-> g.role, subjectType |-> s[1],
                      subject |-> s[2], scopeType |-> c[1], scope |-> c[2],
                      effect |-> g.effect]
    OBVIOUS
  <2>2. PICK r : r = [op |-> "createBinding", row |-> b]
    OBVIOUS
  <2>3. o \in Id /\ g.role \in Id /\ g.effect \in Effect /\ DbInv(ow, db)
    BY RowIds, AccessAssumption DEF Ready
  <2>4. s[1] \in SubjectType /\ s[2] \in Id
    <3>1. CASE s \in {"user"} \X Members(o)
      BY <3>1 DEF Members, SubjectType
    <3>2. CASE s \in {"team"} \X Ids(db.teams, o)
      BY <2>3, <3>2, RowIds DEF Ids, SubjectType
    <3>3. CASE s \in {"service_account"} \X Ids(db.accounts, o)
      BY <2>3, <3>3, RowIds DEF Ids, SubjectType
    <3> QED
      BY <3>1, <3>2, <3>3 DEF ValidSubject
  <2>5. /\ c[1] \in ScopeType /\ c[2] \in Id
        /\ \/ c[1] = "organization" /\ c[2] = o
           \/ c[1] # "organization" /\ Owns(ow, o, c[2], db.next)
    <3>1. c \in ResolveScope(o)
      BY DEF ResolveScope
    <3> QED
      BY <2>3, <3>1, ScopesOwned
  <2>6. b \in NewBinding
    BY <2>1, <2>3, <2>4, <2>5 DEF NewBinding
  <2>7. g.role < db.next /\ ow[g.role] \in {0, o}
    BY <1>1, <2>3 DEF DbInv, Owned, Owns
  <2>8. BindingOwned(ow, b, db.next)
    BY <2>1, <2>5, <2>7 DEF BindingOwned, ScopeOwned
  <2>9. RequestOK(ow, db.next, r) /\ ResolveOK(db, r)
    BY <2>2, <2>6, <2>8 DEF RequestOK, ResolveOK, OrgOp, CreationOp, MemberOp, TeamOp
  <2> QED
    BY <1>1, <2>1, <2>2, <2>9, Asked
<1>2. ASSUME Answers(q, "createBinding"), InsertBinding(request[q].row) PROVE Proceeds(ow, q)
  <2>1. /\ DbInv(ow, db) /\ request[q].row \in NewBinding
        /\ BindingOwned(ow, request[q].row, db.next)
    BY <1>2 DEF Ready, RequestOK, Answers, Goes
  <2>2. Evolves(ow, db, db')
    BY <1>2, <2>1, InsertBindingStep
  <2> QED
    BY <1>2, <2>2, Answered
<1> QED
  BY <1>1, <1>2 DEF CreateRoleBinding

LEMMA CreateVariableProceeds ==
    ASSUME NEW ow, NEW q, Ready(ow, q), CreateVariable(q)
    PROVE  Proceeds(ow, q)
<1>1. ASSUME NEW o \in Organization, NEW s \in ResolveScope(o), NEW k \in Key,
             NEW secret \in BOOLEAN,
             Checked(q, [op |-> "createVariable", org |-> o, scopeType |-> s[1],
                         scope |-> s[2], key |-> k, secret |-> secret])
      PROVE  Proceeds(ow, q)
  <2>1. PICK r : r = [op |-> "createVariable", org |-> o, scopeType |-> s[1],
                      scope |-> s[2], key |-> k, secret |-> secret]
    OBVIOUS
  <2>2. o \in Id /\ DbInv(ow, db)
    BY RowIds DEF Ready
  <2>3. /\ s[1] \in VariableScope /\ s[2] \in Id
        /\ \/ s[1] = "organization" /\ s[2] = o
           \/ s[1] # "organization" /\ Owns(ow, o, s[2], db.next)
    BY <2>2, ScopesOwned
  <2>4. /\ r.op = "createVariable" /\ r.org = o /\ r.scopeType = s[1] /\ r.scope = s[2]
        /\ r.key = k
    BY <2>1
  <2>5. r.secret \in BOOLEAN
    BY <2>1, Zenon
  <2>6. ScopeOwned(ow, r, db.next)
    BY <2>3, <2>4 DEF ScopeOwned
  <2>7. RequestOK(ow, db.next, r) /\ ResolveOK(db, r)
    BY <2>2, <2>3, <2>4, <2>5, <2>6 DEF RequestOK, ResolveOK, OrgOp, CreationOp, MemberOp, TeamOp
  <2> QED
    BY <1>1, <2>1, <2>7, Asked
<1>2. ASSUME Answers(q, "createVariable"),
             InsertVariable(request[q].org, request[q].scopeType, request[q].scope,
                            request[q].key, request[q].secret)
      PROVE  Proceeds(ow, q)
  <2>1. /\ DbInv(ow, db) /\ request[q].org \in Id /\ request[q].scopeType \in VariableScope
        /\ request[q].scope \in Id /\ request[q].key \in Key /\ request[q].secret \in BOOLEAN
        /\ ScopeOwned(ow, request[q], db.next)
    BY <1>2 DEF Ready, RequestOK, OrgOp, Answers, Goes
  <2>2. ScopeOwned(ow, [scopeType |-> request[q].scopeType, scope |-> request[q].scope,
                        org |-> request[q].org], db.next)
    BY <2>1 DEF ScopeOwned
  <2>3. Evolves(ow, db, db')
    BY <1>2, <2>1, <2>2, InsertVariableStep
  <2> QED
    BY <1>2, <2>3, Answered
<1> QED
  BY <1>1, <1>2 DEF CreateVariable

LEMMA AddMemberProceeds ==
    ASSUME NEW ow, NEW q, Ready(ow, q), AddMember(q)
    PROVE  Proceeds(ow, q)
<1>1. ASSUME NEW o \in Organization, NEW u \in User,
             Checked(q, [op |-> "addMember", org |-> o, user |-> u])
      PROVE  Proceeds(ow, q)
  <2>1. PICK r : r = [op |-> "addMember", org |-> o, user |-> u]
    OBVIOUS
  <2>2. o \in Id
    BY RowIds DEF Ready
  <2>3. RequestOK(ow, db.next, r) /\ ResolveOK(db, r)
    BY <2>1, <2>2 DEF RequestOK, ResolveOK, OrgOp, CreationOp, MemberOp, TeamOp, MemberChange,
                      TeamDeletion
  <2> QED
    BY <1>1, <2>1, <2>3, Asked
<1>2. ASSUME NEW s, Goes(q, "addMember", s), s \in {[request[q] EXCEPT !.op = "addMemberRole"], Ended},
             InsertMembership(request[q].org, request[q].user)
      PROVE  Proceeds(ow, q)
  <2>1. DbInv(ow, db) /\ request[q] \in MemberChange
    BY <1>2 DEF Ready, RequestOK, Goes, MemberOp
  <2>2. Evolves(ow, db, db')
    BY <1>2, <2>1, InsertMembershipStep DEF MemberChange, TeamDeletion, Creation
  <2>3. CASE s = Ended
    BY <1>2, <2>2, <2>3, Answered DEF Answers
  <2>4. CASE s = [request[q] EXCEPT !.op = "addMemberRole"]
    <3>1. s \in MemberChange /\ s.op = "addMemberRole"
      BY <2>1, <2>4 DEF MemberChange, MemberOp
    <3>2. RequestOK(ow, db.next, s)
      BY <3>1 DEF RequestOK, OrgOp, CreationOp, MemberOp, TeamOp, MemberChange, TeamDeletion
    <3> QED
      BY <1>2, <2>2, <3>1, <3>2, Continued
  <2> QED
    BY <1>2, <2>3, <2>4
<1>3. ASSUME Answers(q, "addMemberRole"), AssignRole(request[q].org, request[q].user, RoleRead)
      PROVE  Proceeds(ow, q)
  <2>1. DbInv(ow, db) /\ request[q] \in MemberChange
    BY <1>3 DEF Ready, RequestOK, Answers, Goes, MemberOp
  <2>2. request[q].org \in Id /\ request[q].user \in Id
    BY <2>1, AccessAssumption DEF MemberChange, Creation
  <2>3. Evolves(ow, db, db')
    BY <1>3, <2>1, <2>2, AssignRoleStep
  <2> QED
    BY <1>3, <2>3, Answered
<1> QED
  BY <1>1, <1>2, <1>3 DEF AddMember

LEMMA RemoveMemberProceeds ==
    ASSUME NEW ow, NEW q, Ready(ow, q), RemoveMember(q)
    PROVE  Proceeds(ow, q)
<1>1. ASSUME NEW m \in db.members,
             Checked(q, [op |-> "removeMember", org |-> m.org, user |-> m.user])
      PROVE  Proceeds(ow, q)
  <2>1. PICK r : r = [op |-> "removeMember", org |-> m.org, user |-> m.user]
    OBVIOUS
  <2>2. m.org \in Id /\ m.user \in User
    BY RowIds DEF Ready
  <2>3. RequestOK(ow, db.next, r) /\ ResolveOK(db, r)
    BY <2>1, <2>2 DEF RequestOK, ResolveOK, OrgOp, CreationOp, MemberOp, TeamOp, MemberChange,
                      TeamDeletion
  <2> QED
    BY <1>1, <2>1, <2>3, Asked
<1>2. ASSUME Goes(q, "removeMember", [request[q] EXCEPT !.op = "removeMembership"]),
             DeleteForSubject(request[q].org, "user", request[q].user)
      PROVE  Proceeds(ow, q)
  <2>1. PICK s : s = [request[q] EXCEPT !.op = "removeMembership"]
    OBVIOUS
  <2>2. DbInv(ow, db) /\ request[q] \in MemberChange
    BY <1>2 DEF Ready, RequestOK, Goes, MemberOp
  <2>3. Evolves(ow, db, db')
    BY <1>2, <2>2, DeleteForSubjectStep DEF MemberChange, TeamDeletion, Creation
  <2>4. s \in MemberChange /\ s.op = "removeMembership"
    BY <2>1, <2>2 DEF MemberChange, MemberOp
  <2>5. RequestOK(ow, db.next, s)
    BY <2>4 DEF RequestOK, OrgOp, CreationOp, MemberOp, TeamOp, MemberChange, TeamDeletion
  <2> QED
    BY <1>2, <2>1, <2>3, <2>4, <2>5, Continued
<1>3. ASSUME Answers(q, "removeMembership"), DeleteMembership(request[q].org, request[q].user)
      PROVE  Proceeds(ow, q)
  <2>1. DbInv(ow, db) /\ request[q].org \in Id
    BY <1>3 DEF Ready, RequestOK, OrgOp, Answers, Goes
  <2>2. Evolves(ow, db, db')
    BY <1>3, <2>1, DeleteMembershipStep
  <2> QED
    BY <1>3, <2>2, Answered
<1> QED
  BY <1>1, <1>2, <1>3 DEF RemoveMember

LEMMA DeleteTeamProceeds ==
    ASSUME NEW ow, NEW q, Ready(ow, q), DeleteTeam(q)
    PROVE  Proceeds(ow, q)
<1>1. ASSUME NEW t \in db.teams,
             Checked(q, [op |-> "deleteTeam", org |-> t.org, id |-> t.id])
      PROVE  Proceeds(ow, q)
  <2>1. PICK r : r = [op |-> "deleteTeam", org |-> t.org, id |-> t.id]
    OBVIOUS
  <2>2. t.org \in Id /\ t.id \in Id
    BY RowIds DEF Ready
  <2>3. RequestOK(ow, db.next, r) /\ ResolveOK(db, r)
    BY <2>1, <2>2 DEF RequestOK, ResolveOK, OrgOp, CreationOp, MemberOp, TeamOp, MemberChange,
                      TeamDeletion
  <2> QED
    BY <1>1, <2>1, <2>3, Asked
<1>2. ASSUME Goes(q, "deleteTeam", [request[q] EXCEPT !.op = "deleteTeamRows"]),
             DeleteForSubject(request[q].org, "team", request[q].id)
      PROVE  Proceeds(ow, q)
  <2>1. PICK s : s = [request[q] EXCEPT !.op = "deleteTeamRows"]
    OBVIOUS
  <2>2. DbInv(ow, db) /\ request[q] \in TeamDeletion
    BY <1>2 DEF Ready, RequestOK, Goes, TeamOp
  <2>3. Evolves(ow, db, db')
    BY <1>2, <2>2, DeleteForSubjectStep DEF MemberChange, TeamDeletion, Creation
  <2>4. s \in TeamDeletion /\ s.op = "deleteTeamRows"
    BY <2>1, <2>2 DEF TeamDeletion, TeamOp
  <2>5. RequestOK(ow, db.next, s)
    BY <2>4 DEF RequestOK, OrgOp, CreationOp, MemberOp, TeamOp, MemberChange, TeamDeletion
  <2> QED
    BY <1>2, <2>1, <2>3, <2>4, <2>5, Continued
<1>3. ASSUME Answers(q, "deleteTeamRows"),
             DeleteTeamAndMemberships(request[q].org, request[q].id)
      PROVE  Proceeds(ow, q)
  <2>1. DbInv(ow, db) /\ request[q].org \in Id
    BY <1>3 DEF Ready, RequestOK, OrgOp, Answers, Goes
  <2>2. Evolves(ow, db, db')
    BY <1>3, <2>1, DeleteTeamAndMembershipsStep
  <2> QED
    BY <1>3, <2>2, Answered
<1> QED
  BY <1>1, <1>2, <1>3 DEF DeleteTeam

LEMMA CreateOrganizationProceeds ==
    ASSUME NEW ow, NEW q, Ready(ow, q), CreateOrganization(q)
    PROVE  Proceeds(ow, q)
<1>1. ASSUME NEW u \in User,
             Checked(q, [op |-> "createOrg", user |-> u, first |-> db.orgs = {}])
      PROVE  Proceeds(ow, q)
  <2>1. PICK r : r = [op |-> "createOrg", user |-> u, first |-> db.orgs = {}]
    OBVIOUS
  <2>2. r.op = "createOrg" /\ r.user = u
    BY <2>1
  <2>3. r.first \in BOOLEAN
    BY <2>1, Zenon
  <2>4. RequestOK(ow, db.next, r) /\ ResolveOK(db, r)
    BY <2>2, <2>3 DEF RequestOK, ResolveOK, OrgOp, CreationOp, MemberOp, TeamOp
  <2> QED
    BY <1>1, <2>1, <2>4, Asked
<1>2. ASSUME Goes(q, "createOrg", [op |-> "orgMembership", org |-> db.next,
                                   user |-> request[q].user, first |-> request[q].first]),
             InsertOrganization
      PROVE  Proceeds(ow, q)
  <2>1. PICK s : s = [op |-> "orgMembership", org |-> db.next,
                      user |-> request[q].user, first |-> request[q].first]
    OBVIOUS
  <2>2. DbInv(ow, db) /\ request[q].user \in User /\ request[q].first \in BOOLEAN /\ db.next \in Id
    BY <1>2 DEF Ready, RequestOK, Goes, InsertOrganization, Insert
  <2>3. Evolves(ow, db, db')
    BY <1>2, <2>2, InsertOrganizationStep
  <2>4. s \in Creation /\ s.op = "orgMembership" /\ s.org = db.next
    BY <2>1, <2>2 DEF Creation, CreationOp
  <2>5. RequestOK(ow, db.next, s)
    BY <2>2, <2>4 DEF RequestOK, OrgOp, CreationOp, MemberOp, TeamOp, MemberChange, TeamDeletion
  <2> QED
    BY <1>2, <2>1, <2>3, <2>4, <2>5, Continued
<1>3. ASSUME NEW s, Goes(q, "orgMembership", s),
             s \in {[request[q] EXCEPT !.op = "orgOwner"], Ended},
             InsertMembership(request[q].org, request[q].user)
      PROVE  Proceeds(ow, q)
  <2>1. DbInv(ow, db) /\ request[q] \in Creation
    BY <1>3 DEF Ready, RequestOK, Goes, CreationOp
  <2>2. Evolves(ow, db, db')
    BY <1>3, <2>1, InsertMembershipStep DEF MemberChange, TeamDeletion, Creation
  <2>3. CASE s = Ended
    BY <1>3, <2>2, <2>3, Answered DEF Answers
  <2>4. CASE s = [request[q] EXCEPT !.op = "orgOwner"]
    <3>1. s \in Creation /\ s.op = "orgOwner" /\ s.org \in Id
      BY <2>1, <2>4 DEF Creation, CreationOp
    <3>2. RequestOK(ow, db.next, s)
      BY <3>1 DEF RequestOK, OrgOp, CreationOp, MemberOp, TeamOp, MemberChange, TeamDeletion
    <3> QED
      BY <1>3, <2>2, <3>1, <3>2, Continued
  <2> QED
    BY <1>3, <2>3, <2>4
<1>4. ASSUME NEW s, Goes(q, "orgOwner", s),
             s \in {[request[q] EXCEPT !.op = "orgFirstAdmin"], Ended},
             AssignRole(request[q].org, request[q].user, RoleOwner)
      PROVE  Proceeds(ow, q)
  <2>1. DbInv(ow, db) /\ request[q] \in Creation
    BY <1>4 DEF Ready, RequestOK, Goes, CreationOp
  <2>2. request[q].org \in Id /\ request[q].user \in Id
    BY <2>1, AccessAssumption DEF MemberChange, Creation
  <2>3. Evolves(ow, db, db')
    BY <1>4, <2>1, <2>2, AssignRoleStep
  <2>4. CASE s = Ended
    BY <1>4, <2>3, <2>4, Answered DEF Answers
  <2>5. CASE s = [request[q] EXCEPT !.op = "orgFirstAdmin"]
    <3>1. s \in Creation /\ s.op = "orgFirstAdmin" /\ s.org \in Id
      BY <2>1, <2>5 DEF Creation, CreationOp
    <3>2. RequestOK(ow, db.next, s)
      BY <3>1 DEF RequestOK, OrgOp, CreationOp, MemberOp, TeamOp, MemberChange, TeamDeletion
    <3> QED
      BY <1>4, <2>3, <3>1, <3>2, Continued
  <2> QED
    BY <1>4, <2>4, <2>5
<1>5. ASSUME Answers(q, "orgFirstAdmin"), SetAdmin(request[q].user, TRUE)
      PROVE  Proceeds(ow, q)
  <2>1. DbInv(ow, db) /\ request[q] \in Creation
    BY <1>5 DEF Ready, RequestOK, Answers, Goes, CreationOp
  <2>2. Evolves(ow, db, db')
    BY <1>5, <2>1, SetAdminStep DEF MemberChange, TeamDeletion, Creation
  <2> QED
    BY <1>5, <2>2, Answered
<1> QED
  BY <1>1, <1>2, <1>3, <1>4, <1>5 DEF CreateOrganization

\* The scope that a resolution looks at, at one of its four levels.
LEMMA CascadeLevel ==
    ASSUME NEW w \in Workspace, NEW k \in Key, NEW l \in 1..4, NEW from, from \subseteq Variable
    PROVE  /\ Distance(ScopeCascade(w)[l][1]) = l
           /\ \A v \in Applicable(from, w, k) :
                 /\ Distance(v.scopeType) \in 1..4
                 /\ Distance(v.scopeType) = l =>
                       /\ v.scopeType = ScopeCascade(w)[l][1] /\ v.scope = ScopeCascade(w)[l][2]
                       /\ v.key = k
<1>1. /\ Distance("workspace") = 1 /\ Distance("environment") = 2
      /\ Distance("project") = 3 /\ Distance("organization") = 4
  BY DEF Distance
<1>2. /\ ScopeCascade(w)[1] = <<"workspace", w.id>>
      /\ ScopeCascade(w)[2] = <<"environment", w.environment>>
      /\ ScopeCascade(w)[3] = <<"project", w.project>>
      /\ ScopeCascade(w)[4] = <<"organization", w.org>>
  BY DEF ScopeCascade
<1>3. l = 1 \/ l = 2 \/ l = 3 \/ l = 4
  OBVIOUS
<1>4. Distance(ScopeCascade(w)[l][1]) = l
  BY <1>1, <1>2, <1>3
<1>5. ASSUME NEW v \in Applicable(from, w, k)
      PROVE  /\ Distance(v.scopeType) \in 1..4
             /\ Distance(v.scopeType) = l =>
                   /\ v.scopeType = ScopeCascade(w)[l][1] /\ v.scope = ScopeCascade(w)[l][2]
                   /\ v.key = k
  BY <1>1, <1>2, <1>3 DEF Applicable
<1> QED
  BY <1>4, <1>5

\* Whatever a resolution finds at its level, and whether it goes on or ends.
LEMMA Looks ==
    ASSUME NEW ow, NEW d, DbInv(ow, d), NEW r \in Resolving, ResolveOK(d, r), NEW scope, NEW found,
           scope = ScopeCascade(r.workspace)[r.level],
           found = At(d.variables, scope[1], scope[2], r.key)
    PROVE  /\ found = {} /\ r.level < 4 => ResolveOK(d, [r EXCEPT !.level = @ + 1])
           /\ found # {} \/ r.level = 4 =>
                 Honours([op |-> "resolved", workspace |-> r.workspace, key |-> r.key,
                          found |-> {v.id : v \in found}, from |-> r.from, to |-> d.variables])
<1> DEFINE A == Applicable(r.from, r.workspace, r.key)
<1>1. /\ r.workspace \in Workspace /\ r.key \in Key /\ r.level \in 1..4 /\ r.from \subseteq Variable
      /\ r.op = "resolve"
  BY DEF Resolving
<1>2. /\ \A v \in r.from : v.id < d.next
      /\ \A v \in r.from : \A x \in d.variables : v.id = x.id => SamePlace(v, x)
      /\ \A v \in A : \A x \in d.variables : v.id = x.id => r.level <= Distance(v.scopeType)
  BY <1>1 DEF ResolveOK
<1>3. /\ Distance(scope[1]) = r.level
      /\ \A v \in A : /\ Distance(v.scopeType) \in 1..4
                      /\ Distance(v.scopeType) = r.level =>
                            v.scopeType = scope[1] /\ v.scope = scope[2] /\ v.key = r.key
  BY <1>1, CascadeLevel
<1>4. A \subseteq r.from
  BY DEF Applicable
<1>5. ASSUME NEW v \in A, NEW x \in d.variables, v.id = x.id, Distance(v.scopeType) = r.level
      PROVE  x \in found
  <2>1. SamePlace(v, x)
    BY <1>2, <1>4, <1>5
  <2> QED
    BY <1>3, <1>5, <2>1 DEF At, SamePlace
<1> HIDE DEF A
<1>6. ASSUME found = {}, r.level < 4 PROVE ResolveOK(d, [r EXCEPT !.level = @ + 1])
  <2>1. PICK s : s = [r EXCEPT !.level = @ + 1]
    OBVIOUS
  <2>2. /\ s \in Resolving /\ s.workspace = r.workspace /\ s.key = r.key /\ s.from = r.from
        /\ s.level = r.level + 1 /\ s.op = "resolve"
    BY <1>1, <1>6, <2>1 DEF Resolving
  <2>3. \A v \in A : \A x \in d.variables : v.id = x.id => s.level <= Distance(v.scopeType)
    BY <1>1, <1>2, <1>3, <1>5, <1>6, <2>2
  <2> QED
    BY <1>2, <2>1, <2>2, <2>3 DEF ResolveOK, A
<1>7. ASSUME found # {} \/ r.level = 4, NEW s,
             s = [op |-> "resolved", workspace |-> r.workspace, key |-> r.key,
                  found |-> {v.id : v \in found}, from |-> r.from, to |-> d.variables]
      PROVE  Honours(s)
  <2>1. /\ s.workspace = r.workspace /\ s.key = r.key /\ s.from = r.from
        /\ s.to = d.variables /\ s.found = {v.id : v \in found}
    BY <1>7
  <2>2. ASSUME NEW v \in A, NEW x \in d.variables, x.id = v.id PROVE found # {}
    BY <1>1, <1>2, <1>3, <1>5, <1>7, <2>2
  <2>3. ASSUME NEW x \in r.from \cup d.variables, x.id \in s.found
        PROVE  Distance(x.scopeType) = r.level
    <3>1. PICK y \in found : x.id = y.id
      BY <2>1, <2>3
    <3>2. y \in d.variables /\ y.scopeType = scope[1]
      BY <3>1 DEF At
    <3>3. x.scopeType = y.scopeType
      BY <1>2, <3>1, <3>2 DEF SamePlace, DbInv, Owned
    <3> QED
      BY <1>3, <3>2, <3>3
  <2>4. ASSUME NEW v \in A, NEW x \in d.variables, x.id = v.id
        PROVE  r.level <= Distance(v.scopeType)
    BY <1>2, <2>4
  <2>5. ASSUME NEW v \in A, NEW z \in d.variables, z.id = v.id,
               NEW x \in r.from \cup d.variables, x.id \in s.found
        PROVE  Distance(x.scopeType) <= Distance(v.scopeType)
    BY <2>3, <2>4, <2>5
  <2>6. ASSUME NEW v \in A, NEW z \in d.variables, z.id = v.id PROVE s.found # {}
    BY <2>1, <2>2, <2>6
  <2> QED
    BY <2>1, <2>5, <2>6 DEF Honours, A
<1> QED
  BY <1>6, <1>7

LEMMA ResolveVariableProceeds ==
    ASSUME NEW ow, NEW q, Ready(ow, q), ResolveVariable(q)
    PROVE  Proceeds(ow, q)
<1>1. ASSUME NEW w \in db.workspaces, NEW k \in Key,
             Checked(q, [op |-> "resolve", workspace |-> w, key |-> k, level |-> 1,
                         from |-> db.variables])
      PROVE  Proceeds(ow, q)
  <2>1. PICK r : r = [op |-> "resolve", workspace |-> w, key |-> k, level |-> 1,
                      from |-> db.variables]
    OBVIOUS
  <2>2. w \in Workspace /\ db.variables \subseteq Variable /\ db.next \in Nat
    BY DatabaseTypes DEF Ready, DbInv, WellFormed
  <2>3. /\ r \in Resolving /\ r.op = "resolve" /\ r.level = 1 /\ r.from = db.variables
        /\ r.workspace = w /\ r.key = k
    BY <2>1, <2>2 DEF Resolving
  <2>4. /\ \A v \in r.from : v.id < db.next
        /\ \A v \in r.from : \A x \in db.variables : v.id = x.id => SamePlace(v, x)
    BY <2>3 DEF Ready, DbInv, Owned, SamePlace
  <2>5. \A v \in Applicable(r.from, r.workspace, r.key) : 1 <= Distance(v.scopeType)
    BY <2>2, <2>3, CascadeLevel
  <2>6. RequestOK(ow, db.next, r) /\ ResolveOK(db, r)
    BY <2>3, <2>4, <2>5 DEF RequestOK, ResolveOK, OrgOp, CreationOp, MemberOp, TeamOp
  <2> QED
    BY <1>1, <2>1, <2>6, Asked
<1>2. ASSUME NEW r, r = request[q], NEW scope, scope = ScopeCascade(r.workspace)[r.level],
             NEW found, found = At(db.variables, scope[1], scope[2], r.key), UNCHANGED db,
             Goes(q, "resolve",
                  IF found = {} /\ r.level < 4
                  THEN [r EXCEPT !.level = @ + 1]
                  ELSE [op |-> "resolved", workspace |-> r.workspace, key |-> r.key,
                        found |-> {v.id : v \in found}, from |-> r.from, to |-> db.variables])
      PROVE  Proceeds(ow, q)
  <2>1. PICK s : s = IF found = {} /\ r.level < 4
                     THEN [r EXCEPT !.level = @ + 1]
                     ELSE [op |-> "resolved", workspace |-> r.workspace, key |-> r.key,
                           found |-> {v.id : v \in found}, from |-> r.from, to |-> db.variables]
    OBVIOUS
  <2>2. DbInv(ow, db) /\ ResolveOK(db, r) /\ r.op = "resolve" /\ r \in Resolving
    BY <1>2 DEF Ready, Goes, ResolveOK
  <2>3. Evolves(ow, db, db')
    BY <1>2, <2>2, NothingHappens
  <2>4. r.level \in 1..4
    BY <2>2 DEF Resolving
  <2>5. RequestOK(ow, db.next, s) /\ ResolveOK(db, s)
    <3>1. CASE found = {} /\ r.level < 4
      <4>1. s = [r EXCEPT !.level = @ + 1]
        BY <2>1, <3>1
      <4>2. s.op = "resolve"
        BY <2>2, <4>1 DEF Resolving
      <4>3. ResolveOK(db, s)
        BY <1>2, <2>2, <3>1, <4>1, Looks
      <4> QED
        BY <4>2, <4>3 DEF RequestOK, OrgOp, CreationOp, MemberOp, TeamOp
    <3>2. CASE ~(found = {} /\ r.level < 4)
      <4>1. s = [op |-> "resolved", workspace |-> r.workspace, key |-> r.key,
                 found |-> {v.id : v \in found}, from |-> r.from, to |-> db.variables]
        BY <2>1, <3>2
      <4>2. s.op = "resolved"
        BY <4>1
      <4>3. Honours(s)
        BY <1>2, <2>2, <2>4, <3>2, <4>1, Looks
      <4> QED
        BY <4>2, <4>3 DEF RequestOK, ResolveOK, OrgOp, CreationOp, MemberOp, TeamOp
    <3> QED
      BY <3>1, <3>2
  <2> QED
    BY <1>2, <2>1, <2>3, <2>5 DEF Proceeds, Goes
<1> QED
  BY <1>1, <1>2, Zenon DEF ResolveVariable

-----------------------------------------------------------------------------
(* The inductive invariant.                                                 *)

LEMMA RequestProceeds ==
    ASSUME NEW ow, NEW q, Ready(ow, q),
           AccessRequest(q) \/ TenancyRequest(q) \/ ResourceRequest(q) \/ Breaks(q)
    PROVE  Proceeds(ow, q)
<1>1. CASE AccessRequest(q)
  BY <1>1, CreateRoleProceeds, UpdateRoleProceeds, CreateRoleBindingProceeds,
     DeleteRoleBindingProceeds, CreateServiceAccountProceeds, CreateAPIKeyProceeds,
     RevokeAPIKeyProceeds, SetPlatformAdminProceeds
  DEF AccessRequest
<1>2. CASE TenancyRequest(q)
  BY <1>2, CreateOrganizationProceeds, ArchiveOrganizationProceeds, DeleteOrganizationProceeds,
     AddMemberProceeds, ChangeMemberRoleProceeds, RemoveMemberProceeds, BlockMemberProceeds,
     UnblockMemberProceeds, CreateTeamProceeds, UpdateTeamProceeds, DeleteTeamProceeds,
     AddTeamMemberProceeds, RemoveTeamMemberProceeds, CreateProjectProceeds,
     DeleteProjectProceeds
  DEF TenancyRequest
<1>3. CASE ResourceRequest(q)
  BY <1>3, CreateEnvironmentProceeds, CreateWorkspaceProceeds, DeleteWorkspaceProceeds,
     CreateVariableProceeds, UpdateVariableProceeds, DeleteVariableProceeds,
     ResolveVariableProceeds
  DEF ResourceRequest
<1>4. CASE Breaks(q)
  <2>1. Ended.op = "ended"
    BY DEF Ended
  <2>2. RequestOK(ow, db.next, Ended) /\ ResolveOK(db, Ended)
    BY <2>1 DEF RequestOK, ResolveOK, OrgOp, CreationOp, MemberOp, TeamOp
  <2>3. Evolves(ow, db, db')
    BY <1>4, NothingHappens DEF Breaks, Ready
  <2> QED
    BY <1>4, <2>2, <2>3 DEF Breaks, Proceeds
<1> QED
  BY <1>1, <1>2, <1>3, <1>4

\* An Organization that may be purged: it is archived and due, or gone already.
Purgeable(d, o) ==
    o \in Id /\ o < d.next /\ (Exists(d, o) => ArchivedIn(d, o) /\ DueIn(d, o))

RequestsOK(ow) ==
    \A q \in Request : RequestOK(ow, db.next, request[q]) /\ ResolveOK(db, request[q])
Inv ==
    /\ \E ow : DbInv(ow, db) /\ RequestsOK(ow)
    /\ DOMAIN request = Request /\ overlap \in BOOLEAN
    /\ \A o \in reaper : Purgeable(db, o)

\* Whatever the requests and the reaper hold on to outlives a transaction.
LEMMA Carried ==
    ASSUME NEW ow, DbInv(ow, db), Evolves(ow, db, db'),
           DOMAIN request' = Request, overlap' \in BOOLEAN,
           \A q \in Request :
              RequestOK(ow, db.next, (request')[q]) /\ ResolveOK(db, (request')[q]),
           \A o \in reaper' : Purgeable(db, o)
    PROVE  Inv'
<1>1. PICK w : Becomes(ow, db, w, db')
  BY DEF Evolves
<1>2. db \in Database /\ db' \in Database /\ db.next \in Nat /\ (db').next \in Nat
  BY <1>1, DatabaseTypes DEF DbInv, WellFormed, Becomes
<1>3. Extends(ow, db, w, db') /\ VariablesLater(db, db') /\ OrgsLater(db, db') /\ DbInv(w, db')
      /\ db.next <= (db').next
  BY <1>1 DEF Becomes, Extends
<1>4. ASSUME NEW q \in Request
      PROVE  RequestOK(w, (db').next, (request')[q]) /\ ResolveOK(db', (request')[q])
  BY <1>2, <1>3, RequestKept, ResolveKept
<1>5. ASSUME NEW o \in reaper' PROVE Purgeable(db', o)
  <2>1. Purgeable(db, o)
    OBVIOUS
  <2>2. o \in Id /\ o \in Nat /\ o < db.next
    BY <2>1 DEF Purgeable, Id
  <2> QED
    BY <1>2, <1>3, <2>1, <2>2 DEF Purgeable, OrgsLater
<1> QED
  BY <1>3, <1>4, <1>5 DEF Inv, RequestsOK

LEMMA InvStep ==
    ASSUME Inv, [Next]_vars
    PROVE  Inv' /\ \E ow : DbInv(ow, db) /\ Evolves(ow, db, db')
<1>1. PICK ow : DbInv(ow, db) /\ RequestsOK(ow)
  BY DEF Inv
<1>2. /\ DOMAIN request = Request /\ overlap \in BOOLEAN
      /\ \A o \in reaper : Purgeable(db, o)
  BY DEF Inv
<1>3. ASSUME NEW q \in Request,
             AccessRequest(q) \/ TenancyRequest(q) \/ ResourceRequest(q) \/ Breaks(q),
             UNCHANGED reaper
      PROVE  Inv' /\ Evolves(ow, db, db')
  <2>1. Proceeds(ow, q)
    BY <1>1, <1>3, RequestProceeds DEF Ready, RequestsOK
  <2>2. PICK r : /\ request' = [request EXCEPT ![q] = r]
                 /\ RequestOK(ow, db.next, r) /\ ResolveOK(db, r)
    BY <2>1 DEF Proceeds
  <2>3. DOMAIN request' = Request
    BY <1>2, <2>2
  <2>4. ASSUME NEW p \in Request
        PROVE  RequestOK(ow, db.next, (request')[p]) /\ ResolveOK(db, (request')[p])
    BY <1>1, <1>2, <2>2 DEF RequestsOK
  <2>5. overlap' \in BOOLEAN
    BY <1>2, <2>1, Zenon DEF Proceeds
  <2>6. Evolves(ow, db, db')
    BY <2>1 DEF Proceeds
  <2> QED
    BY <1>1, <1>2, <1>3, <2>3, <2>4, <2>5, <2>6, Carried
<1>4. ASSUME Evolves(ow, db, db'), UNCHANGED <<request, overlap>>,
             \A o \in reaper' : Purgeable(db, o)
      PROVE  Inv'
  <2>1. overlap' \in BOOLEAN
    BY <1>2, <1>4, Zenon
  <2>2. /\ DOMAIN request' = Request
        /\ \A q \in Request : RequestOK(ow, db.next, (request')[q]) /\ ResolveOK(db, (request')[q])
    BY <1>1, <1>2, <1>4 DEF RequestsOK
  <2> QED
    BY <1>1, <1>4, <2>1, <2>2, Carried
<1>5. CASE Reaper
  <2>1. CASE ReaperScan
    <3>1. Evolves(ow, db, db')
      BY <1>1, <2>1, NothingHappens DEF ReaperScan
    <3>2. ASSUME NEW o \in reaper' PROVE Purgeable(db, o)
      <4>1. PICK x \in db.archivals : x.due /\ x.org = o
        BY <2>1 DEF ReaperScan, FindOrganizationsPastPurgeWindow
      <4>2. x \in ArchivalEvent
        BY <1>1, DatabaseTypes DEF DbInv, WellFormed
      <4>3. o \in Id /\ x = [org |-> o, due |-> TRUE]
        BY <4>1, <4>2 DEF ArchivalEvent
      <4>4. ArchivedIn(db, o) /\ DueIn(db, o)
        BY <1>1, <4>1, <4>3 DEF DbInv, WellFormed, ArchivedIn, DueIn
      <4>5. o < db.next
        BY <1>1, <4>4 DEF ArchivedIn, DbInv, Owned
      <4> QED
        BY <4>3, <4>4, <4>5 DEF Purgeable
    <3> QED
      BY <1>1, <1>4, <2>1, <3>1, <3>2 DEF ReaperScan
  <2>2. ASSUME NEW o \in Id, WindowPasses(o) PROVE Inv' /\ Evolves(ow, db, db')
    BY <1>1, <1>2, <1>4, <2>2, WindowPassesStep DEF WindowPasses
  <2>3. ASSUME NEW o \in Id, ReaperPurge(o) PROVE Inv' /\ Evolves(ow, db, db')
    BY <1>1, <1>2, <1>4, <2>3, PurgeOrganizationStep DEF ReaperPurge
  <2> QED
    BY <1>1, <1>5, <2>1, <2>2, <2>3, NothingHappens DEF Reaper, ReaperScan
<1>6. CASE UNCHANGED vars
  <2>1. UNCHANGED <<db, request, overlap, reaper>>
    BY <1>6 DEF vars, tenancyVars, accessVars
  <2>2. Evolves(ow, db, db')
    BY <1>1, <2>1, NothingHappens
  <2> QED
    BY <1>1, <1>2, <1>4, <2>1, <2>2
<1> QED
  BY <1>1, <1>3, <1>5, <1>6 DEF Next

\* In a database to start from, every id has one owner.
LEMMA InitiallyOwned ==
    ASSUME NEW d, WellFormed(d), NothingDangles(d), IdsAreDrawn(d)
    PROVE  \E ow : DbInv(ow, d)
<1> DEFINE Scoped == {"projects", "environments", "workspaces", "roles"}
           HasRow(i, o) == \E t \in Scoped : \E x \in d[t] : x.id = i /\ x.org = o
<1>1. d \in Database /\ Id \subseteq Nat
  BY DEF WellFormed, Id
<1>2. PICK ow : ow = [i \in Nat |-> IF \E o \in Nat : HasRow(i, o)
                                    THEN CHOOSE o \in Nat : HasRow(i, o) ELSE 0]
  OBVIOUS
<1>3. ASSUME NEW i \in Nat, NEW o, NEW p, HasRow(i, o), HasRow(i, p) PROVE o = p
  <2>1. Scoped \subseteq IdTable
    BY DEF IdTable, OrgTable
  <2> QED
    BY <1>3, <2>1 DEF IdsAreDrawn
<1> HIDE DEF HasRow
<1>4. ASSUME NEW i \in Nat, NEW o \in Nat, HasRow(i, o) PROVE ow[i] = o
  <2>1. ow[i] = CHOOSE p \in Nat : HasRow(i, p)
    BY <1>2, <1>4
  <2>2. HasRow(i, ow[i])
    BY <1>4, <2>1
  <2> QED
    BY <1>3, <1>4, <2>2
<1>5. ow \in [Nat -> Nat]
  <2>1. ASSUME NEW i \in Nat PROVE (IF \E o \in Nat : HasRow(i, o)
                                    THEN CHOOSE o \in Nat : HasRow(i, o) ELSE 0) \in Nat
    OBVIOUS
  <2> QED
    BY <1>2, <2>1
<1>6. /\ \A x \in d.projects : x.id \in Nat /\ x.org \in Nat /\ HasRow(x.id, x.org)
      /\ \A x \in d.environments : x.id \in Nat /\ x.org \in Nat /\ HasRow(x.id, x.org)
      /\ \A x \in d.workspaces : x.id \in Nat /\ x.org \in Nat /\ HasRow(x.id, x.org)
      /\ \A x \in d.roles : x.id \in Nat /\ x.org \in Nat /\ HasRow(x.id, x.org)
  <2>1. /\ \A x \in d["projects"] : HasRow(x.id, x.org)
        /\ \A x \in d["environments"] : HasRow(x.id, x.org)
        /\ \A x \in d["workspaces"] : HasRow(x.id, x.org)
        /\ \A x \in d["roles"] : HasRow(x.id, x.org)
    BY DEF HasRow
  <2>2. /\ \A x \in d.projects : x.id \in Id /\ x.org \in Id
        /\ \A x \in d.environments : x.id \in Id /\ x.org \in Id
        /\ \A x \in d.workspaces : x.id \in Id /\ x.org \in Id
        /\ \A x \in d.roles : x.id \in Id /\ x.org \in Id \cup {0}
    BY <1>1, DatabaseTypes DEF Project, Environment, Workspace, Role
  <2>3. \A i \in Id \cup {0} : i \in Nat
    BY <1>1
  <2>4. /\ \A x \in d.projects : x.id \in Nat /\ x.org \in Nat
        /\ \A x \in d.environments : x.id \in Nat /\ x.org \in Nat
        /\ \A x \in d.workspaces : x.id \in Nat /\ x.org \in Nat
        /\ \A x \in d.roles : x.id \in Nat /\ x.org \in Nat
    BY <2>2, <2>3
  <2> QED
    BY <2>1, <2>4
<1>7. ASSUME NEW t \in IdTable, NEW x \in d[t] PROVE x.id < d.next /\ x.id \notin User
  BY DEF IdsAreDrawn
<1>8. /\ \A x \in d["orgs"] : x.id < d.next
      /\ \A x \in d["accounts"] : x.id \notin User
      /\ \A x \in d["projects"] : x.id < d.next
      /\ \A x \in d["environments"] : x.id < d.next
      /\ \A x \in d["workspaces"] : x.id < d.next
      /\ \A x \in d["roles"] : x.id < d.next
      /\ \A x \in d["variables"] : x.id < d.next
  BY <1>7 DEF IdTable, OrgTable
<1>9. /\ \A x \in d.projects : Owns(ow, x.org, x.id, d.next)
      /\ \A x \in d.environments : Owns(ow, x.org, x.id, d.next)
      /\ \A x \in d.workspaces : Owns(ow, x.org, x.id, d.next)
      /\ \A x \in d.roles : Owns(ow, x.org, x.id, d.next)
  BY <1>4, <1>6, <1>8 DEF Owns
<1>10. ASSUME NEW x \in d.environments \cup d.workspaces PROVE Owns(ow, x.org, x.project, d.next)
  <2>1. PICK p \in d.projects : p.org = x.org /\ p.id = x.project
    BY DEF WellFormed, ForeignKeys, RowExists
  <2> QED
    BY <1>9, <2>1
<1>11. ASSUME NEW x, ScopeExists(d, x) PROVE ScopeOwned(ow, x, d.next)
  BY <1>9, <1>11 DEF ScopeExists, RowExists, ScopeOwned
<1>12. \A x, y \in d.variables : x.id = y.id => x = y
  <2>1. \A x, y \in d["variables"] : x.id = y.id => x = y
    BY DEF IdsAreDrawn, IdTable, OrgTable
  <2> QED
    BY <2>1
<1>13. \A u \in User : u < d.next
  BY DEF IdsAreDrawn
<1>14. /\ \A x \in d.bindings : ScopeOwned(ow, x, d.next)
       /\ \A x \in d.variables : ScopeOwned(ow, x, d.next)
  BY <1>11 DEF NothingDangles
<1>15. Owned(ow, d)
  BY <1>5, <1>8, <1>9, <1>10, <1>12, <1>13, <1>14 DEF Owned
<1> QED
  BY <1>15 DEF DbInv

LEMMA InvInit == Init => Inv
<1>1. SUFFICES ASSUME NEW i \in InitialState, db = i.db,
                      request = [q \in Request |-> IF q \in i.requests THEN Idle ELSE Ended],
                      overlap = FALSE, reaper = {}
               PROVE  Inv
  BY DEF Init
<1>2. PICK ow : DbInv(ow, db)
  BY <1>1, InitialAssumption, InitiallyOwned
<1>3. Idle.op = "idle" /\ Ended.op = "ended"
  BY DEF Idle, Ended
<1>4. ASSUME NEW r \in {Idle, Ended} PROVE RequestOK(ow, db.next, r) /\ ResolveOK(db, r)
  BY <1>3, <1>4 DEF RequestOK, ResolveOK, OrgOp, CreationOp, MemberOp, TeamOp
<1>5. RequestsOK(ow)
  BY <1>1, <1>4 DEF RequestsOK
<1> QED
  BY <1>1, <1>2, <1>5 DEF Inv

-----------------------------------------------------------------------------
(* The theorems.                                                            *)

\* Inv is invariant.
LEMMA InvAlways == Spec => []Inv
<1>1. Init => Inv
  BY InvInit
<1>2. Inv /\ [Next]_vars => Inv'
  BY InvStep
<1> QED
  BY <1>1, <1>2, PTL DEF Spec

\* The schema holds after every transaction of every request and of the
\* reaper, in whatever order they come: types, foreign keys, UNIQUE keys, and
\* that no binding is to a role of another Organization (TypeOK).
THEOREM DatabaseIsWellFormed == Spec => []TypeOK
<1>1. Inv => TypeOK
  BY DEF Inv, DbInv, TypeOK, Purgeable
<1> QED
  BY <1>1, InvAlways, PTL

\* What a resolution of a variable answers is right for whatever was there from
\* its first read to its last (resolve_variable.go:54): no create, update or
\* delete in between makes it miss a variable that stays, or prefer a less
\* specific one.
THEOREM ResolutionIsRight == Spec => []ResolutionHonoursWhatStays
<1>1. Inv => ResolutionHonoursWhatStays
  <2>1. SUFFICES ASSUME Inv, NEW q \in Request, request[q].op = "resolved",
                        NEW v \in Applicable(request[q].from, request[q].workspace, request[q].key),
                        \E x \in request[q].to : x.id = v.id
                 PROVE  /\ request[q].found # {}
                        /\ \A x \in request[q].from \cup request[q].to :
                              x.id \in request[q].found =>
                                  Distance(x.scopeType) <= Distance(v.scopeType)
    BY DEF ResolutionHonoursWhatStays
  <2>2. Honours(request[q])
    BY <2>1 DEF Inv, RequestsOK, ResolveOK
  <2> QED
    BY <2>1, <2>2 DEF Honours
<1> QED
  BY <1>1, InvAlways, PTL

\* Whatever the reaper purges is archived and past its window, or gone already
\* (purge_reaper.go:57), although its list grows old while others archive,
\* delete and create Organizations.
THEOREM ReaperPurgesWhatIsDue == Spec => ReaperPurgesOnlyDueArchived
<1>1. Inv /\ [Next]_vars =>
        [\A o \in reaper \ reaper' :
            OrgExists(o) => IsArchived(o) /\ [org |-> o, due |-> TRUE] \in db.archivals]_vars
  BY DEF Inv, Purgeable, OrgExists, Exists, IsArchived, ArchivedIn, DueIn
<1> QED
  BY <1>1, InvAlways, PTL DEF Spec, ReaperPurgesOnlyDueArchived

\* The bindings that match at several scopes are those that match at each; no
\* binding is at scope 0.
LEMMA MatchesUnion ==
    ASSUME TypeOK, NEW o, NEW s, NEW p, NEW A, NEW B
    PROVE  /\ Matches(o, s, p, A \cup B) = Matches(o, s, p, A) \cup Matches(o, s, p, B)
           /\ \A y : Matches(o, s, p, {<<y, 0>>}) = {}
<1>1. Matches(o, s, p, A \cup B) = Matches(o, s, p, A) \cup Matches(o, s, p, B)
  BY DEF Matches
<1>2. db.bindings \subseteq RoleBinding
  BY DatabaseTypes DEF TypeOK, WellFormed
<1>3. \A b \in db.bindings : b.scope # 0
  BY <1>2, AccessAssumption DEF RoleBinding, Id
<1> QED
  BY <1>1, <1>3 DEF Matches

\* The permission decision is the one that the domain model describes, in every
\* database that the requests can leave behind (GrantsCascadeUnlessDenied).
THEOREM GrantsCascade == Spec => []GrantsCascadeUnlessDenied
<1>1. ASSUME TypeOK PROVE GrantsCascadeUnlessDenied
  <2> USE DEF GrantsCascadeUnlessDenied
  <2> TAKE w \in db.workspaces
  <2> TAKE c \in RequireAuth, p \in Permission
  <2> DEFINE O == Matches(w.org, c.subject, p, {<<"organization", w.org>>})
             P == Matches(w.org, c.subject, p, {<<"project", w.project>>})
             W == Matches(w.org, c.subject, p, {<<"workspace", w.id>>})
             OP == Matches(w.org, c.subject, p,
                           {<<"organization", w.org>>, <<"project", w.project>>})
             Deny(M) == \E b \in M : b.effect = "deny"
             inProject == HasPermissionAtScope(c, w.org, p, w.project, 0)
             inWorkspace == HasPermissionAtScope(c, w.org, p, w.project, w.id)
  <2>1. SUFFICES /\ (HasPermission(c, w.org, p) /\ ~Deny(P)) => inProject
                 /\ (inProject /\ ~Deny(W)) => inWorkspace
                 /\ Deny(O) => (~inProject /\ ~inWorkspace)
                 /\ Deny(P) => (~inProject /\ ~inWorkspace)
                 /\ (HasScopedPermission(c, w.org, p, "project", w.project) /\ ~Deny(O))
                       => inProject
                 /\ (HasScopedPermission(c, w.org, p, "workspace", w.id) /\ ~Deny(OP))
                       => inWorkspace
    OBVIOUS
  <2>2. OP = O \cup P
    <3>1. {<<"organization", w.org>>, <<"project", w.project>>}
            = {<<"organization", w.org>>} \cup {<<"project", w.project>>}
      OBVIOUS
    <3> QED
      BY <1>1, <3>1, MatchesUnion
  <2>3. ASSUME NEW i, NEW j
        PROVE  Matches(w.org, c.subject, p, {<<"organization", w.org>>, <<"project", i>>, <<"workspace", j>>})
                 = O \cup Matches(w.org, c.subject, p, {<<"project", i>>})
                     \cup Matches(w.org, c.subject, p, {<<"workspace", j>>})
    <3>1. {<<"organization", w.org>>, <<"project", i>>, <<"workspace", j>>}
            = ({<<"organization", w.org>>} \cup {<<"project", i>>}) \cup {<<"workspace", j>>}
      OBVIOUS
    <3>2. /\ Matches(w.org, c.subject, p, ({<<"organization", w.org>>} \cup {<<"project", i>>})
                                            \cup {<<"workspace", j>>})
             = Matches(w.org, c.subject, p, {<<"organization", w.org>>} \cup {<<"project", i>>})
               \cup Matches(w.org, c.subject, p, {<<"workspace", j>>})
          /\ Matches(w.org, c.subject, p, {<<"organization", w.org>>} \cup {<<"project", i>>})
             = Matches(w.org, c.subject, p, {<<"organization", w.org>>})
               \cup Matches(w.org, c.subject, p, {<<"project", i>>})
      BY <1>1, MatchesUnion
    <3> QED
      BY <3>1, <3>2
  <2>4. \A y : Matches(w.org, c.subject, p, {<<y, 0>>}) = {}
    BY <1>1, MatchesUnion
  <2>5. /\ HasPermission(c, w.org, p) <=> p \in c.scopes /\ Decide(O)
        /\ HasPermissionAtScope(c, w.org, p, w.project, 0) <=> p \in c.scopes /\ Decide(O \cup P)
        /\ HasPermissionAtScope(c, w.org, p, w.project, w.id)
             <=> p \in c.scopes /\ Decide(O \cup P \cup W)
    <3>1. /\ O \cup {} \cup {} = O /\ O \cup P \cup {} = O \cup P
      OBVIOUS
    <3>2. HasPermission(c, w.org, p) <=> p \in c.scopes /\ Decide(O \cup {} \cup {})
      BY <2>3, <2>4 DEF HasPermission, HasPermissionAtScope
    <3>3. HasPermissionAtScope(c, w.org, p, w.project, 0)
             <=> p \in c.scopes /\ Decide(O \cup P \cup {})
      BY <2>3, <2>4 DEF HasPermissionAtScope
    <3>4. HasPermissionAtScope(c, w.org, p, w.project, w.id)
             <=> p \in c.scopes /\ Decide(O \cup P \cup W)
      BY <2>3 DEF HasPermissionAtScope
    <3> QED
      BY <3>1, <3>2, <3>3, <3>4
  <2>6. /\ HasScopedPermission(c, w.org, p, "project", w.project) <=> p \in c.scopes /\ Decide(P)
        /\ HasScopedPermission(c, w.org, p, "workspace", w.id) <=> p \in c.scopes /\ Decide(W)
    BY DEF HasScopedPermission
  <2> HIDE DEF O, P, W, OP
  <2> QED
    BY <2>2, <2>5, <2>6 DEF Decide
<1> QED
  BY <1>1, DatabaseIsWellFormed, PTL

-----------------------------------------------------------------------------
(* The refinement.                                                          *)

\* The abstract state of a database.
StatusIn(d, o) ==
    IF Exists(d, o) THEN IF ArchivedIn(d, o) THEN "archived" ELSE "active"
    ELSE IF o < d.next THEN "gone" ELSE "unused"
Statuses(d) == [o \in Id |-> StatusIn(d, o)]
Contents(d) == UNION {{[org |-> x.org, row |-> <<t, x>>] : x \in {y \in d[t] : y.org # 0}} :
                         t \in OrgTable}

LEMMA AbstractState ==
    /\ [o \in Id |-> StatusOf(o)] = Statuses(db)
    /\ UNION {Rows(t) : t \in OrgTable} = Contents(db)
<1>1. [o \in Id |-> StatusOf(o)] = Statuses(db)
  BY DEF Statuses, StatusOf, StatusIn, OrgExists, Exists, IsArchived, ArchivedIn
<1>2. UNION {Rows(t) : t \in OrgTable} = Contents(db)
  BY DEF Rows, Contents
<1> QED
  BY <1>1, <1>2

\* What the content consists of.
LEMMA ContentRows ==
    ASSUME NEW d, NEW c
    PROVE  c \in Contents(d) <=> \E t \in OrgTable : \E x \in d[t] :
                                    x.org # 0 /\ c = [org |-> x.org, row |-> <<t, x>>]
BY DEF Contents

\* A step that touches rows of one Organization touches content of one.
LEMMA ContentTouched ==
    ASSUME NEW d, NEW e, NEW o, Touches(d, e, o)
    PROVE  \A c \in (Contents(d) \ Contents(e)) \cup (Contents(e) \ Contents(d)) : c.org = o
<1>1. ASSUME NEW f, NEW g, NEW c \in Contents(f), c \notin Contents(g),
             \A t \in OrgTable : \A x \in f[t] : x \notin g[t] => x.org = o
      PROVE  c.org = o
  <2>0. PICK t \in OrgTable : \E x \in f[t] : x.org # 0 /\ c = [org |-> x.org, row |-> <<t, x>>]
    BY <1>1, ContentRows
  <2>1. PICK x \in f[t] : x.org # 0 /\ c = [org |-> x.org, row |-> <<t, x>>]
    BY <2>0
  <2>2. x \notin g[t]
    BY <1>1, <2>1, ContentRows
  <2> QED
    BY <1>1, <2>1, <2>2
<1>2. /\ \A t \in OrgTable : \A x \in d[t] : x \notin e[t] => x.org = o
      /\ \A t \in OrgTable : \A x \in e[t] : x \notin d[t] => x.org = o
  BY DEF Touches
<1> QED
  BY <1>1, <1>2

LEMMA SameContent ==
    ASSUME NEW d, NEW e, \A t \in OrgTable : e[t] = d[t]
    PROVE  Contents(e) = Contents(d)
<1>1. \A c : c \in Contents(e) <=> c \in Contents(d)
  BY ContentRows
<1> QED
  BY <1>1

\* What becomes of the statuses.
WithStatus(d, o, s) == [Statuses(d) EXCEPT ![o] = s]

LEMMA StatusBasics ==
    ASSUME NEW ow, NEW d, DbInv(ow, d)
    PROVE  /\ d.next \in Nat /\ Id \subseteq Nat
           /\ ~Exists(d, d.next) /\ \A i \in Id : Exists(d, i) => i < d.next
           /\ d.next \in Id => Statuses(d)[d.next] = "unused"
<1>1. d.next \in Nat /\ Id \subseteq Nat
  BY DatabaseTypes DEF DbInv, WellFormed, Id
<1>2. ~Exists(d, d.next) /\ \A i \in Id : Exists(d, i) => i < d.next
  BY <1>1 DEF DbInv, Owned, Exists
<1>3. ASSUME d.next \in Id PROVE Statuses(d)[d.next] = "unused"
  BY <1>1, <1>2, <1>3 DEF Statuses, StatusIn
<1> QED
  BY <1>1, <1>2, <1>3

LEMMA OneStatusChanges ==
    ASSUME NEW d, NEW e, NEW i \in Id, NEW s,
           \A j \in Id \ {i} : StatusIn(e, j) = StatusIn(d, j), StatusIn(e, i) = s
    PROVE  Statuses(e) = WithStatus(d, i, s)
BY DEF Statuses, WithStatus

LEMMA SameOrgs ==
    ASSUME NEW d, NEW e, e.orgs = d.orgs
    PROVE  \A i : (Exists(e, i) <=> Exists(d, i)) /\ (ArchivedIn(e, i) <=> ArchivedIn(d, i))
BY DEF Exists, ArchivedIn

LEMMA StatusStays ==
    ASSUME NEW d, NEW e, Stays(d, e)
    PROVE  Statuses(e) = Statuses(d)
BY DEF Stays, Statuses, StatusIn, Exists, ArchivedIn

LEMMA StatusCreates ==
    ASSUME NEW ow, NEW d, NEW e, DbInv(ow, d), Creates(d, e)
    PROVE  Statuses(e) = WithStatus(d, d.next, "active")
<1>0. /\ d.next \in Nat /\ Id \subseteq Nat
      /\ ~Exists(d, d.next) /\ \A i \in Id : Exists(d, i) => i < d.next
      /\ d.next \in Id => Statuses(d)[d.next] = "unused"
  BY StatusBasics
<1>1. /\ d.next \in Id /\ e.next = d.next + 1
      /\ e.orgs = d.orgs \cup {[id |-> d.next, archived |-> FALSE]}
  BY DEF Creates
<1>2. \A i \in Id \ {d.next} : i < e.next <=> i < d.next
  <2>1. e.next = d.next + 1
    BY <1>1
  <2> QED
    BY <1>0, <2>1
<1>3. PICK new : new = [id |-> d.next, archived |-> FALSE]
  OBVIOUS
<1>4. new.id = d.next
  BY <1>3
<1>5. ASSUME NEW i \in Id \ {d.next}
      PROVE  (Exists(e, i) <=> Exists(d, i)) /\ (ArchivedIn(e, i) <=> ArchivedIn(d, i))
  <2>1. [id |-> i, archived |-> TRUE].id = i
    OBVIOUS
  <2>2. [id |-> i, archived |-> TRUE] # new
    BY <1>4, <2>1
  <2> QED
    BY <1>1, <1>3, <1>4, <2>2 DEF Exists, ArchivedIn
<1>6. Exists(e, d.next)
  BY <1>1, <1>3, <1>4 DEF Exists
<1>7. ~ArchivedIn(e, d.next)
  <2>1. [id |-> d.next, archived |-> TRUE].archived = TRUE /\ new.archived = FALSE
    BY <1>3
  <2>2. [id |-> d.next, archived |-> TRUE] # new
    BY <2>1
  <2>3. [id |-> d.next, archived |-> TRUE].id = d.next
    OBVIOUS
  <2>4. [id |-> d.next, archived |-> TRUE] \notin d.orgs
    BY <1>0, <2>3 DEF Exists
  <2> QED
    BY <1>1, <1>3, <2>2, <2>4 DEF ArchivedIn
<1> QED
  BY OneStatusChanges, <1>1, <1>2, <1>5, <1>6, <1>7 DEF StatusIn

LEMMA StatusWorks ==
    ASSUME NEW ow, NEW d, NEW e, DbInv(ow, d), NEW o \in Id, Works(d, e, o)
    PROVE  \/ Statuses(e) = Statuses(d)
           \/ /\ d.next \in Id /\ Statuses(d)[d.next] = "unused"
              /\ Statuses(e) = WithStatus(d, d.next, "gone")
<1>0. /\ d.next \in Nat /\ Id \subseteq Nat
      /\ ~Exists(d, d.next) /\ \A i \in Id : Exists(d, i) => i < d.next
      /\ d.next \in Id => Statuses(d)[d.next] = "unused"
  BY StatusBasics
<1>1. e.orgs = d.orgs /\ Draws(d, e)
  BY DEF Works
<1>2. CASE e.next = d.next
  BY <1>1, <1>2 DEF Statuses, StatusIn, Exists, ArchivedIn
<1>3. CASE d.next \in Id /\ e.next = d.next + 1
  <2>1. \A i \in Id \ {d.next} : i < e.next <=> i < d.next
    BY <1>0, <1>3
  <2>2. d.next < e.next
    BY <1>0, <1>3
  <2>3. \A i \in Id \ {d.next} : StatusIn(e, i) = StatusIn(d, i)
    BY SameOrgs, <1>1, <2>1 DEF StatusIn
  <2>4. StatusIn(e, d.next) = "gone"
    BY <1>0, SameOrgs, <1>1, <2>2 DEF StatusIn
  <2> QED
    BY OneStatusChanges, <1>0, <1>3, <2>3, <2>4
<1> QED
  BY <1>1, <1>2, <1>3 DEF Draws

LEMMA StatusArchives ==
    ASSUME NEW d, NEW e, NEW o \in Id, Archives(d, e, o)
    PROVE  Statuses(e) = WithStatus(d, o, "archived")
<1>1. /\ Exists(d, o) /\ e.next = d.next
      /\ \A i \in Id : Exists(e, i) <=> Exists(d, i)
      /\ \A i \in Id : ArchivedIn(e, i) <=> ArchivedIn(d, i) \/ i = o
  BY DEF Archives
<1>2. \A i \in Id \ {o} : StatusIn(e, i) = StatusIn(d, i)
  BY <1>1 DEF StatusIn
<1>3. StatusIn(e, o) = "archived"
  BY <1>1 DEF StatusIn
<1> QED
  BY OneStatusChanges, <1>2, <1>3

LEMMA StatusRemoves ==
    ASSUME NEW ow, NEW d, NEW e, DbInv(ow, d), NEW o \in Id, Removes(d, e, o)
    PROVE  Statuses(e) = WithStatus(d, o, "gone")
<1>0. /\ d.next \in Nat /\ Id \subseteq Nat
      /\ ~Exists(d, d.next) /\ \A i \in Id : Exists(d, i) => i < d.next
      /\ d.next \in Id => Statuses(d)[d.next] = "unused"
  BY StatusBasics
<1>1. /\ Exists(d, o) /\ e.next = d.next /\ e.orgs = {x \in d.orgs : x.id # o}
  BY DEF Removes
<1>2. ASSUME NEW i \in Id \ {o}
      PROVE  (Exists(e, i) <=> Exists(d, i)) /\ (ArchivedIn(e, i) <=> ArchivedIn(d, i))
  <2>1. [id |-> i, archived |-> TRUE].id = i
    OBVIOUS
  <2> QED
    BY <1>1, <2>1 DEF Exists, ArchivedIn
<1>3. ~Exists(e, o) /\ o < e.next
  BY <1>0, <1>1 DEF Exists
<1>4. \A i \in Id \ {o} : StatusIn(e, i) = StatusIn(d, i)
  BY <1>1, <1>2 DEF StatusIn
<1>5. StatusIn(e, o) = "gone"
  BY <1>3 DEF StatusIn
<1> QED
  BY OneStatusChanges, <1>4, <1>5

\* What belongs to an Organization belongs to one that is there.
LEMMA ContentIsPresent ==
    ASSUME NEW ow, NEW d, DbInv(ow, d)
    PROVE  /\ Statuses(d) \in [Id -> {"unused", "active", "archived", "gone"}]
           /\ \A o \in Id : Exists(d, o) <=> Statuses(d)[o] \in {"active", "archived"}
           /\ \A c \in Contents(d) : c.org \in Id /\ Exists(d, c.org)
<1>1. Statuses(d) \in [Id -> {"unused", "active", "archived", "gone"}]
  BY DEF Statuses, StatusIn
<1>2. \A o \in Id : Exists(d, o) <=> Statuses(d)[o] \in {"active", "archived"}
  BY DEF Statuses, StatusIn
<1>3. ASSUME NEW c \in Contents(d) PROVE c.org \in Id /\ Exists(d, c.org)
  <2>1. PICK t \in OrgTable : \E x \in d[t] : x.org # 0 /\ c = [org |-> x.org, row |-> <<t, x>>]
    BY <1>3, ContentRows
  <2>2. PICK x \in d[t] : x.org # 0 /\ c = [org |-> x.org, row |-> <<t, x>>]
    BY <2>1
  <2>3. PICK y \in d.orgs : y.id = x.org
    BY <2>2 DEF DbInv, WellFormed, ForeignKeys
  <2>4. y.id \in Id
    BY DatabaseTypes DEF DbInv, WellFormed, Organizations
  <2> QED
    BY <2>2, <2>3, <2>4 DEF Exists
<1> QED
  BY <1>1, <1>2, <1>3

\* The Organizations are tenants (OrganizationLifecycle): a step touches what
\* belongs to one of them, one that is removed leaves nothing behind and does not
\* come back, and one that is archived is never active again.
THEOREM OrganizationsAreTenants == Spec => ImplementsOrganizationLifecycle
<1>1. Inv /\ Init => Lifecycle!Init
  <2>1. SUFFICES ASSUME Inv PROVE Lifecycle!Init
    OBVIOUS
  <2>2. PICK ow : DbInv(ow, db)
    BY <2>1 DEF Inv
  <2>3. /\ Statuses(db) \in [Id -> {"unused", "active", "archived", "gone"}]
        /\ \A o \in Id : Exists(db, o) <=> Statuses(db)[o] \in {"active", "archived"}
        /\ \A c \in Contents(db) : c.org \in Id /\ Exists(db, c.org)
    BY <2>2, ContentIsPresent
  <2> QED
    BY <2>3, AbstractState DEF Lifecycle!Init, Lifecycle!Present
<1>2. Inv /\ [Next]_vars => [Lifecycle!Next]_Lifecycle!vars
  <2>1. SUFFICES ASSUME Inv, [Next]_vars PROVE [Lifecycle!Next]_Lifecycle!vars
    OBVIOUS
  <2>2. PICK ow : DbInv(ow, db) /\ Evolves(ow, db, db')
    BY <2>1, InvStep
  <2>3. PICK d, e : d = db /\ e = db' /\ DbInv(ow, d) /\ Refines(d, e) /\ e \in Database
    BY <2>2 DEF Evolves, Becomes, DbInv, WellFormed
  <2>4. /\ [o \in Id |-> StatusOf(o)] = Statuses(d)
        /\ UNION {Rows(t) : t \in OrgTable} = Contents(d)
    BY <2>3, AbstractState
  <2>5. /\ [o \in Id |-> StatusOf(o)]' = Statuses(e)
        /\ (UNION {Rows(t) : t \in OrgTable})' = Contents(e)
    <3>1. ([o \in Id |-> StatusOf(o)] = Statuses(db))'
      BY AbstractState, PTL
    <3>2. (UNION {Rows(t) : t \in OrgTable} = Contents(db))'
      BY AbstractState, PTL
    <3> QED
      BY <2>3, <3>1, <3>2
  <2>6. \A o \in Id : Exists(d, o) => Statuses(d)[o] \in {"active", "archived"}
    BY <2>3, ContentIsPresent
  <2>7. CASE Stays(d, e)
    <3>1. Statuses(e) = Statuses(d) /\ Contents(e) = Contents(d)
      BY <2>7, StatusStays, SameContent DEF Stays
    <3> QED
      BY <2>4, <2>5, <3>1 DEF Lifecycle!vars
  <2>8. CASE Creates(d, e)
    <3>1. /\ d.next \in Id /\ Statuses(d)[d.next] = "unused"
          /\ Statuses(e) = WithStatus(d, d.next, "active")
          /\ Contents(e) = Contents(d)
      BY <2>3, <2>8, StatusBasics, StatusCreates, SameContent DEF Creates
    <3>2. Lifecycle!Create(d.next)
      BY <2>4, <2>5, <3>1 DEF Lifecycle!Create, WithStatus
    <3> QED
      BY <3>1, <3>2 DEF Lifecycle!Next
  <2>9. ASSUME NEW o \in Id, Works(d, e, o) PROVE Lifecycle!Next
    <3>1. \/ Statuses(e) = Statuses(d)
          \/ /\ d.next \in Id /\ Statuses(d)[d.next] = "unused"
             /\ Statuses(e) = WithStatus(d, d.next, "gone")
      BY <2>3, <2>9, StatusWorks
    <3>2. \A c \in (Contents(d) \ Contents(e)) \cup (Contents(e) \ Contents(d)) : c.org = o
      BY <2>9, ContentTouched DEF Works
    <3>3. Lifecycle!Work(o)
      BY <2>4, <2>5, <3>1, <3>2 DEF Lifecycle!Work, Lifecycle!Touches, WithStatus
    <3>4. o \in Lifecycle!Present
      BY <2>4, <2>6, <2>9 DEF Lifecycle!Present, Works
    <3> QED
      BY <3>3, <3>4 DEF Lifecycle!Next
  <2>10. ASSUME NEW o \in Id, Archives(d, e, o) PROVE Lifecycle!Next
    <3>1. Statuses(e) = WithStatus(d, o, "archived")
      BY <2>3, <2>10, StatusArchives
    <3>2. \A c \in (Contents(d) \ Contents(e)) \cup (Contents(e) \ Contents(d)) : c.org = o
      BY <2>10, ContentTouched DEF Archives
    <3>3. Lifecycle!Archive(o)
      BY <2>4, <2>5, <3>1, <3>2 DEF Lifecycle!Archive, Lifecycle!Touches, WithStatus
    <3>4. o \in Lifecycle!Present
      BY <2>4, <2>6, <2>10 DEF Lifecycle!Present, Archives
    <3> QED
      BY <3>3, <3>4 DEF Lifecycle!Next
  <2>11. ASSUME NEW o \in Id, Removes(d, e, o) PROVE Lifecycle!Next
    <3>1. Statuses(e) = WithStatus(d, o, "gone")
      BY <2>3, <2>11, StatusRemoves
    <3>2. \A c \in (Contents(d) \ Contents(e)) \cup (Contents(e) \ Contents(d)) : c.org = o
      BY <2>11, ContentTouched DEF Removes
    <3>3. ASSUME NEW c \in Contents(e) PROVE c.org # o
      <4>1. PICK t \in OrgTable : \E x \in e[t] : c = [org |-> x.org, row |-> <<t, x>>]
        BY ContentRows
      <4>2. PICK x \in e[t] : c = [org |-> x.org, row |-> <<t, x>>]
        BY <4>1
      <4> QED
        BY <2>11, <4>2 DEF Removes
    <3>4. Lifecycle!Remove(o)
      BY <2>4, <2>5, <3>1, <3>2, <3>3 DEF Lifecycle!Remove, Lifecycle!Touches, WithStatus
    <3>5. o \in Lifecycle!Present
      BY <2>4, <2>6, <2>11 DEF Lifecycle!Present, Removes
    <3> QED
      BY <3>4, <3>5 DEF Lifecycle!Next
  <2> QED
    BY <2>3, <2>7, <2>8, <2>9, <2>10, <2>11 DEF Refines
<1>3. Lifecycle!Init /\ [][Lifecycle!Next]_Lifecycle!vars => Lifecycle!Spec
  BY DEF Lifecycle!Spec
<1> QED
  BY <1>1, <1>2, <1>3, InvAlways, PTL DEF Spec, ImplementsOrganizationLifecycle

=============================================================================
