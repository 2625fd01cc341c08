-------------------------- MODULE ProjectResources -------------------------
(***************************************************************************)
(* What a project holds: environments, workspaces and the variables of     *)
(* each scope, with the resolution of a variable along the cascade; and    *)
(* the specification of the whole: the requests of every context and the   *)
(* Purge Reaper.                                                           *)
(***************************************************************************)
EXTENDS Tenancy

vars == tenancyVars

VariableScope == {"workspace", "environment", "project", "organization"}

Environment == [org : Id, project : Id, id : Id]
Workspace == [org : Id, project : Id, id : Id, environment : Id \cup {0}]
Variable == [org : Id, id : Id, scopeType : VariableScope, scope : Id, key : Key,
             secret : BOOLEAN]

-----------------------------------------------------------------------------
(* The schema.                                                              *)

Database ==
    [orgs : SUBSET Organizations, archivals : SUBSET ArchivalEvent,
     members : SUBSET OrganizationMembership, teams : SUBSET Team,
     teamMembers : SUBSET TeamMembership, projects : SUBSET Project,
     environments : SUBSET Environment, workspaces : SUBSET Workspace,
     roles : SUBSET Role, bindings : SUBSET RoleBinding,
     accounts : SUBSET ServiceAccount, apiKeys : SUBSET APIKey,
     variables : SUBSET Variable, admins : SUBSET User, next : Nat]

\* The tables whose rows belong to an Organization, except that a built-in
\* role belongs to none; and those whose rows have a UUID of their own.
OrgTable == {"archivals", "members", "teams", "teamMembers", "projects", "environments",
             "workspaces", "roles", "bindings", "accounts", "apiKeys", "variables"}
IdTable == (OrgTable \ {"archivals", "members", "teamMembers"}) \cup {"orgs"}

ForeignKeys(d) ==
    /\ \A t \in OrgTable : \A x \in d[t] : x.org # 0 => \E o \in d.orgs : o.id = x.org
    /\ \A b \in d.bindings : \E r \in d.roles : r.id = b.role
    /\ \A t \in d.teamMembers : RowExists(d.teams, t.org, t.team)
    /\ \A x \in d.environments \cup d.workspaces : RowExists(d.projects, x.org, x.project)

UniqueKeys(d) ==
    /\ \A t, u \in d.teams : t.org = u.org /\ t.name = u.name => t = u
    /\ \A b, c \in d.bindings : SameBinding(b, c) => b = c
    /\ \A v, w \in d.variables :
          v.scopeType = w.scopeType /\ v.scope = w.scope /\ v.key = w.key => v = w

\* The rows that a binding and a variable point at, none of which is a foreign
\* key; and the environment of a workspace, which is no foreign key either.
SubjectExists(d, b) ==
    \/ b.subjectType = "user" /\ \E m \in d.members : m.org = b.org /\ m.user = b.subject
    \/ b.subjectType = "team" /\ RowExists(d.teams, b.org, b.subject)
    \/ b.subjectType # "team" /\ RowExists(d.accounts, b.org, b.subject)
ScopeExists(d, x) ==
    \/ x.scopeType = "organization" /\ x.scope = x.org
    \/ x.scopeType = "project" /\ RowExists(d.projects, x.org, x.scope)
    \/ x.scopeType = "environment" /\ RowExists(d.environments, x.org, x.scope)
    \/ x.scopeType = "workspace" /\ RowExists(d.workspaces, x.org, x.scope)
NothingDangles(d) ==
    /\ \A b \in d.bindings : SubjectExists(d, b) /\ ScopeExists(d, b)
    /\ \A v \in d.variables : ScopeExists(d, v)
    /\ \A w \in d.workspaces :
          \/ w.environment = 0
          \/ [org |-> w.org, project |-> w.project, id |-> w.environment] \in d.environments

\* What the checks of the services add to the schema for every database: the
\* built-in roles are there and stay as they are, a binding is to one of them
\* or to a role of its own Organization, and what is announced as archived is.
WellFormed(d) ==
    /\ d \in Database
    /\ ForeignKeys(d) /\ UniqueKeys(d)
    /\ BuiltinRoles \subseteq d.roles
    /\ \A r \in d.roles : r.org = 0 => r \in BuiltinRoles
    /\ \A b \in d.bindings : \A r \in d.roles : r.id = b.role => r.org \in {0, b.org}
    /\ \A e \in d.archivals : [id |-> e.org, archived |-> TRUE] \in d.orgs

\* A UUID is drawn once, for one row or one user.
IdsAreDrawn(d) ==
    /\ \A u \in User : u < d.next
    /\ \A t \in IdTable : \A x \in d[t] : x.id < d.next /\ x.id \notin User
    /\ \A t, u \in IdTable : \A x \in d[t], y \in d[u] : x.id = y.id => t = u /\ x = y

\* The databases to start from are such as requests without overlap leave.
ASSUME InitialAssumption ==
    \A i \in InitialState : WellFormed(i.db) /\ NothingDangles(i.db) /\ IdsAreDrawn(i.db)

-----------------------------------------------------------------------------
(* Environments and workspaces.                                             *)

InsertEnvironment(o, p) ==
    Insert(RowExists(db.projects, o, p),
           [db EXCEPT !.environments = @ \cup {[org |-> o, project |-> p,
                                                id |-> db.next]}])

CreateEnvironment(q) ==
    \/ \E p \in db.projects :
          /\ May(p.org, "organization:manage")
          /\ Checked(q, [op |-> "createEnvironment", org |-> p.org, project |-> p.id])
    \/ /\ Answers(q, "createEnvironment")
       /\ InsertEnvironment(request[q].org, request[q].project)

\* environment_id is no foreign key.
InsertWorkspace(o, p, e) ==
    Insert(RowExists(db.projects, o, p),
           [db EXCEPT !.workspaces = @ \cup {[org |-> o, project |-> p, id |-> db.next,
                                              environment |-> e]}])

CreateWorkspace(q) ==
    \/ \E p \in db.projects, e \in {0} \cup {x.id : x \in db.environments} :
          /\ MayAt(p.org, "workspace:manage", p.id, 0)
          /\ ~IsArchived(p.org)
          /\ e # 0 => [org |-> p.org, project |-> p.id, id |-> e] \in db.environments
          /\ Checked(q, [op |-> "createWorkspace", org |-> p.org, project |-> p.id,
                         environment |-> e])
    \/ /\ Answers(q, "createWorkspace")
       /\ InsertWorkspace(request[q].org, request[q].project, request[q].environment)

PurgeWorkspace(o, i) ==
    db' = [db EXCEPT
        !.variables = {v \in @ : ~(v.scopeType = "workspace" /\ v.scope = i)},
        !.bindings = {b \in @ : ~(b.scopeType = "workspace" /\ b.scope = i)},
        !.workspaces = {w \in @ : ~(w.org = o /\ w.id = i)}]

DeleteWorkspace(q) ==
    \/ \E w \in db.workspaces :
          /\ MayAt(w.org, "workspace:delete", w.project, w.id)
          /\ Checked(q, [op |-> "deleteWorkspace", org |-> w.org, workspace |-> w.id])
    \/ /\ Answers(q, "deleteWorkspace")
       /\ PurgeWorkspace(request[q].org, request[q].workspace)

-----------------------------------------------------------------------------
(* Variables.                                                               *)

RequiredPermissionForScope(type) ==
    IF type = "workspace" THEN "workspace:manage" ELSE "organization:manage"

ResolveScope(o) == ValidScope(o) \cup ({"environment"} \X Ids(db.environments, o))

At(variables, type, s, k) ==
    {v \in variables : v.scopeType = type /\ v.scope = s /\ v.key = k}

InsertVariable(o, type, s, k, secret) ==
    Insert(OrgExists(o) /\ At(db.variables, type, s, k) = {},
           [db EXCEPT !.variables =
              @ \cup {[org |-> o, id |-> db.next, scopeType |-> type, scope |-> s,
                       key |-> k, secret |-> secret]}])

CreateVariable(q) ==
    \/ \E o \in Organization : \E s \in ResolveScope(o), k \in Key, secret \in BOOLEAN :
          /\ May(o, RequiredPermissionForScope(s[1]))
          /\ ~IsArchived(o)
          /\ Checked(q, [op |-> "createVariable", org |-> o, scopeType |-> s[1],
                         scope |-> s[2], key |-> k, secret |-> secret])
    \/ /\ Answers(q, "createVariable")
       /\ InsertVariable(request[q].org, request[q].scopeType, request[q].scope,
                         request[q].key, request[q].secret)

\* An update leaves a literal value, and no secret reference.
UpdateVariableRow(o, i) ==
    db' = [db EXCEPT !.variables =
             {IF v.org = o /\ v.id = i THEN [v EXCEPT !.secret = FALSE] ELSE v : v \in @}]

UpdateVariable(q) ==
    \/ \E v \in db.variables :
          /\ May(v.org, RequiredPermissionForScope(v.scopeType))
          /\ Checked(q, [op |-> "updateVariable", org |-> v.org, id |-> v.id])
    \/ Answers(q, "updateVariable") /\ UpdateVariableRow(request[q].org, request[q].id)

DeleteVariableRow(o, i) ==
    db' = [db EXCEPT !.variables = {v \in @ : ~(v.org = o /\ v.id = i)}]

DeleteVariable(q) ==
    \/ \E v \in db.variables :
          /\ May(v.org, RequiredPermissionForScope(v.scopeType))
          /\ Checked(q, [op |-> "deleteVariable", org |-> v.org, id |-> v.id])
    \/ Answers(q, "deleteVariable") /\ DeleteVariableRow(request[q].org, request[q].id)

\* Mutant: a project comes before its environments.
CascadeProjectFirst(w) ==
    <<<<"workspace", w.id>>, <<"project", w.project>>,
      <<"environment", w.environment>>, <<"organization", w.org>>>>

\* The scopes that a resolution goes through, the most specific one first.
\* No variable has scope 0, the environment of a workspace without one.
ScopeCascade(w) ==
    <<<<"workspace", w.id>>, <<"environment", w.environment>>,
      <<"project", w.project>>, <<"organization", w.org>>>>

\* Each scope is read in a transaction of its own; the first variable found
\* is the answer.  from and to are the variables as they were at the start
\* and are at the end.
ResolveVariable(q) ==
    \/ \E w \in db.workspaces, k \in Key :
          /\ \E c \in RequireAuth : IsMember(w.org, c.subject)
          /\ Checked(q, [op |-> "resolve", workspace |-> w, key |-> k, level |-> 1,
                         from |-> db.variables])
    \/ LET r == request[q]
           scope == ScopeCascade(r.workspace)[r.level]
           found == At(db.variables, scope[1], scope[2], r.key)
       IN  /\ UNCHANGED db
           /\ Goes(q, "resolve",
                   IF found = {} /\ r.level < 4
                   THEN [r EXCEPT !.level = @ + 1]
                   ELSE [op |-> "resolved", workspace |-> r.workspace, key |-> r.key,
                         found |-> {v.id : v \in found}, from |-> r.from,
                         to |-> db.variables])

ResourceRequest(q) ==
    \/ CreateEnvironment(q) \/ CreateWorkspace(q) \/ DeleteWorkspace(q)
    \/ CreateVariable(q) \/ UpdateVariable(q) \/ DeleteVariable(q)
    \/ ResolveVariable(q)

-----------------------------------------------------------------------------
(* The specification.                                                       *)

Init ==
    \E i \in InitialState :
        /\ db = i.db
        /\ request = [q \in Request |-> IF q \in i.requests THEN Idle ELSE Ended]
        /\ overlap = FALSE
        /\ reaper = {}

Next ==
    \/ \E q \in Request :
          /\ AccessRequest(q) \/ TenancyRequest(q) \/ ResourceRequest(q) \/ Breaks(q)
          /\ UNCHANGED reaper
    \/ Reaper

\* Time passes, and the reaper's ticker fires; a purge that fails is tried
\* again by the next sweep.
Fairness ==
    /\ WF_vars(\E o \in Id : WindowPasses(o))
    /\ WF_vars(ReaperScan)
    /\ WF_vars(\E o \in Id : ReaperPurge(o))

Spec == Init /\ [][Next]_vars /\ Fairness

-----------------------------------------------------------------------------
(* Properties.                                                              *)

\* Every table has its type, every foreign key its row, every UNIQUE
\* constraint of teams, bindings and variables holds, no binding is to a role
\* of another Organization, and every archival event is of an archived
\* Organization (migrations/0001_init.up.sql and later).
TypeOK ==
    /\ WellFormed(db)
    /\ DOMAIN request = Request /\ overlap \in BOOLEAN /\ reaper \subseteq Id

\* As long as no two requests have overlapped, no binding points at a user
\* who has left, a deleted team, project or workspace, no variable at a
\* deleted scope and no workspace at an environment that is deleted or of
\* another project: the cleanup in RemoveMember, DeleteTeam, DeleteProject
\* and DeleteWorkspace is complete, wherever a request breaks off
\* (tenancy/application/ports.go:115).
NothingDanglesWithoutOverlap == ~overlap /\ Active = {} => NothingDangles(db)

\* HasPermissionAtScope does what the domain model says: a grant at a higher
\* scope reaches every resource beneath it unless a more specific binding
\* denies it, and a deny at any scope wins.  What a project or workspace
\* grants of itself counts for it, too, unless something denies it.
GrantsCascadeUnlessDenied ==
    \A w \in db.workspaces : \A c \in RequireAuth, p \in Permission :
        LET Denied(scopes) ==
                \E b \in Matches(w.org, c.subject, p, scopes) : b.effect = "deny"
            organization == <<"organization", w.org>>
            project == <<"project", w.project>>
            workspace == <<"workspace", w.id>>
            inProject == HasPermissionAtScope(c, w.org, p, w.project, 0)
            inWorkspace == HasPermissionAtScope(c, w.org, p, w.project, w.id)
        IN  /\ HasPermission(c, w.org, p) /\ ~Denied({project}) => inProject
            /\ inProject /\ ~Denied({workspace}) => inWorkspace
            /\ Denied({organization}) => ~inProject /\ ~inWorkspace
            /\ Denied({project}) => ~inProject /\ ~inWorkspace
            /\ HasScopedPermission(c, w.org, p, "project", w.project)
               /\ ~Denied({organization}) => inProject
            /\ HasScopedPermission(c, w.org, p, "workspace", w.id)
               /\ ~Denied({organization, project}) => inWorkspace

OnlyReads(o, u) ==
    \A c \in {[subject |-> u, scopes |-> Permission]} :
        /\ \A w \in db.workspaces, p \in Permission :
              HasPermissionAtScope(c, o, p, w.project, w.id)
                  => p \in {"project:read", "workspace:read"}
        /\ \A p \in db.projects : ~CanAccessProject(c, o, p.id)
        /\ \A w \in db.workspaces : ~CanAccessWorkspace(c, o, w.project, w.id)

\* Whoever has just been added as a member may only read and sees no project
\* or workspace, also if he has been a member with more rights before
\* (add_member.go:22, remove_member.go:63): nothing of an earlier membership
\* has been left.  This needs that no two requests have overlapped, and that
\* no team membership was left behind, which RemoveMember does not delete.
NewMemberOnlyReads ==
    [][\A q \in Request, o \in Organization, u \in User :
          /\ request[q] = [op |-> "addMemberRole", org |-> o, user |-> u]
          /\ request'[q] = Ended
          /\ ~overlap /\ TeamsOf(o, u) = {}
          => OnlyReads(o, u)']_vars

\* The variables that a workspace sees under a key, and the scopes in the
\* order of domain.ScopeCascadeOrder.
Applicable(variables, w, k) ==
    {v \in variables :
        /\ v.key = k
        /\ \/ v.scopeType = "workspace" /\ v.scope = w.id
           \/ v.scopeType = "environment" /\ v.scope = w.environment
           \/ v.scopeType = "project" /\ v.scope = w.project
           \/ v.scopeType = "organization" /\ v.scope = w.org}
Distance(type) ==
    CASE type = "workspace" -> 1 [] type = "environment" -> 2
      [] type = "project" -> 3 [] type = "organization" -> 4

\* The resolution of a variable reads one scope after the other, in
\* transactions of their own.  A variable that is there from its start to
\* its end is all the same neither missed nor overridden by one of a less
\* specific scope (resolve_variable.go:54), whatever is created, changed or
\* deleted meanwhile.
ResolutionHonoursWhatStays ==
    \A q \in Request : request[q].op = "resolved" =>
        LET r == request[q]
            stays == {v \in Applicable(r.from, r.workspace, r.key) :
                         \E x \in r.to : x.id = v.id}
        IN  \A v \in stays :
                /\ r.found # {}
                /\ \A x \in r.from \cup r.to :
                      x.id \in r.found => Distance(x.scopeType) <= Distance(v.scopeType)

\* The reaper removes no Organization that is not archived, and none before
\* its grace period has passed (purge_reaper.go:57), although it looks at
\* events only, and purges in transactions of their own.
ReaperPurgesOnlyDueArchived ==
    [][\A o \in reaper \ reaper' :
          OrgExists(o) => IsArchived(o) /\ [org |-> o, due |-> TRUE] \in db.archivals]_vars

\* What the abstract Organizations are.
StatusOf(o) ==
    IF OrgExists(o) THEN IF IsArchived(o) THEN "archived" ELSE "active"
    ELSE IF o < db.next THEN "gone" ELSE "unused"
Rows(t) == {[org |-> x.org, row |-> <<t, x>>] : x \in {y \in db[t] : y.org # 0}}

Lifecycle ==
    INSTANCE OrganizationLifecycle
    WITH Org <- Id,
         status <- [o \in Id |-> StatusOf(o)],
         content <- UNION {Rows(t) : t \in OrgTable}

\* The Organizations are tenants: whatever the requests and the reaper do, in
\* any order, each step touches what belongs to one Organization, a removed
\* one leaves nothing behind and does not come back, and an archived one is
\* never active again (organization_repository.go:236, RLS of the migrations).
ImplementsOrganizationLifecycle == Lifecycle!Spec

\* Archived Organizations are purged in the end (purge_reaper.go:38): no row
\* that the purge forgets keeps one in the database.  The requests are
\* finitely many, so that a time without archived Organizations comes.
ArchivedIsPurged == []<>(\A o \in Organization : ~IsArchived(o))

=============================================================================
