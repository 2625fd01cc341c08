--------------------------- MODULE AccessControl ---------------------------
(***************************************************************************)
(* Who may do what: members, roles, role bindings, service accounts and    *)
(* API keys, the permission decision, and the requests of the RBAC and     *)
(* Identity contexts that change them.                                     *)
(*                                                                         *)
(* db is the database, one field per table, each a set of rows.  Every id  *)
(* is a number; db.next is the next UUID.  The database is serializable,   *)
(* so a transaction is one step.  A request first makes its checks, which  *)
(* are one step here, and then writes, in one step per transaction, with   *)
(* what it was given: others may step in between, and the request may      *)
(* break off there.  A request that a check refuses changes nothing and is *)
(* left out.  An INSERT that violates a constraint leaves db as it is.     *)
(***************************************************************************)
EXTENDS Naturals, FiniteSets

CONSTANTS
    Request,         \* numbers of HTTP requests
    User,            \* ids of users
    Name,            \* names of teams
    Key,             \* keys of variables
    Grant,           \* the roles and effects that bindings are asked for
    RolePermissions, \* the permission sets of custom roles; none is empty
    KeyScopes,       \* the scopes that API keys are given
    MaxId,           \* bounds the ids
    InitialState     \* databases to start from, and the requests to come

VARIABLES
    db,
    request,         \* where each request is, and what it goes on with
    overlap          \* history: a request has started during another one

accessVars == <<db, request, overlap>>

-----------------------------------------------------------------------------
(* Rows.  Id 0 stands for NULL.                                             *)

Id == 1..MaxId

\* The permissions that the requests below ask for.
Permission == {"organization:manage", "organization:delete",
               "project:read", "project:manage", "project:delete",
               "workspace:read", "workspace:manage", "workspace:delete"}

RoleOwner == 1
RoleAdmin == 2
RoleWrite == 3
RoleRead == 4
BuiltinRoles ==
    {[id |-> RoleOwner, org |-> 0, permissions |-> Permission],
     [id |-> RoleAdmin, org |-> 0,
      permissions |-> {"organization:manage", "project:read", "project:manage",
                       "workspace:read", "workspace:manage"}],
     [id |-> RoleWrite, org |-> 0,
      permissions |-> {"project:read", "workspace:read", "workspace:manage"}],
     [id |-> RoleRead, org |-> 0, permissions |-> {"project:read", "workspace:read"}]}

SubjectType == {"user", "team", "service_account"}
ScopeType == {"organization", "project", "workspace"}
Effect == {"allow", "deny"}

Role == [id : Id, org : Id \cup {0}, permissions : SUBSET Permission]
RoleBinding == [id : Id, org : Id, role : Id, subjectType : SubjectType,
                subject : Id, scopeType : ScopeType, scope : Id, effect : Effect]
ServiceAccount == [org : Id, id : Id]
APIKey == [org : Id, id : Id, owner : Id, scopes : SUBSET Permission,
           revoked : BOOLEAN]

ASSUME AccessAssumption ==
    /\ Request \subseteq Nat
    /\ MaxId \in Nat
    /\ User \subseteq Id
    /\ \A g \in Grant : g.effect \in Effect /\ g.role \in Id
    /\ RolePermissions \subseteq (SUBSET Permission) \ {{}}
    /\ KeyScopes \subseteq SUBSET Permission
    /\ \A i \in InitialState : i.requests \subseteq Request

OrgExists(o) == \E x \in db.orgs : x.id = o
RowExists(table, o, i) == \E x \in table : x.org = o /\ x.id = i
Organization == {x.id : x \in db.orgs}

\* INSERT with a fresh id, if the constraints hold.
Insert(ok, new) ==
    /\ db.next \in Id
    /\ db' = IF ok THEN [new EXCEPT !.next = @ + 1] ELSE db

-----------------------------------------------------------------------------
(* Requests.                                                                *)

Idle == [op |-> "idle"]
Ended == [op |-> "ended"]
Active == {p \in Request : request[p].op \notin {"idle", "ended", "resolved"}}

\* A request has passed its checks.  Requests are numbered in the order in
\* which they do.
Checked(q, r) ==
    /\ request[q] = Idle
    /\ \A p \in Request : p < q => request[p] # Idle
    /\ request' = [request EXCEPT ![q] = r]
    /\ overlap' = (overlap \/ Active # {})
    /\ UNCHANGED db

\* A transaction of a request, after which it goes on as r.
Goes(q, op, r) ==
    /\ request[q].op = op
    /\ request' = [request EXCEPT ![q] = r]
    /\ UNCHANGED overlap
Answers(q, op) == Goes(q, op, Ended)

\* An error, or a crash, between two transactions.
Breaks(q) ==
    /\ q \in Active
    /\ request' = [request EXCEPT ![q] = Ended]
    /\ UNCHANGED <<db, overlap>>

-----------------------------------------------------------------------------
(* Callers, membership and the permission decision.                         *)

\* A caller is a user with an access token, whom no scopes restrict, or a
\* service account with an API key that is not revoked; a key that has
\* expired is as good as one that is.
RequireAuth ==
    {[subject |-> u, scopes |-> Permission] : u \in User} \cup
    {[subject |-> k.owner, scopes |-> IF k.scopes = {} THEN Permission ELSE k.scopes] :
        k \in {x \in db.apiKeys : ~x.revoked}}

IsMember(o, s) ==
    \/ \E m \in db.members : m.org = o /\ m.user = s /\ ~m.blocked
    \/ RowExists(db.accounts, o, s)
MembershipExists(o, s) == \E m \in db.members : m.org = o /\ m.user = s

TeamsOf(o, s) == {t.team : t \in {x \in db.teamMembers : x.user = s /\ x.org = o}}

\* The bindings of a subject, its own and its teams', whose role has the
\* permission at one of the scopes.
Matches(o, s, permission, scopes) ==
    {b \in db.bindings :
        /\ b.org = o
        /\ \/ b.subjectType \in {"user", "service_account"} /\ b.subject = s
           \/ b.subjectType = "team" /\ b.subject \in TeamsOf(o, s)
        /\ <<b.scopeType, b.scope>> \in scopes
        /\ \E r \in db.roles : r.id = b.role /\ permission \in r.permissions}

\* Some allow, and no deny.
Decide(matches) ==
    (\E b \in matches : b.effect = "allow") /\ \A b \in matches : b.effect # "deny"

\* Mutant: a check at a project or workspace looks at bindings there only.
ExactScopeOnly(c, o, permission, project, workspace) ==
    /\ permission \in c.scopes
    /\ Decide(Matches(o, c.subject, permission,
                      IF project = 0 THEN {<<"organization", o>>}
                      ELSE {<<"project", project>>, <<"workspace", workspace>>}))

HasPermissionAtScope(c, o, permission, project, workspace) ==
    /\ permission \in c.scopes
    /\ Decide(Matches(o, c.subject, permission,
                      {<<"organization", o>>, <<"project", project>>,
                       <<"workspace", workspace>>}))

HasPermission(c, o, permission) == HasPermissionAtScope(c, o, permission, 0, 0)

\* What makes a project or workspace visible: bindings at its own scope only.
HasScopedPermission(c, o, permission, scopeType, scope) ==
    /\ permission \in c.scopes
    /\ Decide(Matches(o, c.subject, permission, {<<scopeType, scope>>}))

CanAccessProject(c, o, project) ==
    \/ HasPermission(c, o, "organization:manage")
    \/ HasScopedPermission(c, o, "project:read", "project", project)

CanAccessWorkspace(c, o, project, workspace) ==
    \/ CanAccessProject(c, o, project)
    \/ HasScopedPermission(c, o, "workspace:read", "workspace", workspace)

\* The first checks of every request of an Organization.
MayAt(o, permission, project, workspace) ==
    \E c \in RequireAuth :
        IsMember(o, c.subject) /\ HasPermissionAtScope(c, o, permission, project, workspace)
May(o, permission) ==
    \E c \in RequireAuth : IsMember(o, c.subject) /\ HasPermission(c, o, permission)

-----------------------------------------------------------------------------
(* Roles and role bindings.                                                 *)

InsertRole(o, permissions) ==
    Insert(OrgExists(o),
           [db EXCEPT !.roles = @ \cup {[id |-> db.next, org |-> o,
                                         permissions |-> permissions]}])

CreateRole(q) ==
    \/ \E o \in Organization, p \in RolePermissions :
          /\ May(o, "organization:manage")
          /\ Checked(q, [op |-> "createRole", org |-> o, permissions |-> p])
    \/ /\ Answers(q, "createRole")
       /\ InsertRole(request[q].org, request[q].permissions)

\* WHERE id = ... AND organization_id = ...: never a built-in role.
UpdateRoleRow(o, i, permissions) ==
    db' = [db EXCEPT !.roles =
             {IF r.id = i /\ r.org = o THEN [r EXCEPT !.permissions = permissions]
              ELSE r : r \in @}]

UpdateRole(q) ==
    \/ \E r \in db.roles, p \in RolePermissions :
          /\ r.org # 0
          /\ May(r.org, "organization:manage")
          /\ Checked(q, [op |-> "updateRole", org |-> r.org, id |-> r.id,
                         permissions |-> p])
    \/ /\ Answers(q, "updateRole")
       /\ UpdateRoleRow(request[q].org, request[q].id, request[q].permissions)

\* The UNIQUE key of role_bindings, which does not contain the effect.
SameBinding(b, c) ==
    /\ b.role = c.role
    /\ b.subjectType = c.subjectType /\ b.subject = c.subject
    /\ b.scopeType = c.scopeType /\ b.scope = c.scope

Bindable(b) ==
    /\ OrgExists(b.org)
    /\ \E r \in db.roles : r.id = b.role
    /\ \A c \in db.bindings : ~SameBinding(b, c)

\* ON CONFLICT ... DO NOTHING; AssignRole's INSERT fails instead.
InsertBinding(b) ==
    Insert(Bindable(b), [db EXCEPT !.bindings = @ \cup {[b EXCEPT !.id = db.next]}])

Members(o) == {s \in Id : IsMember(o, s)}
Ids(table, o) == {x.id : x \in {y \in table : y.org = o}}

\* The subjects and scopes that the checks accept.  A service account passes
\* for a user, too, since IsMember knows both.
ValidSubject(o) ==
    ({"user"} \X Members(o)) \cup ({"team"} \X Ids(db.teams, o))
        \cup ({"service_account"} \X Ids(db.accounts, o))
ValidScope(o) ==
    {<<"organization", o>>} \cup ({"project"} \X Ids(db.projects, o))
        \cup ({"workspace"} \X Ids(db.workspaces, o))

CreateRoleBinding(q) ==
    \/ \E o \in Organization :
          /\ May(o, "organization:manage")
          /\ \E g \in Grant, s \in ValidSubject(o), c \in ValidScope(o) :
                /\ \E r \in db.roles : r.id = g.role /\ r.org \in {0, o}
                /\ Checked(q, [op |-> "createBinding",
                               row |-> [id |-> 0, org |-> o, role |-> g.role,
                                        subjectType |-> s[1], subject |-> s[2],
                                        scopeType |-> c[1], scope |-> c[2],
                                        effect |-> g.effect]])
    \/ Answers(q, "createBinding") /\ InsertBinding(request[q].row)

DeleteBindingRow(i, o) ==
    db' = [db EXCEPT !.bindings = {b \in @ : ~(b.id = i /\ b.org = o)}]

DeleteRoleBinding(q) ==
    \/ \E b \in db.bindings :
          /\ May(b.org, "organization:manage")
          /\ Checked(q, [op |-> "deleteBinding", org |-> b.org, id |-> b.id])
    \/ Answers(q, "deleteBinding") /\ DeleteBindingRow(request[q].id, request[q].org)

\* Mutant: the bindings of a subject are kept.
KeepForSubject(o, type, s) == UNCHANGED db

\* Mutant: the query lost its organization.
DeleteForSubjectEverywhere(o, type, s) ==
    db' = [db EXCEPT !.bindings =
             {b \in @ : ~(b.subjectType = type /\ b.subject = s)}]

\* RoleBindingCleaner, for a team or user that is about to go.
DeleteForSubject(o, type, s) ==
    db' = [db EXCEPT !.bindings =
             {b \in @ : ~(b.org = o /\ b.subjectType = type /\ b.subject = s)}]

\* The built-in role of a user at organization scope.
OrganizationBinding(o, u, role) ==
    [id |-> 0, org |-> o, role |-> role, subjectType |-> "user", subject |-> u,
     scopeType |-> "organization", scope |-> o, effect |-> "allow"]

ReplaceRole(o, u, role) ==
    LET kept == {b \in db.bindings :
                    ~(/\ b.org = o /\ b.subjectType = "user" /\ b.subject = u
                      /\ b.scopeType = "organization" /\ b.scope = o)}
    IN  Insert(OrgExists(o),
               [db EXCEPT !.bindings =
                  kept \cup {[OrganizationBinding(o, u, role) EXCEPT !.id = db.next]}])

-----------------------------------------------------------------------------
(* Service accounts, API keys and platform administrators.                  *)

InsertServiceAccount(o) ==
    Insert(OrgExists(o), [db EXCEPT !.accounts = @ \cup {[org |-> o, id |-> db.next]}])

CreateServiceAccount(q) ==
    \/ \E o \in Organization :
          /\ May(o, "organization:manage")
          /\ Checked(q, [op |-> "createAccount", org |-> o])
    \/ Answers(q, "createAccount") /\ InsertServiceAccount(request[q].org)

InsertAPIKey(o, owner, scopes) ==
    Insert(OrgExists(o),
           [db EXCEPT !.apiKeys = @ \cup {[org |-> o, id |-> db.next, owner |-> owner,
                                           scopes |-> scopes, revoked |-> FALSE]}])

CreateAPIKey(q) ==
    \/ \E a \in db.accounts, s \in KeyScopes :
          /\ May(a.org, "organization:manage")
          /\ Checked(q, [op |-> "createKey", org |-> a.org, owner |-> a.id, scopes |-> s])
    \/ /\ Answers(q, "createKey")
       /\ InsertAPIKey(request[q].org, request[q].owner, request[q].scopes)

RevokeRow(o, i) ==
    db' = [db EXCEPT !.apiKeys =
             {IF k.id = i /\ k.org = o THEN [k EXCEPT !.revoked = TRUE] ELSE k : k \in @}]

RevokeAPIKey(q) ==
    \/ \E k \in db.apiKeys :
          /\ May(k.org, "organization:manage")
          /\ Checked(q, [op |-> "revokeKey", org |-> k.org, id |-> k.id])
    \/ Answers(q, "revokeKey") /\ RevokeRow(request[q].org, request[q].id)

SetAdmin(u, isAdmin) ==
    db' = [db EXCEPT !.admins = IF isAdmin THEN @ \cup {u} ELSE @ \ {u}]

SetPlatformAdmin(q) ==
    \/ \E u \in User, b \in BOOLEAN :
          /\ \E c \in RequireAuth : c.subject \in db.admins
          /\ Checked(q, [op |-> "setAdmin", user |-> u, isAdmin |-> b])
    \/ Answers(q, "setAdmin") /\ SetAdmin(request[q].user, request[q].isAdmin)

AccessRequest(q) ==
    \/ CreateRole(q) \/ UpdateRole(q) \/ CreateRoleBinding(q) \/ DeleteRoleBinding(q)
    \/ CreateServiceAccount(q) \/ CreateAPIKey(q) \/ RevokeAPIKey(q)
    \/ SetPlatformAdmin(q)

=============================================================================
