------------------------------ MODULE MCAccess -----------------------------
(***************************************************************************)
(* One populated Organization and a second one that shares a user with it, *)
(* two requests at a time; the platform before its first Organization; an  *)
(* archived Organization; a user who left a team membership behind.        *)
(***************************************************************************)
EXTENDS ProjectResources

\* Users 5 (owner), 6 (member) and 7; Organizations 8 and 9; team 10,
\* project 11, environment 12, workspace 13, service account 14, custom
\* role 16.
MCUser == 5..7
MCGrant == {[role |-> RoleAdmin, effect |-> "allow"], [role |-> 16, effect |-> "deny"]}
MCRolePermissions == {{"workspace:manage"}, {"workspace:delete"}}
MCKeyScopes == {{}, {"organization:manage"}}

Binding(i, o, role, st, s, ct, c, effect) ==
    [id |-> i, org |-> o, role |-> role, subjectType |-> st, subject |-> s,
     scopeType |-> ct, scope |-> c, effect |-> effect]

Populated ==
    [orgs |-> {[id |-> 8, archived |-> FALSE], [id |-> 9, archived |-> FALSE]},
     archivals |-> {},
     members |-> {[org |-> 8, user |-> 5, blocked |-> FALSE],
                  [org |-> 8, user |-> 6, blocked |-> FALSE],
                  [org |-> 9, user |-> 6, blocked |-> FALSE]},
     teams |-> {[org |-> 8, id |-> 10, name |-> "n1"]},
     teamMembers |-> {[org |-> 8, team |-> 10, user |-> 5]},
     projects |-> {[org |-> 8, id |-> 11]},
     environments |-> {[org |-> 8, project |-> 11, id |-> 12]},
     workspaces |-> {[org |-> 8, project |-> 11, id |-> 13, environment |-> 12]},
     accounts |-> {[org |-> 8, id |-> 14]},
     apiKeys |-> {[org |-> 8, id |-> 15, owner |-> 14,
                   scopes |-> {"workspace:manage", "workspace:delete"},
                   revoked |-> FALSE]},
     roles |-> BuiltinRoles \cup {[id |-> 16, org |-> 8,
                                   permissions |-> {"workspace:manage"}]},
     bindings |-> {Binding(17, 8, RoleOwner, "user", 5, "organization", 8, "allow"),
                   Binding(18, 8, RoleRead, "user", 6, "organization", 8, "allow"),
                   Binding(19, 9, RoleRead, "user", 6, "organization", 9, "allow"),
                   Binding(20, 8, RoleWrite, "team", 10, "project", 11, "allow"),
                   Binding(21, 8, 16, "user", 6, "workspace", 13, "deny"),
                   Binding(22, 8, RoleWrite, "user", 6, "project", 11, "allow"),
                   Binding(23, 8, RoleAdmin, "service_account", 14, "organization", 8,
                           "allow")},
     variables |-> {[org |-> 8, id |-> 24, scopeType |-> "environment", scope |-> 12,
                     key |-> "k", secret |-> FALSE],
                    [org |-> 8, id |-> 25, scopeType |-> "organization", scope |-> 8,
                     key |-> "k", secret |-> TRUE]},
     admins |-> {5}, next |-> 26]

Fresh ==
    [t \in DOMAIN Populated |->
        CASE t = "roles" -> BuiltinRoles [] t = "next" -> 26 [] OTHER -> {}]

Archived ==
    [Populated EXCEPT !.orgs = {[id |-> 8, archived |-> TRUE], [id |-> 9, archived |-> FALSE]},
                      !.archivals = {[org |-> 8, due |-> FALSE]}]

LeftTeam ==
    [Populated EXCEPT !.teamMembers = @ \cup {[org |-> 8, team |-> 10, user |-> 7]}]

MCInitialState ==
    {[db |-> Populated, requests |-> {1, 2}], [db |-> Fresh, requests |-> {1, 2}],
     [db |-> Archived, requests |-> {1}], [db |-> LeftTeam, requests |-> {1}]}

=============================================================================
