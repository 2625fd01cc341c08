------------------------------ MODULE Tenancy ------------------------------
(***************************************************************************)
(* Organizations, their members, teams and projects, and the two ways an   *)
(* Organization goes: at once, or through its archive and the Purge        *)
(* Reaper, which reads the OrganizationArchived events of the outbox.      *)
(* Names other than those of teams are left out: an INSERT that meets one  *)
(* is a request that breaks off.                                           *)
(***************************************************************************)
EXTENDS AccessControl

VARIABLE
    reaper           \* the Organizations that the sweep has still to purge

tenancyVars == <<accessVars, reaper>>

Organizations == [id : Id, archived : BOOLEAN]
ArchivalEvent == [org : Id, due : BOOLEAN]
OrganizationMembership == [org : Id, user : User, blocked : BOOLEAN]
Team == [org : Id, id : Id, name : Name]
TeamMembership == [org : Id, team : Id, user : User]
Project == [org : Id, id : Id]

-----------------------------------------------------------------------------
(* Organizations.                                                           *)

IsArchived(o) == [id |-> o, archived |-> TRUE] \in db.orgs

InsertOrganization ==
    Insert(TRUE, [db EXCEPT !.orgs = @ \cup {[id |-> db.next, archived |-> FALSE]}])

InsertMembership(o, u) ==
    db' = IF OrgExists(o) /\ u \in User /\ ~MembershipExists(o, u)
          THEN [db EXCEPT !.members = @ \cup {[org |-> o, user |-> u, blocked |-> FALSE]}]
          ELSE db

AssignRole(o, u, role) == InsertBinding(OrganizationBinding(o, u, role))

\* Four transactions.  The creator of the first Organization becomes
\* platform administrator.
CreateOrganization(q) ==
    \/ \E u \in User :
          /\ db.orgs = {} \/ u \in db.admins
          /\ Checked(q, [op |-> "createOrg", user |-> u, first |-> db.orgs = {}])
    \/ /\ Goes(q, "createOrg", [op |-> "orgMembership", org |-> db.next,
                                user |-> request[q].user, first |-> request[q].first])
       /\ InsertOrganization
    \/ /\ Goes(q, "orgMembership",
               IF /\ OrgExists(request[q].org)
                  /\ ~MembershipExists(request[q].org, request[q].user)
               THEN [request[q] EXCEPT !.op = "orgOwner"] ELSE Ended)
       /\ InsertMembership(request[q].org, request[q].user)
    \/ /\ Goes(q, "orgOwner",
               IF request[q].first /\ Bindable(OrganizationBinding(
                                        request[q].org, request[q].user, RoleOwner))
               THEN [request[q] EXCEPT !.op = "orgFirstAdmin"] ELSE Ended)
       /\ AssignRole(request[q].org, request[q].user, RoleOwner)
    \/ Answers(q, "orgFirstAdmin") /\ SetAdmin(request[q].user, TRUE)

\* The UPDATE and its event commit together; the event needs its
\* Organization.  The status was checked in another transaction.
Archive(o) ==
    db' = IF OrgExists(o)
          THEN [db EXCEPT !.orgs = {IF x.id = o THEN [x EXCEPT !.archived = TRUE] ELSE x :
                                       x \in @},
                          !.archivals = @ \cup {[org |-> o, due |-> FALSE]}]
          ELSE db

ArchiveOrganization(q) ==
    \/ \E o \in Organization :
          /\ May(o, "organization:delete") /\ ~IsArchived(o)
          /\ Checked(q, [op |-> "archiveOrg", org |-> o])
    \/ Answers(q, "archiveOrg") /\ Archive(request[q].org)

\* The rows of a table that do not belong to an Organization.
Without(table, o) == {x \in table : x.org # o}

\* The last DELETE is refused, and all of them with it, if a row still
\* refers to the Organization.
Purged(o, kept) ==
    IF \A table \in {kept.archivals, kept.members, kept.teams, kept.teamMembers,
                     kept.projects, kept.environments, kept.workspaces, kept.roles,
                     kept.bindings, kept.accounts, kept.apiKeys, kept.variables} :
          \A x \in table : x.org # o
    THEN [kept EXCEPT !.orgs = {x \in @ : x.id # o}]
    ELSE db

\* Mutant: the tables of the later migrations are not in the list.
PurgeForgetsKeys(o) ==
    db' = Purged(o,
            [db EXCEPT !.archivals = Without(@, o), !.members = Without(@, o),
                       !.teams = Without(@, o), !.teamMembers = Without(@, o),
                       !.projects = Without(@, o), !.environments = Without(@, o),
                       !.workspaces = Without(@, o), !.roles = Without(@, o),
                       !.bindings = Without(@, o), !.variables = Without(@, o)])

\* One transaction runs a list of DELETEs, over the tables of all parts
\* of the system; those of the others (Runs, audit, Fleet, idempotency
\* keys, secret mounts) are not here.
PurgeOrganization(o) ==
    db' = Purged(o,
            [db EXCEPT !.archivals = Without(@, o), !.members = Without(@, o),
                       !.teams = Without(@, o), !.teamMembers = Without(@, o),
                       !.projects = Without(@, o), !.environments = Without(@, o),
                       !.workspaces = Without(@, o), !.roles = Without(@, o),
                       !.bindings = Without(@, o), !.variables = Without(@, o),
                       !.accounts = Without(@, o), !.apiKeys = Without(@, o)])

DeleteOrganization(q) ==
    \/ \E o \in Organization :
          /\ May(o, "organization:delete")
          /\ Checked(q, [op |-> "deleteOrg", org |-> o])
    \/ Answers(q, "deleteOrg") /\ PurgeOrganization(request[q].org)

-----------------------------------------------------------------------------
(* The Purge Reaper.                                                        *)

\* An event grows older than the purge window.
WindowPasses(o) ==
    /\ [org |-> o, due |-> FALSE] \in db.archivals
    /\ db' = [db EXCEPT !.archivals =
                {[e EXCEPT !.due = e.due \/ e.org = o] : e \in @}]
    /\ UNCHANGED <<request, overlap, reaper>>

\* Mutant: every archival event counts, however young.
FindArchived == {e.org : e \in db.archivals}

FindOrganizationsPastPurgeWindow == {e.org : e \in {x \in db.archivals : x.due}}

ReaperScan ==
    /\ reaper = {}
    /\ reaper' = FindOrganizationsPastPurgeWindow
    /\ reaper' # {}
    /\ UNCHANGED <<db, request, overlap>>

ReaperPurge(o) ==
    /\ o \in reaper
    /\ PurgeOrganization(o)
    /\ reaper' = reaper \ {o}
    /\ UNCHANGED <<request, overlap>>

-----------------------------------------------------------------------------
(* Members.                                                                 *)

AddMember(q) ==
    \/ \E o \in Organization, u \in User :
          /\ May(o, "organization:manage")
          /\ Checked(q, [op |-> "addMember", org |-> o, user |-> u])
    \/ /\ Goes(q, "addMember",
               IF /\ OrgExists(request[q].org)
                  /\ ~MembershipExists(request[q].org, request[q].user)
               THEN [request[q] EXCEPT !.op = "addMemberRole"] ELSE Ended)
       /\ InsertMembership(request[q].org, request[q].user)
    \/ /\ Answers(q, "addMemberRole")
       /\ AssignRole(request[q].org, request[q].user, RoleRead)

ChangeMemberRole(q) ==
    \/ \E o \in Organization :
          /\ May(o, "organization:manage")
          /\ \E s \in Members(o), r \in {RoleOwner, RoleAdmin, RoleWrite, RoleRead} :
                /\ r \in {g.role : g \in Grant}
                /\ Checked(q, [op |-> "changeRole", org |-> o, user |-> s, role |-> r])
    \/ /\ Answers(q, "changeRole")
       /\ ReplaceRole(request[q].org, request[q].user, request[q].role)

\* The team memberships of the user stay.
DeleteMembership(o, u) ==
    db' = [db EXCEPT !.members = {m \in @ : ~(m.org = o /\ m.user = u)}]

RemoveMember(q) ==
    \/ \E m \in db.members :
          /\ May(m.org, "organization:manage")
          /\ Checked(q, [op |-> "removeMember", org |-> m.org, user |-> m.user])
    \/ /\ Goes(q, "removeMember", [request[q] EXCEPT !.op = "removeMembership"])
       /\ DeleteForSubject(request[q].org, "user", request[q].user)
    \/ /\ Answers(q, "removeMembership")
       /\ DeleteMembership(request[q].org, request[q].user)

SetBlocked(o, u, blocked) ==
    db' = [db EXCEPT !.members =
             {IF m.org = o /\ m.user = u THEN [m EXCEPT !.blocked = blocked] ELSE m :
                 m \in @}]

BlockMember(q) ==
    \/ \E m \in db.members :
          /\ May(m.org, "organization:manage")
          /\ Checked(q, [op |-> "blockMember", org |-> m.org, user |-> m.user])
    \/ Answers(q, "blockMember") /\ SetBlocked(request[q].org, request[q].user, TRUE)

UnblockMember(q) ==
    \/ \E m \in db.members :
          /\ May(m.org, "organization:manage")
          /\ Checked(q, [op |-> "unblockMember", org |-> m.org, user |-> m.user])
    \/ Answers(q, "unblockMember") /\ SetBlocked(request[q].org, request[q].user, FALSE)

-----------------------------------------------------------------------------
(* Teams.                                                                   *)

NameTaken(o, i, n) == \E t \in db.teams : t.org = o /\ t.id # i /\ t.name = n

InsertTeam(o, n) ==
    Insert(OrgExists(o) /\ ~NameTaken(o, 0, n),
           [db EXCEPT !.teams = @ \cup {[org |-> o, id |-> db.next, name |-> n]}])

CreateTeam(q) ==
    \/ \E o \in Organization, n \in Name :
          /\ May(o, "organization:manage")
          /\ Checked(q, [op |-> "createTeam", org |-> o, name |-> n])
    \/ Answers(q, "createTeam") /\ InsertTeam(request[q].org, request[q].name)

RenameTeam(o, i, n) ==
    db' = IF NameTaken(o, i, n) THEN db
          ELSE [db EXCEPT !.teams =
                  {IF t.org = o /\ t.id = i THEN [t EXCEPT !.name = n] ELSE t : t \in @}]

UpdateTeam(q) ==
    \/ \E t \in db.teams, n \in Name :
          /\ May(t.org, "organization:manage")
          /\ Checked(q, [op |-> "updateTeam", org |-> t.org, id |-> t.id, name |-> n])
    \/ /\ Answers(q, "updateTeam")
       /\ RenameTeam(request[q].org, request[q].id, request[q].name)

DeleteTeamAndMemberships(o, i) ==
    db' = [db EXCEPT !.teamMembers = {t \in @ : ~(t.org = o /\ t.team = i)},
                     !.teams = {t \in @ : ~(t.org = o /\ t.id = i)}]

DeleteTeam(q) ==
    \/ \E t \in db.teams :
          /\ May(t.org, "organization:manage")
          /\ Checked(q, [op |-> "deleteTeam", org |-> t.org, id |-> t.id])
    \/ /\ Goes(q, "deleteTeam", [request[q] EXCEPT !.op = "deleteTeamRows"])
       /\ DeleteForSubject(request[q].org, "team", request[q].id)
    \/ /\ Answers(q, "deleteTeamRows")
       /\ DeleteTeamAndMemberships(request[q].org, request[q].id)

\* Mutant: user_id REFERENCES users is missing.
InsertTeamMemberOfAnyKind(o, i, s) ==
    db' = IF RowExists(db.teams, o, i)
          THEN [db EXCEPT !.teamMembers = @ \cup {[org |-> o, team |-> i, user |-> s]}]
          ELSE db

InsertTeamMember(o, i, s) ==
    db' = IF RowExists(db.teams, o, i) /\ s \in User
          THEN [db EXCEPT !.teamMembers = @ \cup {[org |-> o, team |-> i, user |-> s]}]
          ELSE db

AddTeamMember(q) ==
    \/ \E t \in db.teams :
          /\ May(t.org, "organization:manage")
          /\ \E s \in Members(t.org) :
                Checked(q, [op |-> "addTeamMember", org |-> t.org, id |-> t.id,
                            user |-> s])
    \/ /\ Answers(q, "addTeamMember")
       /\ InsertTeamMember(request[q].org, request[q].id, request[q].user)

DeleteTeamMember(o, i, s) ==
    db' = [db EXCEPT !.teamMembers =
             {t \in @ : ~(t.org = o /\ t.team = i /\ t.user = s)}]

RemoveTeamMember(q) ==
    \/ \E t \in db.teamMembers :
          /\ May(t.org, "organization:manage")
          /\ Checked(q, [op |-> "removeTeamMember", org |-> t.org, id |-> t.team,
                         user |-> t.user])
    \/ /\ Answers(q, "removeTeamMember")
       /\ DeleteTeamMember(request[q].org, request[q].id, request[q].user)

-----------------------------------------------------------------------------
(* Projects.                                                                *)

InsertProject(o) ==
    Insert(OrgExists(o), [db EXCEPT !.projects = @ \cup {[org |-> o, id |-> db.next]}])

CreateProject(q) ==
    \/ \E o \in Organization :
          /\ May(o, "project:manage") /\ ~IsArchived(o)
          /\ Checked(q, [op |-> "createProject", org |-> o])
    \/ Answers(q, "createProject") /\ InsertProject(request[q].org)

\* The ids of the rows of a table that belong to a project.
Of(table, p) == {x.id : x \in {y \in table : y.project = p}}

\* Mutant: the bindings of its workspaces are not deleted.
PurgeProjectBindingsOnly(o, p) ==
    db' = [db EXCEPT
        !.variables =
            {v \in @ : ~(\/ v.scopeType = "project" /\ v.scope = p
                         \/ v.scopeType = "environment" /\ v.scope \in Of(db.environments, p)
                         \/ v.scopeType = "workspace" /\ v.scope \in Of(db.workspaces, p))},
        !.bindings = {b \in @ : ~(b.scopeType = "project" /\ b.scope = p)},
        !.workspaces = {w \in @ : w.project # p},
        !.environments = {e \in @ : e.project # p},
        !.projects = {x \in @ : ~(x.org = o /\ x.id = p)}]

PurgeProject(o, p) ==
    db' = [db EXCEPT
        !.variables =
            {v \in @ : ~(\/ v.scopeType = "project" /\ v.scope = p
                         \/ v.scopeType = "environment" /\ v.scope \in Of(db.environments, p)
                         \/ v.scopeType = "workspace" /\ v.scope \in Of(db.workspaces, p))},
        !.bindings =
            {b \in @ : ~(\/ b.scopeType = "project" /\ b.scope = p
                         \/ b.scopeType = "workspace" /\ b.scope \in Of(db.workspaces, p))},
        !.workspaces = {w \in @ : w.project # p},
        !.environments = {e \in @ : e.project # p},
        !.projects = {x \in @ : ~(x.org = o /\ x.id = p)}]

DeleteProject(q) ==
    \/ \E p \in db.projects :
          /\ May(p.org, "project:delete")
          /\ Checked(q, [op |-> "deleteProject", org |-> p.org, project |-> p.id])
    \/ Answers(q, "deleteProject") /\ PurgeProject(request[q].org, request[q].project)

TenancyRequest(q) ==
    \/ CreateOrganization(q) \/ ArchiveOrganization(q) \/ DeleteOrganization(q)
    \/ AddMember(q) \/ ChangeMemberRole(q) \/ RemoveMember(q)
    \/ BlockMember(q) \/ UnblockMember(q)
    \/ CreateTeam(q) \/ UpdateTeam(q) \/ DeleteTeam(q)
    \/ AddTeamMember(q) \/ RemoveTeamMember(q)
    \/ CreateProject(q) \/ DeleteProject(q)

Reaper ==
    \/ ReaperScan
    \/ \E o \in Id : WindowPasses(o) \/ ReaperPurge(o)

=============================================================================
