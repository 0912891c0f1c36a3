------------------------------- MODULE Access -------------------------------
(***************************************************************************)
(* Roles, permissions and who holds them: RoleService, PermissionService,  *)
(* the discovery of permissions by permissionsIndex, and the queries of    *)
(* RbacFilter that decide from these tables.                               *)
(*                                                                         *)
(* As in Accounts, a step is one awaited statement and what its handler    *)
(* computes after it.  users_roles is written by Accounts; here each of    *)
(* its statements is a step of its own, in any order.                      *)
(***************************************************************************)
EXTENDS Naturals

CONSTANTS
    Users,
    RoleIds, PermIds,   \* fresh UUIDs in the code
    RoleNames,          \* names a role may be given
    Routes,             \* the named routes of RouteRegistry
    Requests,           \* slots for requests in flight
    Null

Permission == [name : Routes, active : BOOLEAN]

ASSUME NullAssumption ==
    Null \notin RoleIds \cup PermIds \cup RoleNames \cup Routes \cup Permission
ASSUME IdsAssumption == RoleIds \cap PermIds = {}
ASSUME NamesAssumption == "Administrator" \in RoleNames

VARIABLES
    roles,         \* roles[a]: the name of role a, or Null
    permissions,   \* permissions[p]: the row of permission p, or Null
    granted,       \* roles_permissions: granted[a] is what role a holds
    usersRoles,    \* users_roles: the roles of user u
    req,           \* req[r]: the request in slot r
    spent          \* history: the role and permission ids ever inserted

tables == <<roles, permissions, granted, usersRoles>>
vars   == <<tables, req, spent>>

Statements == {"idle", "insertRole", "checkName", "updateRole", "clearGrants",
               "grant", "revoke", "deleteRole", "updatePermission",
               "deletePermission", "discover", "queryAccess", "admitted"}

Request ==
    [pc : Statements,
     role : RoleIds \cup {Null}, name : RoleNames \cup {Null},
     perm : PermIds \cup {Null}, row : Permission \cup {Null},
     perms : SUBSET PermIds,     \* rows of roles_permissions still to write
     ask : SUBSET PermIds,       \* history: the list the form submitted
     exact : BOOLEAN,            \* history: granted[role] was this request's
                                 \* alone since it cleared it
     routes : SUBSET Routes,     \* permissions still to create
     user : Users \cup {Null}, route : Routes \cup {Null}]

Idle == [pc |-> "idle", role |-> Null, name |-> Null, perm |-> Null,
         row |-> Null, perms |-> {}, ask |-> {}, exact |-> FALSE,
         routes |-> {}, user |-> Null, route |-> Null]

TypeOK ==
    /\ roles \in [RoleIds -> RoleNames \cup {Null}]
    /\ permissions \in [PermIds -> Permission \cup {Null}]
    /\ granted \in [RoleIds -> SUBSET PermIds]
    /\ usersRoles \in [Users -> SUBSET RoleIds]
    /\ req \in [Requests -> Request]
    /\ spent \in SUBSET (RoleIds \cup PermIds)

Init ==
    /\ roles = [a \in RoleIds |-> Null]
    /\ permissions = [p \in PermIds |-> Null]
    /\ granted = [a \in RoleIds |-> {}]
    /\ usersRoles = [u \in Users |-> {}]
    /\ req = [r \in Requests |-> Idle]
    /\ spent = {}

-----------------------------------------------------------------------------
(* Tables and queries *)

LiveRoles == {a \in RoleIds : roles[a] # Null}
LivePerms == {p \in PermIds : permissions[p] # Null}

\* The ids a page or a form can name: they had a row when it was rendered.
KnownRoles == RoleIds \cap spent
KnownPerms == PermIds \cap spent

NameTaken(n) == \E a \in LiveRoles : roles[a] = n

\* Mutant: the migration without CREATE UNIQUE INDEX roles__name.
NameFreeAnyway(a, n) == TRUE

\* The unique index roles__name.
NameFree(a, n) == \A b \in LiveRoles \ {a} : roles[b] # n

FreshRole(a) == a \notin spent /\ \A r \in Requests : req[r].role # a

\* Mutant: the id of a deleted permission is given out again.
UnusedPermission(p) == permissions[p] = Null

FreshPermission(p) == p \notin spent

\* userIsAdministratorAsync.
IsAdministrator(u) ==
    \E a \in usersRoles[u] : roles[a] = "Administrator"

\* userHasAccessAsync joins users_roles to roles_permissions, past roles.
HasAccess(u, route) ==
    \E a \in usersRoles[u] : \E p \in granted[a] :
        permissions[p] # Null /\ permissions[p] = [name |-> route, active |-> TRUE]

-----------------------------------------------------------------------------
(* The request's control *)

At(r, s)    == req[r].pc = s
Begin(r, q) == At(r, "idle") /\ req' = [req EXCEPT ![r] = q]
Goto(r, s)  == req' = [req EXCEPT ![r].pc = s]
Finish(r)   == req' = [req EXCEPT ![r] = Idle]

\* Once granted[a] is written by another request, r no longer knows it.
Touch(r, a, q) ==
    req' = [s \in Requests |->
              IF s = r THEN q
              ELSE IF req[s].role = a THEN [req[s] EXCEPT !.exact = FALSE]
              ELSE req[s]]

\* The state of r after it wrote the row of p.
Done(r, p) ==
    IF req[r].perms = {p} THEN Idle ELSE [req[r] EXCEPT !.perms = @ \ {p}]

-----------------------------------------------------------------------------
(* RoleService *)

RoleCreateRead(r) ==
    /\ \E a \in RoleIds, n \in RoleNames, ps \in SUBSET KnownPerms :
          /\ ~NameTaken(n)
          /\ FreshRole(a)
          /\ Begin(r, [Idle EXCEPT !.pc = "insertRole", !.role = a, !.name = n,
                                   !.perms = ps, !.ask = ps, !.exact = TRUE])
    /\ UNCHANGED <<tables, spent>>

InsertRole(r) ==
    /\ At(r, "insertRole")
    /\ LET a == req[r].role IN
       IF NameFree(a, req[r].name)
       THEN /\ roles' = [roles EXCEPT ![a] = req[r].name]
            /\ spent' = spent \cup {a}
            /\ IF req[r].perms = {} THEN Finish(r) ELSE Goto(r, "grant")
       ELSE Finish(r) /\ UNCHANGED <<roles, spent>>
    /\ UNCHANGED <<permissions, granted, usersRoles>>

\* An empty name, or the name it has, skips the second query.
RoleUpdateRead(r) ==
    /\ \E a \in LiveRoles, n \in RoleNames, ps \in SUBSET KnownPerms :
          Begin(r, [Idle EXCEPT
                      !.pc = IF n = roles[a] THEN "updateRole" ELSE "checkName",
                      !.role = a, !.name = n, !.perms = ps, !.ask = ps])
    /\ UNCHANGED <<tables, spent>>

CheckName(r) ==
    /\ At(r, "checkName")
    /\ IF NameTaken(req[r].name) THEN Finish(r) ELSE Goto(r, "updateRole")
    /\ UNCHANGED <<tables, spent>>

UpdateRole(r) ==
    /\ At(r, "updateRole")
    /\ LET a == req[r].role
           n == req[r].name
           next == IF req[r].perms = {} THEN Finish(r) ELSE Goto(r, "clearGrants") IN
       \/ roles[a] = Null /\ next /\ UNCHANGED roles
       \/ /\ roles[a] # Null /\ NameFree(a, n)
          /\ roles' = [roles EXCEPT ![a] = n]
          /\ next
       \/ roles[a] # Null /\ ~NameFree(a, n) /\ Finish(r) /\ UNCHANGED roles
    /\ UNCHANGED <<permissions, granted, usersRoles, spent>>

\* Mutant: the old permissions of the role are left in place.
ClearGrantsSkipped(r) ==
    /\ At(r, "clearGrants")
    /\ Touch(r, req[r].role, [req[r] EXCEPT !.pc = "grant", !.exact = TRUE])
    /\ UNCHANGED <<tables, spent>>

ClearGrants(r) ==
    /\ At(r, "clearGrants")
    /\ LET a == req[r].role IN
       /\ granted' = [granted EXCEPT ![a] = {}]
       /\ Touch(r, a, [req[r] EXCEPT !.pc = "grant", !.exact = TRUE])
    /\ UNCHANGED <<roles, permissions, usersRoles, spent>>

\* assignPermission, assignPermissions: no look at the role first.
AssignBegin(r) ==
    /\ \E a \in KnownRoles, ps \in (SUBSET KnownPerms) \ {{}} :
          Begin(r, [Idle EXCEPT !.pc = "grant", !.role = a, !.perms = ps])
    /\ UNCHANGED <<tables, spent>>

UnassignBegin(r) ==
    /\ \E a \in KnownRoles, ps \in (SUBSET KnownPerms) \ {{}} :
          Begin(r, [Idle EXCEPT !.pc = "revoke", !.role = a, !.perms = ps])
    /\ UNCHANGED <<tables, spent>>

\* INSERT OR IGNORE: a role or a permission removed meanwhile is no error, as
\* no connection sends PRAGMA foreign_keys.
Grant(r) ==
    /\ At(r, "grant")
    /\ \E p \in req[r].perms :
          /\ granted' = [granted EXCEPT ![req[r].role] = @ \cup {p}]
          /\ Touch(r, req[r].role, Done(r, p))
    /\ UNCHANGED <<roles, permissions, usersRoles, spent>>

Revoke(r) ==
    /\ At(r, "revoke")
    /\ \E p \in req[r].perms :
          /\ granted' = [granted EXCEPT ![req[r].role] = @ \ {p}]
          /\ Touch(r, req[r].role, Done(r, p))
    /\ UNCHANGED <<roles, permissions, usersRoles, spent>>

RoleRemoveFind(r) ==
    /\ \E a \in LiveRoles : Begin(r, [Idle EXCEPT !.pc = "deleteRole", !.role = a])
    /\ UNCHANGED <<tables, spent>>

\* Its rows in users_roles and roles_permissions stay behind.
RoleRemoveDelete(r) ==
    /\ At(r, "deleteRole")
    /\ roles' = [roles EXCEPT ![req[r].role] = Null]
    /\ Finish(r)
    /\ UNCHANGED <<permissions, granted, usersRoles, spent>>

-----------------------------------------------------------------------------
(* PermissionService *)

\* Mutant: the permission of a route is stored without its name.
InsertUnnamed(p, n, active) ==
    /\ FreshPermission(p)
    /\ permissions' = [permissions EXCEPT ![p] = [name |-> Null, active |-> active]]
    /\ spent' = spent \cup {p}

InsertPermission(p, n, active) ==
    /\ FreshPermission(p)
    /\ permissions' = [permissions EXCEPT ![p] = [name |-> n, active |-> active]]
    /\ spent' = spent \cup {p}

\* A name may be given to several rows: permissions__name is not unique.
PermissionCreate ==
    /\ \E p \in PermIds, n \in Routes, active \in BOOLEAN :
          InsertPermission(p, n, active)
    /\ UNCHANGED <<roles, granted, usersRoles, req>>

PermissionUpdateRead(r) ==
    /\ \E p \in LivePerms, n \in Routes, active \in BOOLEAN :
          Begin(r, [Idle EXCEPT !.pc = "updatePermission", !.perm = p,
                                !.row = [name |-> n, active |-> active]])
    /\ UNCHANGED <<tables, spent>>

PermissionUpdate(r) ==
    /\ At(r, "updatePermission")
    /\ LET p == req[r].perm IN
       permissions' = [permissions EXCEPT ![p] = IF @ = Null THEN @ ELSE req[r].row]
    /\ Finish(r)
    /\ UNCHANGED <<roles, granted, usersRoles, spent>>

PermissionRemoveFind(r) ==
    /\ \E p \in LivePerms :
          Begin(r, [Idle EXCEPT !.pc = "deletePermission", !.perm = p])
    /\ UNCHANGED <<tables, spent>>

PermissionRemoveDelete(r) ==
    /\ At(r, "deletePermission")
    /\ permissions' = [permissions EXCEPT ![req[r].perm] = Null]
    /\ Finish(r)
    /\ UNCHANGED <<roles, granted, usersRoles, spent>>

\* permissionsIndex: the routes without a permission, as one query saw them.
DiscoverRead(r) ==
    /\ LET missing == {n \in Routes : \A p \in LivePerms : permissions[p].name # n} IN
       /\ missing # {}
       /\ Begin(r, [Idle EXCEPT !.pc = "discover", !.routes = missing])
    /\ UNCHANGED <<tables, spent>>

\* An insert that throws is passed over like one that succeeds.
Discover(r) ==
    /\ At(r, "discover")
    /\ \E n \in req[r].routes :
          /\ \/ \E p \in PermIds : InsertPermission(p, n, TRUE)
             \/ UNCHANGED <<permissions, spent>>
          /\ LET left == req[r].routes \ {n} IN
             IF left = {} THEN Finish(r)
             ELSE req' = [req EXCEPT ![r].routes = left]
    /\ UNCHANGED <<roles, granted, usersRoles>>

-----------------------------------------------------------------------------
(* users_roles *)

AddUserRole ==
    /\ \E u \in Users, a \in KnownRoles :
          usersRoles' = [usersRoles EXCEPT ![u] = @ \cup {a}]
    /\ UNCHANGED <<roles, permissions, granted, req, spent>>

ClearUserRoles ==
    /\ \E u \in Users : usersRoles' = [usersRoles EXCEPT ![u] = {}]
    /\ UNCHANGED <<roles, permissions, granted, req, spent>>

-----------------------------------------------------------------------------
(* RbacFilter *)

\* A path the registry has no name for (route Null) is let through unasked;
\* so is a request whose first query throws.
PassThrough(r) ==
    /\ \E u \in Users, n \in Routes \cup {Null} :
          Begin(r, [Idle EXCEPT !.user = u, !.route = n, !.pc = "admitted"])
    /\ UNCHANGED <<tables, spent>>

QueryAdministrator(r) ==
    /\ \E u \in Users, n \in Routes :
          Begin(r, [Idle EXCEPT !.user = u, !.route = n,
                      !.pc = IF IsAdministrator(u) THEN "admitted" ELSE "queryAccess"])
    /\ UNCHANGED <<tables, spent>>

QueryAccess(r) ==
    /\ At(r, "queryAccess")
    /\ IF HasAccess(req[r].user, req[r].route) THEN Goto(r, "admitted") ELSE Finish(r)
    /\ UNCHANGED <<tables, spent>>

Respond(r) ==
    /\ At(r, "admitted")
    /\ Finish(r)
    /\ UNCHANGED <<tables, spent>>

\* A statement that throws unwinds its handler (discovery catches it per
\* row); RbacFilter lets the request in.
RequestFails(r) ==
    /\ req[r].pc \notin {"idle", "discover", "admitted"}
    /\ IF At(r, "queryAccess") THEN Goto(r, "admitted") ELSE Finish(r)
    /\ UNCHANGED <<tables, spent>>

-----------------------------------------------------------------------------

RoleStep(r) ==
    \/ RoleCreateRead(r) \/ InsertRole(r)
    \/ RoleUpdateRead(r) \/ CheckName(r) \/ UpdateRole(r) \/ ClearGrants(r)
    \/ AssignBegin(r) \/ UnassignBegin(r) \/ Grant(r) \/ Revoke(r)
    \/ RoleRemoveFind(r) \/ RoleRemoveDelete(r)

PermissionStep(r) ==
    \/ PermissionUpdateRead(r) \/ PermissionUpdate(r)
    \/ PermissionRemoveFind(r) \/ PermissionRemoveDelete(r)
    \/ DiscoverRead(r) \/ Discover(r)

FilterStep(r) ==
    PassThrough(r) \/ QueryAdministrator(r) \/ QueryAccess(r) \/ Respond(r)

Next ==
    \/ \E r \in Requests :
          RoleStep(r) \/ PermissionStep(r) \/ FilterStep(r) \/ RequestFails(r)
    \/ PermissionCreate \/ AddUserRole \/ ClearUserRoles

Spec == Init /\ [][Next]_vars

-----------------------------------------------------------------------------
(* Properties *)

\* No two roles ever share a name, so the Administrator role stays one role
\* although create and update look for the name an await before they write it
\* (RoleService.cc:64-78 and 102-114; stale rows are written back whole).
RoleNamesUnique ==
    \A a, b \in LiveRoles : roles[a] = roles[b] => a = b

\* A create or an update whose role nobody else touches since it cleared the
\* list stores exactly the permissions submitted, statement by statement
\* (RoleService.cc:80-84 and 116-123).
ListsAreExact ==
    \A r \in Requests :
        At(r, "grant") /\ req[r].exact =>
            granted[req[r].role] = req[r].ask \ req[r].perms

MayAccess(u, n) == IsAdministrator(u) \/ HasAccess(u, n)

\* Nobody gains a route by a deletion, a creation or the discovery of new
\* permissions, although deleted roles and permissions leave rows behind in
\* users_roles and roles_permissions: only by a statement that assigns a role
\* or a permission, renames a role or edits a permission
\* (AccessController.cc:424-441, RbacHelper.cc:22-34).
GrantsAreDeliberate ==
    [][\A u \in Users, n \in Routes :
          MayAccess(u, n)' /\ ~MayAccess(u, n) =>
              \/ ~(usersRoles'[u] \subseteq usersRoles[u])
              \/ \E a \in usersRoles[u] : ~(granted'[a] \subseteq granted[a])
              \/ \E p \in LivePerms : permissions'[p] \notin {permissions[p], Null}
              \/ \E a \in LiveRoles : roles'[a] \notin {roles[a], Null}]_vars

\* "Auto-discover: sync RouteRegistry entries" and "ignore duplicates"
\* (AccessController.cc:424, 439): discovery adds no second row of a name.
DiscoveryAddsNoDuplicate ==
    [][\A r \in Requests, p \in PermIds :
          At(r, "discover") /\ req'[r] # req[r] /\ permissions'[p] # permissions[p] =>
              \A q \in LivePerms : permissions[q].name # permissions'[p].name]_vars

\* "FOREIGN KEY (role_id) REFERENCES roles(id) ON DELETE CASCADE"
\* (20240101000001_create_schema.sql:92 and 99): access comes from a role that
\* still exists, never from the rows a deleted one left.
DeletedRoleGrantsNothing ==
    \A u \in Users, n \in Routes :
        HasAccess(u, n) =>
            \E a \in usersRoles[u] : \E p \in granted[a] :
                /\ roles[a] # Null
                /\ permissions[p] # Null
                /\ permissions[p] = [name |-> n, active |-> TRUE]
=============================================================================
