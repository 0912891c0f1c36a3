---------------------------- MODULE AccessProofs ----------------------------
(***************************************************************************)
(* Proofs about Access, for any users, roles, permissions and requests:    *)
(* types, the uniqueness of role names, the exactness of a role's list,    *)
(* that routes are gained deliberately, and, where foreign keys are        *)
(* enforced, that a deleted role grants nothing.                           *)
(***************************************************************************)
EXTENDS Access, TLAPS

\* What the fields of a request are while it waits for which statement, and
\* that what it holds had a row, among the ids known.
Sound(q, known) ==
    /\ q \in Request
    /\ q.pc = "insertRole" => q.role \in RoleIds /\ q.name \in RoleNames
    /\ q.pc \in {"checkName", "updateRole", "clearGrants", "grant", "revoke", "deleteRole"}
          => q.role \in RoleIds /\ q.role \in known
    /\ q.pc \in {"checkName", "updateRole"} => q.name \in RoleNames
    /\ q.pc = "updatePermission" => q.perm \in PermIds /\ q.row \in Permission
    /\ q.pc = "deletePermission" => q.perm \in PermIds
    /\ q.perms \subseteq known
    /\ q.pc \in {"insertRole", "checkName", "updateRole", "clearGrants"} => q.perms = q.ask
    /\ q.exact => q.perms \subseteq q.ask

AllSound == \A r \in Requests : Sound(req[r], spent)

\* The id of a role about to be inserted never had a row, and no other request
\* holds it.
Fresh ==
    \A r \in Requests : At(r, "insertRole") =>
        /\ req[r].role \notin spent
        /\ \A s \in Requests \ {r} : req[s].role # req[r].role

\* The tables name only ids that had a row once.
Known ==
    /\ \A a \in RoleIds : /\ roles[a] # Null => a \in spent
                          /\ granted[a] \subseteq spent
                          /\ granted[a] # {} => a \in spent
    /\ \A u \in Users : usersRoles[u] \subseteq spent

Inv == /\ TypeOK /\ AllSound /\ Fresh /\ Known
       /\ RoleNamesUnique /\ ListsAreExact

LEMMA IdleSound == ASSUME NEW known PROVE Sound(Idle, known)
BY DEF Sound, Idle, Request, Statements

LEMMA InitInv == Init => Inv
<1> SUFFICES ASSUME Init PROVE Inv
  OBVIOUS
<1>1. \A r \in Requests : req[r] = Idle
  BY DEF Init
<1>2. Idle \in Request /\ Idle.pc = "idle"
  BY DEF Idle, Request, Statements
<1>3. TypeOK
  BY <1>2 DEF Init, TypeOK
<1>4. AllSound
  BY <1>1, IdleSound DEF AllSound
<1>5. Fresh /\ ListsAreExact
  BY <1>1, <1>2 DEF Fresh, ListsAreExact, At
<1>6. Known /\ RoleNamesUnique
  BY DEF Init, Known, RoleNamesUnique, LiveRoles
<1> QED  BY <1>3, <1>4, <1>5, <1>6 DEF Inv

-----------------------------------------------------------------------------
(* Steps of one request that leave the tables alone *)

LEMMA SlotStep ==
    ASSUME Inv, NEW r \in Requests, NEW q, Sound(q, spent),
           req' = [req EXCEPT ![r] = q], UNCHANGED <<tables, spent>>,
           q.pc = "insertRole" =>
              q.role \notin spent /\ \A s \in Requests \ {r} : req[s].role # q.role,
           \A s \in Requests \ {r} : At(s, "insertRole") => req[s].role # q.role,
           q.pc = "grant" /\ q.exact => granted[q.role] = q.ask \ q.perms
    PROVE  Inv'
<1>1. q \in Request
  BY DEF Sound
<1>2. /\ req' \in [Requests -> Request] /\ req'[r] = q
      /\ \A s \in Requests \ {r} : req'[s] = req[s]
  BY <1>1 DEF Inv, TypeOK
<1>3. UNCHANGED <<roles, permissions, granted, usersRoles, spent>>
  BY DEF tables
<1>4. TypeOK'
  BY <1>2, <1>3 DEF Inv, TypeOK
<1>5. AllSound'
  BY <1>2, <1>3 DEF Inv, AllSound
<1>6. Fresh'
  BY <1>2, <1>3 DEF Inv, Fresh, At
<1>7. ListsAreExact'
  BY <1>2, <1>3 DEF Inv, ListsAreExact, At
<1>8. (Known /\ RoleNamesUnique)'
  BY <1>3 DEF Inv, Known, RoleNamesUnique, LiveRoles
<1> QED  BY <1>4, <1>5, <1>6, <1>7, <1>8 DEF Inv

LEMMA FinishStep ==
    ASSUME Inv, NEW r \in Requests, Finish(r), UNCHANGED <<tables, spent>>
    PROVE  Inv'
<1>1. \A s \in Requests : At(s, "insertRole") => req[s].role # Idle.role
  BY NullAssumption DEF Inv, AllSound, Sound, At, Idle
<1>2. Idle.pc = "idle"
  BY DEF Idle
<1> QED  BY <1>1, <1>2, IdleSound, SlotStep DEF Finish

\* A request is taken up by a role that had a row, or by none.
LEMMA BeginStep ==
    ASSUME Inv, NEW r \in Requests, NEW q, Sound(q, spent), Begin(r, q),
           UNCHANGED <<tables, spent>>,
           q.role \in spent \/ q.role = Null, q.pc # "insertRole", q.exact = FALSE
    PROVE  Inv'
<1>1. \A s \in Requests \ {r} : At(s, "insertRole") => req[s].role # q.role
  BY NullAssumption DEF Inv, AllSound, Sound, Fresh, At
<1> QED  BY <1>1, SlotStep DEF Begin

\* A request goes on, with its fields as they are.
LEMMA GotoStep ==
    ASSUME Inv, NEW r \in Requests, NEW s, Goto(r, s),
           Sound([req[r] EXCEPT !.pc = s], spent), UNCHANGED <<tables, spent>>,
           s # "insertRole", s # "grant"
    PROVE  Inv'
<1> DEFINE q == [req[r] EXCEPT !.pc = s]
<1>1. req[r] \in Request
  BY DEF Inv, TypeOK
<1>2. q.pc = s /\ q.role = req[r].role
  BY <1>1 DEF Request
<1>3. \A t \in Requests \ {r} : At(t, "insertRole") => req[t].role # q.role
  BY <1>2 DEF Inv, Fresh
<1>4. req' = [req EXCEPT ![r] = q]
  BY DEF Goto
<1> HIDE DEF q
<1> QED  BY <1>2, <1>3, <1>4, SlotStep DEF q

\* What the first statement of a request may hold.
LEMMA KnownTables ==
    ASSUME Inv
    PROVE  /\ \A a \in LiveRoles : a \in RoleIds /\ a \in spent
           /\ \A ps \in SUBSET KnownPerms : ps \subseteq PermIds /\ ps \subseteq spent
           /\ KnownRoles \subseteq RoleIds /\ KnownRoles \subseteq spent
BY DEF Inv, Known, LiveRoles, KnownPerms, KnownRoles

LEMMA RoleCreateReadStep ==
    ASSUME Inv, NEW r \in Requests, RoleCreateRead(r) PROVE Inv'
<1>1. PICK a \in RoleIds, n \in RoleNames, ps \in SUBSET KnownPerms :
        /\ FreshRole(a)
        /\ Begin(r, [Idle EXCEPT !.pc = "insertRole", !.role = a, !.name = n,
                                 !.perms = ps, !.ask = ps, !.exact = TRUE])
  BY DEF RoleCreateRead
<1> DEFINE q == [Idle EXCEPT !.pc = "insertRole", !.role = a, !.name = n,
                             !.perms = ps, !.ask = ps, !.exact = TRUE]
<1>2. ps \subseteq PermIds /\ ps \subseteq spent
  BY KnownTables
<1>3. q.pc = "insertRole" /\ q.role = a /\ q.name = n /\ q.perms = ps /\ q.ask = ps
  BY DEF Idle
<1>4. q \in Request
  BY <1>2 DEF Idle, Request, Statements
<1>5. Sound(q, spent)
  BY <1>2, <1>3, <1>4 DEF Sound
<1>6. a \notin spent /\ \A s \in Requests : req[s].role # a
  BY <1>1 DEF FreshRole
<1>7. req' = [req EXCEPT ![r] = q] /\ UNCHANGED <<tables, spent>>
  BY <1>1 DEF Begin, RoleCreateRead
<1> HIDE DEF q
<1> QED  BY <1>3, <1>5, <1>6, <1>7, SlotStep

LEMMA RoleUpdateReadStep ==
    ASSUME Inv, NEW r \in Requests, RoleUpdateRead(r) PROVE Inv'
<1>1. PICK a \in LiveRoles, n \in RoleNames, ps \in SUBSET KnownPerms :
        Begin(r, [Idle EXCEPT
                    !.pc = IF n = roles[a] THEN "updateRole" ELSE "checkName",
                    !.role = a, !.name = n, !.perms = ps, !.ask = ps])
  BY DEF RoleUpdateRead
<1> DEFINE q == [Idle EXCEPT
                   !.pc = IF n = roles[a] THEN "updateRole" ELSE "checkName",
                   !.role = a, !.name = n, !.perms = ps, !.ask = ps]
<1>2. a \in RoleIds /\ a \in spent /\ ps \subseteq PermIds /\ ps \subseteq spent
  BY KnownTables
<1>3. /\ q.pc \in {"updateRole", "checkName"} /\ q.role = a /\ q.name = n
      /\ q.perms = ps /\ q.ask = ps /\ q.exact = FALSE
  BY DEF Idle
<1>4. q \in Request
  BY <1>2 DEF Idle, Request, Statements
<1>5. Sound(q, spent)
  BY <1>2, <1>3, <1>4 DEF Sound
<1>6. Begin(r, q) /\ UNCHANGED <<tables, spent>>
  BY <1>1 DEF RoleUpdateRead
<1> HIDE DEF q
<1> QED  BY <1>2, <1>3, <1>5, <1>6, BeginStep

LEMMA AssignmentBeginStep ==
    ASSUME Inv, NEW r \in Requests, AssignBegin(r) \/ UnassignBegin(r) PROVE Inv'
<1>1. PICK a \in KnownRoles, ps \in SUBSET KnownPerms, c \in {"grant", "revoke"} :
        Begin(r, [Idle EXCEPT !.pc = c, !.role = a, !.perms = ps])
  BY DEF AssignBegin, UnassignBegin
<1> DEFINE q == [Idle EXCEPT !.pc = c, !.role = a, !.perms = ps]
<1>2. a \in RoleIds /\ a \in spent /\ ps \subseteq PermIds /\ ps \subseteq spent
  BY KnownTables
<1>3. q.pc = c /\ q.role = a /\ q.perms = ps /\ q.exact = FALSE
  BY DEF Idle
<1>4. q \in Request
  BY <1>2 DEF Idle, Request, Statements
<1>5. Sound(q, spent)
  BY <1>2, <1>3, <1>4 DEF Sound
<1>6. Begin(r, q) /\ UNCHANGED <<tables, spent>>
  BY <1>1 DEF AssignBegin, UnassignBegin
<1> HIDE DEF q
<1> QED  BY <1>2, <1>3, <1>5, <1>6, BeginStep

LEMMA RemoveFindStep ==
    ASSUME Inv, NEW r \in Requests, RoleRemoveFind(r) \/ PermissionRemoveFind(r)
    PROVE  Inv'
<1>1. CASE RoleRemoveFind(r)
  <2>1. PICK a \in LiveRoles :
          Begin(r, [Idle EXCEPT !.pc = "deleteRole", !.role = a])
    BY <1>1 DEF RoleRemoveFind
  <2>2. a \in RoleIds /\ a \in spent
    BY KnownTables
  <2> DEFINE q == [Idle EXCEPT !.pc = "deleteRole", !.role = a]
  <2>3. q.pc = "deleteRole" /\ q.role = a /\ q.perms = {} /\ q.exact = FALSE
    BY DEF Idle
  <2>4. q \in Request
    BY <2>2 DEF Idle, Request, Statements
  <2>5. Sound(q, spent)
    BY <2>2, <2>3, <2>4 DEF Sound
  <2>6. Begin(r, q) /\ UNCHANGED <<tables, spent>>
    BY <1>1, <2>1 DEF RoleRemoveFind
  <2> HIDE DEF q
  <2> QED  BY <2>2, <2>3, <2>5, <2>6, BeginStep
<1>2. CASE PermissionRemoveFind(r)
  <2>1. PICK p \in LivePerms :
          Begin(r, [Idle EXCEPT !.pc = "deletePermission", !.perm = p])
    BY <1>2 DEF PermissionRemoveFind
  <2> DEFINE q == [Idle EXCEPT !.pc = "deletePermission", !.perm = p]
  <2>2. p \in PermIds
    BY DEF LivePerms
  <2>3. /\ q.pc = "deletePermission" /\ q.perm = p /\ q.role = Null
        /\ q.perms = {} /\ q.exact = FALSE
    BY DEF Idle
  <2>4. q \in Request
    BY <2>2 DEF Idle, Request, Statements
  <2>5. Sound(q, spent)
    BY <2>2, <2>3, <2>4 DEF Sound
  <2>6. Begin(r, q) /\ UNCHANGED <<tables, spent>>
    BY <1>2, <2>1 DEF PermissionRemoveFind
  <2> HIDE DEF q
  <2> QED  BY <2>3, <2>5, <2>6, BeginStep
<1> QED  BY <1>1, <1>2

LEMMA PermissionReadStep ==
    ASSUME Inv, NEW r \in Requests, PermissionUpdateRead(r) \/ DiscoverRead(r)
    PROVE  Inv'
<1>1. CASE PermissionUpdateRead(r)
  <2>1. PICK p \in LivePerms, n \in Routes, active \in BOOLEAN :
          Begin(r, [Idle EXCEPT !.pc = "updatePermission", !.perm = p,
                                !.row = [name |-> n, active |-> active]])
    BY <1>1 DEF PermissionUpdateRead
  <2> DEFINE q == [Idle EXCEPT !.pc = "updatePermission", !.perm = p,
                               !.row = [name |-> n, active |-> active]]
  <2>2. p \in PermIds /\ [name |-> n, active |-> active] \in Permission
    BY DEF LivePerms, Permission
  <2>3. /\ q.pc = "updatePermission" /\ q.perm = p /\ q.role = Null
        /\ q.row = [name |-> n, active |-> active]
        /\ q.perms = {} /\ q.exact = FALSE
    BY DEF Idle
  <2>4. q \in Request
    BY <2>2 DEF Idle, Request, Statements
  <2>5. Sound(q, spent)
    BY <2>2, <2>3, <2>4 DEF Sound
  <2>6. Begin(r, q) /\ UNCHANGED <<tables, spent>>
    BY <1>1, <2>1 DEF PermissionUpdateRead
  <2> HIDE DEF q
  <2> QED  BY <2>3, <2>5, <2>6, BeginStep
<1>2. CASE DiscoverRead(r)
  <2> DEFINE missing == {n \in Routes : \A p \in LivePerms : permissions[p].name # n}
  <2> DEFINE q == [Idle EXCEPT !.pc = "discover", !.routes = missing]
  <2>1. /\ q.pc = "discover" /\ q.role = Null /\ q.perms = {} /\ q.exact = FALSE
    BY DEF Idle
  <2>2. q \in Request
    BY DEF Idle, Request, Statements
  <2>3. Sound(q, spent)
    BY <2>1, <2>2 DEF Sound
  <2>4. Begin(r, q) /\ UNCHANGED <<tables, spent>>
    BY <1>2 DEF DiscoverRead
  <2> HIDE DEF q, missing
  <2> QED  BY <2>1, <2>3, <2>4, BeginStep
<1> QED  BY <1>1, <1>2

LEMMA FilterBeginStep ==
    ASSUME Inv, NEW r \in Requests, PassThrough(r) \/ QueryAdministrator(r)
    PROVE  Inv'
<1>1. PICK u \in Users, n \in Routes \cup {Null}, c \in {"admitted", "queryAccess"} :
        Begin(r, [Idle EXCEPT !.user = u, !.route = n, !.pc = c])
  BY DEF PassThrough, QueryAdministrator
<1> DEFINE q == [Idle EXCEPT !.user = u, !.route = n, !.pc = c]
<1>2. q.pc = c /\ q.role = Null /\ q.perms = {} /\ q.exact = FALSE
  BY DEF Idle
<1>3. q \in Request
  BY DEF Idle, Request, Statements
<1>4. Sound(q, spent)
  BY <1>2, <1>3 DEF Sound
<1>5. Begin(r, q) /\ UNCHANGED <<tables, spent>>
  BY <1>1 DEF PassThrough, QueryAdministrator
<1> HIDE DEF q
<1> QED  BY <1>2, <1>4, <1>5, BeginStep

LEMMA FilterStepInv ==
    ASSUME Inv, NEW r \in Requests, FilterStep(r) PROVE Inv'
<1>1. CASE PassThrough(r) \/ QueryAdministrator(r)
  BY <1>1, FilterBeginStep
<1>2. CASE QueryAccess(r)
  <2>1. Sound([req[r] EXCEPT !.pc = "admitted"], spent)
    BY <1>2 DEF Inv, AllSound, Sound, QueryAccess, At, Request, Statements
  <2>2. UNCHANGED <<tables, spent>> /\ (Goto(r, "admitted") \/ Finish(r))
    BY <1>2 DEF QueryAccess
  <2> QED  BY <2>1, <2>2, GotoStep, FinishStep
<1>3. CASE Respond(r)
  BY <1>3, FinishStep DEF Respond
<1> QED  BY <1>1, <1>2, <1>3 DEF FilterStep

LEMMA RequestFailsStep ==
    ASSUME Inv, NEW r \in Requests, RequestFails(r) PROVE Inv'
<1>1. UNCHANGED <<tables, spent>>
  BY DEF RequestFails
<1>2. CASE At(r, "queryAccess")
  <2>1. Sound([req[r] EXCEPT !.pc = "admitted"], spent)
    BY <1>2 DEF Inv, AllSound, Sound, At, Request, Statements
  <2> QED  BY <1>1, <1>2, <2>1, GotoStep DEF RequestFails
<1>3. CASE ~At(r, "queryAccess")
  BY <1>1, <1>3, FinishStep DEF RequestFails
<1> QED  BY <1>2, <1>3

LEMMA CheckNameStep ==
    ASSUME Inv, NEW r \in Requests, CheckName(r) PROVE Inv'
<1>1. Sound([req[r] EXCEPT !.pc = "updateRole"], spent)
  BY DEF Inv, AllSound, Sound, CheckName, At, Request, Statements
<1>2. UNCHANGED <<tables, spent>> /\ (Goto(r, "updateRole") \/ Finish(r))
  BY DEF CheckName
<1> QED  BY <1>1, <1>2, GotoStep, FinishStep

-----------------------------------------------------------------------------
(* Steps that write a table *)

\* What a writing step leaves of the requests: r has a sound state of its own,
\* every other the state it had, or that without its claim to exactness.
Leaves(r, q) ==
    /\ req' \in [Requests -> Request]
    /\ req'[r] = q
    /\ \A s \in Requests \ {r} :
          req'[s] = req[s] \/ req'[s] = [req[s] EXCEPT !.exact = FALSE]

LEMMA LeavesSound ==
    ASSUME Inv, NEW r \in Requests, NEW q, Leaves(r, q), spent \subseteq spent',
           Sound(q, spent')
    PROVE  AllSound'
<1> SUFFICES ASSUME NEW s \in Requests PROVE Sound(req'[s], spent')
  BY DEF AllSound
<1>1. CASE s = r
  BY <1>1 DEF Leaves
<1>2. CASE s # r
  <2>1. Sound(req[s], spent)
    BY DEF Inv, AllSound
  <2>2. Sound(req[s], spent')
    BY <2>1 DEF Sound
  <2>3. CASE req'[s] = req[s]
    BY <2>2, <2>3
  <2>4. CASE req'[s] = [req[s] EXCEPT !.exact = FALSE]
    BY <2>2, <2>4 DEF Sound, Request
  <2> QED  BY <1>2, <2>3, <2>4 DEF Leaves
<1> QED  BY <1>1, <1>2

\* A role is given out once: r gives up its id or keeps it, and an id that gets
\* its row now is r's own.
LEMMA LeavesFresh ==
    ASSUME Inv, NEW r \in Requests, NEW q, Leaves(r, q),
           q.pc # "insertRole", q.role \in {req[r].role, Null},
           \A s \in Requests \ {r} : At(s, "insertRole") => req[s].role \notin spent'
    PROVE  Fresh'
<1>1. \A s \in Requests \ {r} :
        req'[s].pc = req[s].pc /\ req'[s].role = req[s].role
  BY DEF Leaves, Inv, TypeOK, Request
<1>2. \A s \in Requests \ {r} : At(s, "insertRole") => req[s].role \in RoleIds
  BY DEF Inv, AllSound, Sound, At
<1> QED  BY <1>1, <1>2, NullAssumption DEF Leaves, Inv, Fresh, At

LEMMA LeavesLists ==
    ASSUME Inv, NEW r \in Requests, NEW q, Leaves(r, q),
           q.pc = "grant" /\ q.exact => granted'[q.role] = q.ask \ q.perms,
           \A s \in Requests \ {r} : At(s, "grant") /\ req'[s].exact =>
              granted'[req[s].role] = granted[req[s].role]
    PROVE  ListsAreExact'
<1> SUFFICES ASSUME NEW s \in Requests, req'[s].pc = "grant", req'[s].exact
             PROVE  granted'[req'[s].role] = req'[s].ask \ req'[s].perms
  BY DEF ListsAreExact, At
<1>1. CASE s = r
  BY <1>1 DEF Leaves
<1>2. CASE s # r
  <2>1. CASE req'[s] = req[s]
    BY <1>2, <2>1 DEF Inv, ListsAreExact, At
  <2>2. CASE req'[s] = [req[s] EXCEPT !.exact = FALSE]
    BY <2>2 DEF Inv, TypeOK, Request
  <2> QED  BY <1>2, <2>1, <2>2 DEF Leaves
<1> QED  BY <1>1, <1>2

\* After Touch, only the writer may claim to be exact about the role.
LEMMA TouchLeaves ==
    ASSUME Inv, NEW r \in Requests, NEW a, NEW q \in Request, Touch(r, a, q)
    PROVE  /\ Leaves(r, q)
           /\ \A s \in Requests \ {r} : req'[s].exact => req[s].role # a
<1>1. \A s \in Requests : req[s] \in Request
  BY DEF Inv, TypeOK
<1>2. \A s \in Requests : [req[s] EXCEPT !.exact = FALSE] \in Request
  BY <1>1 DEF Request
<1>3. req' \in [Requests -> Request]
  BY <1>1, <1>2 DEF Touch
<1>4. \A s \in Requests \ {r} :
        req'[s] = IF req[s].role = a THEN [req[s] EXCEPT !.exact = FALSE] ELSE req[s]
  BY DEF Touch
<1>5. req'[r] = q
  BY DEF Touch
<1>6. \A s \in Requests \ {r} : req'[s].exact => req[s].role # a
  BY <1>1, <1>4 DEF Request
<1> QED  BY <1>3, <1>4, <1>5, <1>6 DEF Leaves

LEMMA FinishLeaves ==
    ASSUME Inv, NEW r \in Requests, Finish(r)
    PROVE  Leaves(r, Idle) /\ \A s \in Requests \ {r} : req'[s] = req[s]
<1>1. Idle \in Request
  BY DEF Idle, Request, Statements
<1> QED  BY <1>1 DEF Leaves, Finish, Inv, TypeOK

LEMMA GotoLeaves ==
    ASSUME Inv, NEW r \in Requests, NEW s \in Statements, Goto(r, s)
    PROVE  /\ Leaves(r, [req[r] EXCEPT !.pc = s])
           /\ \A t \in Requests \ {r} : req'[t] = req[t]
<1>1. [req[r] EXCEPT !.pc = s] \in Request
  BY DEF Inv, TypeOK, Request
<1> QED  BY <1>1 DEF Leaves, Goto, Inv, TypeOK

\* The name is free in the unique index, and the role's list is empty.
LEMMA InsertRoleStep ==
    ASSUME Inv, NEW r \in Requests, InsertRole(r) PROVE Inv'
<1> DEFINE a == req[r].role
           n == req[r].name
<1>1. /\ At(r, "insertRole") /\ a \in RoleIds /\ n \in RoleNames /\ n # Null
      /\ UNCHANGED <<permissions, granted, usersRoles>>
  BY NullAssumption DEF InsertRole, Inv, AllSound, Sound, At
<1>2. CASE ~NameFree(a, n)
  BY <1>2, FinishStep DEF InsertRole, tables
<1>3. CASE NameFree(a, n)
  <2>1. /\ roles' = [roles EXCEPT ![a] = n] /\ spent' = spent \cup {a}
        /\ IF req[r].perms = {} THEN Finish(r) ELSE Goto(r, "grant")
    BY <1>3 DEF InsertRole
  <2>2. PICK q \in {Idle, [req[r] EXCEPT !.pc = "grant"]} :
          Leaves(r, q) /\ \A s \in Requests \ {r} : req'[s] = req[s]
    BY <2>1, FinishLeaves, GotoLeaves DEF Statements
  <2>3. /\ Sound(req[r], spent) /\ a \notin spent
        /\ \A s \in Requests \ {r} : req[s].role # a
    BY <1>1 DEF Inv, AllSound, Fresh
  <2>4. granted[a] = {}
    BY <1>1, <2>3 DEF Inv, Known
  <2>5. Sound([req[r] EXCEPT !.pc = "grant"], spent')
    BY <1>1, <2>1, <2>3 DEF Sound, Request, Statements, At
  <2>6. Sound(q, spent')
    BY <2>2, <2>5, IdleSound
  <2>7. q.pc # "insertRole" /\ q.role \in {a, Null}
    BY <2>2, <2>3 DEF Sound, Idle, Request
  <2>8. q.pc = "grant" /\ q.exact => granted'[q.role] = q.ask \ q.perms
    <3>1. CASE q = Idle
      BY <3>1 DEF Idle
    <3>2. CASE q = [req[r] EXCEPT !.pc = "grant"]
      <4>1. q.role = a /\ q.perms = req[r].perms /\ q.ask = req[r].ask
        BY <2>3, <3>2 DEF Sound, Request
      <4>2. req[r].perms = req[r].ask
        BY <1>1, <2>3 DEF Sound, At
      <4> QED  BY <1>1, <2>4, <4>1, <4>2
    <3> QED  BY <2>2, <3>1, <3>2
  <2>9. AllSound'
    BY <2>1, <2>2, <2>6, LeavesSound
  <2>10. Fresh'
    <3>1. \A s \in Requests \ {r} : At(s, "insertRole") => req[s].role \notin spent'
      BY <2>1, <2>3 DEF Inv, Fresh
    <3> QED  BY <2>2, <2>7, <3>1, LeavesFresh
  <2>11. ListsAreExact'
    BY <1>1, <2>2, <2>8, LeavesLists
  <2>12. TypeOK'
    BY <1>1, <2>1, <2>2 DEF Inv, TypeOK, Leaves
  <2>13. Known'
    BY <1>1, <2>1 DEF Inv, TypeOK, Known
  <2>14. RoleNamesUnique'
    BY <1>1, <1>3, <2>1 DEF Inv, TypeOK, RoleNamesUnique, LiveRoles, NameFree
  <2> QED  BY <2>9, <2>10, <2>11, <2>12, <2>13, <2>14 DEF Inv
<1> QED  BY <1>2, <1>3

\* A new name is free in the unique index too; a role that is gone stays gone.
LEMMA UpdateRoleStep ==
    ASSUME Inv, NEW r \in Requests, UpdateRole(r) PROVE Inv'
<1> DEFINE a == req[r].role
           n == req[r].name
<1>1. /\ At(r, "updateRole") /\ a \in RoleIds /\ a \in spent
      /\ n \in RoleNames /\ n # Null
      /\ UNCHANGED <<permissions, granted, usersRoles, spent>>
  BY NullAssumption DEF UpdateRole, Inv, AllSound, Sound, At
<1>2. CASE roles[a] # Null /\ ~NameFree(a, n)
  BY <1>2, FinishStep DEF UpdateRole, tables
<1>3. CASE roles[a] = Null \/ NameFree(a, n)
  <2>1. /\ roles' = roles \/ (NameFree(a, n) /\ roles' = [roles EXCEPT ![a] = n])
        /\ Finish(r) \/ Goto(r, "clearGrants")
    BY <1>3 DEF UpdateRole
  <2>2. PICK q \in {Idle, [req[r] EXCEPT !.pc = "clearGrants"]} :
          Leaves(r, q) /\ \A s \in Requests \ {r} : req'[s] = req[s]
    BY <2>1, FinishLeaves, GotoLeaves DEF Statements
  <2>3. Sound([req[r] EXCEPT !.pc = "clearGrants"], spent)
    BY <1>1 DEF Inv, AllSound, Sound, Request, Statements, At
  <2>4. Sound(q, spent')
    BY <1>1, <2>2, <2>3, IdleSound
  <2>5. q.pc \notin {"insertRole", "grant"} /\ q.role \in {a, Null}
    BY <2>2 DEF Inv, TypeOK, Idle, Request
  <2>6. AllSound'
    BY <1>1, <2>2, <2>4, LeavesSound
  <2>7. Fresh'
    <3>1. \A s \in Requests \ {r} : At(s, "insertRole") => req[s].role \notin spent'
      BY <1>1 DEF Inv, Fresh
    <3> QED  BY <2>2, <2>5, <3>1, LeavesFresh
  <2>8. ListsAreExact'
    BY <1>1, <2>2, <2>5, LeavesLists
  <2>9. TypeOK'
    BY <1>1, <2>1, <2>2 DEF Inv, TypeOK, Leaves
  <2>10. Known'
    BY <1>1, <2>1 DEF Inv, TypeOK, Known
  <2>11. RoleNamesUnique'
    BY <1>1, <2>1 DEF Inv, TypeOK, RoleNamesUnique, LiveRoles, NameFree
  <2> QED  BY <2>6, <2>7, <2>8, <2>9, <2>10, <2>11 DEF Inv
<1> QED  BY <1>2, <1>3

\* What is common to the steps that write the list of one role.
LEMMA ListStep ==
    ASSUME Inv, NEW r \in Requests, NEW a \in RoleIds, NEW q,
           a \in spent, Sound(q, spent), Touch(r, a, q),
           q.pc # "insertRole", q.role \in {req[r].role, Null},
           NEW ps \in SUBSET PermIds, ps \subseteq spent,
           granted' = [granted EXCEPT ![a] = ps],
           UNCHANGED <<roles, permissions, usersRoles, spent>>,
           q.pc = "grant" /\ q.exact => granted'[q.role] = q.ask \ q.perms
    PROVE  Inv'
<1>1. q \in Request
  BY DEF Sound
<1>2. Leaves(r, q) /\ \A s \in Requests \ {r} : req'[s].exact => req[s].role # a
  BY <1>1, TouchLeaves
<1>3. AllSound'
  BY <1>2, LeavesSound
<1>4. Fresh'
  <2>1. \A s \in Requests \ {r} : At(s, "insertRole") => req[s].role \notin spent'
    BY DEF Inv, Fresh
  <2> QED  BY <1>2, <2>1, LeavesFresh
<1>5. ListsAreExact'
  <2>1. \A s \in Requests \ {r} : At(s, "grant") => req[s].role \in RoleIds
    BY DEF Inv, AllSound, Sound, At
  <2>2. \A s \in Requests \ {r} : At(s, "grant") /\ req'[s].exact =>
          granted'[req[s].role] = granted[req[s].role]
    BY <1>2, <2>1 DEF Inv, TypeOK
  <2> QED  BY <1>2, <2>2, LeavesLists
<1>6. TypeOK'
  BY <1>2 DEF Inv, TypeOK, Leaves
<1>7. Known'
  BY DEF Inv, TypeOK, Known
<1>8. RoleNamesUnique'
  BY DEF Inv, RoleNamesUnique, LiveRoles
<1> QED  BY <1>3, <1>4, <1>5, <1>6, <1>7, <1>8 DEF Inv

LEMMA ClearGrantsStep ==
    ASSUME Inv, NEW r \in Requests, ClearGrants(r) PROVE Inv'
<1> DEFINE a == req[r].role
           q == [req[r] EXCEPT !.pc = "grant", !.exact = TRUE]
<1>1. /\ Sound(req[r], spent) /\ req[r].pc = "clearGrants"
  BY DEF Inv, AllSound, ClearGrants, At
<1>2. a \in RoleIds /\ a \in spent /\ req[r].perms = req[r].ask
  BY <1>1 DEF Sound
<1>3. /\ q.pc = "grant" /\ q.role = a
      /\ q.perms = req[r].perms /\ q.ask = req[r].ask
  BY <1>1 DEF Sound, Request
<1>4. Sound(q, spent)
  BY <1>1, <1>2 DEF Sound, Request, Statements
<1>5. /\ granted' = [granted EXCEPT ![a] = {}] /\ Touch(r, a, q)
      /\ UNCHANGED <<roles, permissions, usersRoles, spent>>
  BY DEF ClearGrants
<1>6. granted'[q.role] = q.ask \ q.perms
  BY <1>2, <1>3, <1>5 DEF Inv, TypeOK
<1> HIDE DEF q, a
<1> QED  BY <1>2, <1>3, <1>4, <1>5, <1>6, ListStep DEF a

\* Done keeps what a request holds, one permission less, or is idle.
LEMMA DoneSound ==
    ASSUME Inv, NEW r \in Requests, NEW p, p \in req[r].perms,
           req[r].pc \in {"grant", "revoke"}
    PROVE  /\ Sound(Done(r, p), spent) /\ Done(r, p).role \in {req[r].role, Null}
           /\ Done(r, p).pc \in {req[r].pc, "idle"}
           /\ Done(r, p).pc = "grant" =>
                Done(r, p) = [req[r] EXCEPT !.perms = req[r].perms \ {p}]
<1>1. Sound(req[r], spent)
  BY DEF Inv, AllSound
<1>2. CASE req[r].perms = {p}
  <2>1. Done(r, p) = Idle
    BY <1>2 DEF Done
  <2>2. Idle.pc = "idle" /\ Idle.role = Null
    BY DEF Idle
  <2> QED  BY <2>1, <2>2, IdleSound
<1>3. CASE req[r].perms # {p}
  <2>1. Done(r, p) = [req[r] EXCEPT !.perms = req[r].perms \ {p}]
    BY <1>3 DEF Done
  <2>2. Sound([req[r] EXCEPT !.perms = req[r].perms \ {p}], spent)
    BY <1>1 DEF Sound, Request
  <2> QED  BY <1>1, <2>1, <2>2 DEF Sound, Request
<1> QED  BY <1>2, <1>3

LEMMA GrantStep ==
    ASSUME Inv, NEW r \in Requests, Grant(r) PROVE Inv'
<1> DEFINE a == req[r].role
<1>1. /\ Sound(req[r], spent) /\ req[r].pc = "grant"
      /\ UNCHANGED <<roles, permissions, usersRoles, spent>>
  BY DEF Inv, AllSound, Grant, At
<1>2. a \in RoleIds /\ a \in spent /\ req[r].perms \subseteq PermIds /\ req[r].perms \subseteq spent
  BY <1>1 DEF Sound, Request
<1>3. PICK p \in req[r].perms :
        /\ granted' = [granted EXCEPT ![a] = granted[a] \cup {p}]
        /\ Touch(r, a, Done(r, p))
  BY DEF Grant
<1> DEFINE q == Done(r, p)
<1>4. granted[a] \cup {p} \in SUBSET PermIds /\ granted[a] \cup {p} \subseteq spent
  BY <1>2 DEF Inv, TypeOK, Known
<1>5. /\ Sound(q, spent) /\ q.role \in {a, Null} /\ q.pc \in {"grant", "idle"}
      /\ q.pc = "grant" => q = [req[r] EXCEPT !.perms = req[r].perms \ {p}]
  BY <1>1, DoneSound
<1>6. q.pc = "grant" /\ q.exact => granted'[q.role] = q.ask \ q.perms
  <2> SUFFICES ASSUME q.pc = "grant", q.exact
               PROVE  granted'[q.role] = q.ask \ q.perms
    OBVIOUS
  <2>1. /\ q.role = a /\ q.ask = req[r].ask /\ q.perms = req[r].perms \ {p}
        /\ q.exact = req[r].exact
    BY <1>1, <1>5 DEF Sound, Request
  <2>2. granted[a] = req[r].ask \ req[r].perms
    BY <1>1, <2>1 DEF Inv, ListsAreExact, At
  <2>3. req[r].perms \subseteq req[r].ask
    BY <1>1, <2>1 DEF Sound
  <2>4. granted'[a] = granted[a] \cup {p}
    BY <1>2, <1>3 DEF Inv, TypeOK
  <2> QED  BY <2>1, <2>2, <2>3, <2>4
<1> HIDE DEF q
<1> QED  BY <1>1, <1>2, <1>3, <1>4, <1>5, <1>6, ListStep DEF q

LEMMA RevokeStep ==
    ASSUME Inv, NEW r \in Requests, Revoke(r) PROVE Inv'
<1> DEFINE a == req[r].role
<1>1. /\ Sound(req[r], spent) /\ req[r].pc = "revoke"
      /\ UNCHANGED <<roles, permissions, usersRoles, spent>>
  BY DEF Inv, AllSound, Revoke, At
<1>2. a \in RoleIds /\ a \in spent
  BY <1>1 DEF Sound
<1>3. PICK p \in req[r].perms :
        /\ granted' = [granted EXCEPT ![a] = granted[a] \ {p}]
        /\ Touch(r, a, Done(r, p))
  BY DEF Revoke
<1>4. granted[a] \ {p} \in SUBSET PermIds /\ granted[a] \ {p} \subseteq spent
  BY <1>2 DEF Inv, TypeOK, Known
<1>5. /\ Sound(Done(r, p), spent) /\ Done(r, p).role \in {a, Null}
      /\ Done(r, p).pc \in {"revoke", "idle"}
  BY <1>1, DoneSound
<1> HIDE DEF a
<1> QED  BY <1>1, <1>2, <1>3, <1>4, <1>5, ListStep DEF a

\* The row goes; the rows that name it stay.
LEMMA RoleRemoveDeleteStep ==
    ASSUME Inv, NEW r \in Requests, RoleRemoveDelete(r) PROVE Inv'
<1> DEFINE a == req[r].role
<1>1. /\ Sound(req[r], spent) /\ req[r].pc = "deleteRole"
      /\ UNCHANGED <<permissions, granted, usersRoles, spent>>
      /\ roles' = [roles EXCEPT ![a] = Null]
      /\ Finish(r)
  BY DEF Inv, AllSound, RoleRemoveDelete, At
<1>2. Idle.pc = "idle" /\ Idle.role = Null /\ Idle \in Request
  BY IdleSound DEF Idle, Sound
<1>3. Leaves(r, Idle) /\ \A s \in Requests \ {r} : req'[s] = req[s]
  BY <1>1, <1>2 DEF Inv, TypeOK, Finish, Leaves
<1>4. AllSound'
  BY <1>1, <1>3, IdleSound, LeavesSound
<1>5. Fresh'
  <2>1. \A s \in Requests \ {r} : At(s, "insertRole") => req[s].role \notin spent'
    BY <1>1 DEF Inv, Fresh
  <2> QED  BY <1>2, <1>3, <2>1, LeavesFresh
<1>6. ListsAreExact'
  BY <1>1, <1>2, <1>3, LeavesLists
<1>7. TypeOK'
  BY <1>1, <1>3 DEF Inv, TypeOK, Leaves
<1>8. Known'
  BY <1>1 DEF Inv, TypeOK, Known
<1>9. RoleNamesUnique'
  BY <1>1 DEF Inv, TypeOK, RoleNamesUnique, LiveRoles
<1> QED  BY <1>4, <1>5, <1>6, <1>7, <1>8, <1>9 DEF Inv

LEMMA RoleStepInv ==
    ASSUME Inv, NEW r \in Requests, RoleStep(r) PROVE Inv'
BY RoleCreateReadStep, InsertRoleStep, RoleUpdateReadStep, CheckNameStep,
   UpdateRoleStep, ClearGrantsStep, AssignmentBeginStep, GrantStep, RevokeStep,
   RemoveFindStep, RoleRemoveDeleteStep DEF RoleStep

-----------------------------------------------------------------------------
(* Permissions and users_roles *)

\* A row of permissions is written: role names, lists and users are as before.
LEMMA PermissionRowStep ==
    ASSUME Inv, permissions' \in [PermIds -> Permission \cup {Null}],
           spent \subseteq spent', spent' \subseteq spent \cup PermIds,
           UNCHANGED <<roles, granted, usersRoles>>,
           \A r \in Requests : At(r, "insertRole") => req[r].role \notin spent',
           NEW r \in Requests, NEW q, Sound(q, spent'), Leaves(r, q),
           \A s \in Requests \ {r} : req'[s] = req[s],
           q.pc \notin {"insertRole", "grant"} \/ q = req[r],
           q.role \in {req[r].role, Null}
    PROVE  Inv'
<1>1. AllSound'
  BY LeavesSound
<1>2. Fresh'
  <2>1. CASE q = req[r]
    <3>1. \A s \in Requests : req'[s] = req[s]
      BY <2>1 DEF Leaves
    <3> QED  BY <3>1 DEF Inv, Fresh, At
  <2>2. CASE q.pc # "insertRole"
    BY <2>2, LeavesFresh
  <2> QED  BY <2>1, <2>2
<1>3. ListsAreExact'
  <2>1. CASE q = req[r]
    <3>1. \A s \in Requests : req'[s] = req[s]
      BY <2>1 DEF Leaves
    <3> QED  BY <3>1 DEF Inv, ListsAreExact, At
  <2>2. CASE q.pc # "grant"
    BY <2>2, LeavesLists
  <2> QED  BY <2>1, <2>2
<1>4. TypeOK'
  BY DEF Inv, TypeOK, Leaves
<1>5. (Known /\ RoleNamesUnique)'
  BY DEF Inv, Known, RoleNamesUnique, LiveRoles
<1> QED  BY <1>1, <1>2, <1>3, <1>4, <1>5 DEF Inv

\* The id of a new permission is no role's, and was never given out.
LEMMA InsertPermissionFacts ==
    ASSUME Inv, NEW p \in PermIds, NEW n \in Routes, NEW active \in BOOLEAN,
           InsertPermission(p, n, active)
    PROVE  /\ permissions' \in [PermIds -> Permission \cup {Null}]
           /\ spent \subseteq spent' /\ spent' \subseteq spent \cup PermIds
           /\ \A r \in Requests : At(r, "insertRole") => req[r].role \notin spent'
<1>1. [name |-> n, active |-> active] \in Permission
  BY DEF Permission
<1>2. permissions' \in [PermIds -> Permission \cup {Null}]
  BY <1>1 DEF Inv, TypeOK, InsertPermission
<1>3. spent' = spent \cup {p}
  BY DEF InsertPermission
<1>4. ASSUME NEW r \in Requests, At(r, "insertRole") PROVE req[r].role \notin spent'
  <2>1. req[r].role \in RoleIds /\ req[r].role \notin spent
    BY <1>4 DEF Inv, AllSound, Sound, Fresh, At
  <2> QED  BY <1>3, <2>1, IdsAssumption
<1> QED  BY <1>2, <1>3, <1>4

\* No request moves.
LEMMA StillStep ==
    ASSUME Inv, permissions' \in [PermIds -> Permission \cup {Null}],
           spent \subseteq spent', spent' \subseteq spent \cup PermIds,
           UNCHANGED <<roles, granted, usersRoles, req>>,
           \A r \in Requests : At(r, "insertRole") => req[r].role \notin spent'
    PROVE  Inv'
<1>1. AllSound'
  BY DEF Inv, AllSound, Sound
<1>2. (Fresh /\ ListsAreExact)'
  BY DEF Inv, Fresh, ListsAreExact, At
<1>3. TypeOK'
  BY DEF Inv, TypeOK
<1>4. (Known /\ RoleNamesUnique)'
  BY DEF Inv, Known, RoleNamesUnique, LiveRoles
<1> QED  BY <1>1, <1>2, <1>3, <1>4 DEF Inv

LEMMA PermissionCreateStep == ASSUME Inv, PermissionCreate PROVE Inv'
<1>1. PICK p \in PermIds, n \in Routes, active \in BOOLEAN :
        InsertPermission(p, n, active)
  BY DEF PermissionCreate
<1>2. UNCHANGED <<roles, granted, usersRoles, req>>
  BY DEF PermissionCreate
<1> QED  BY <1>1, <1>2, InsertPermissionFacts, StillStep

LEMMA DiscoverStep ==
    ASSUME Inv, NEW r \in Requests, Discover(r) PROVE Inv'
<1>1. PICK n \in req[r].routes :
        /\ \/ \E p \in PermIds : InsertPermission(p, n, TRUE)
           \/ UNCHANGED <<permissions, spent>>
        /\ LET left == req[r].routes \ {n} IN
           IF left = {} THEN Finish(r)
           ELSE req' = [req EXCEPT ![r].routes = left]
  BY DEF Discover
<1>2. Sound(req[r], spent) /\ req[r].pc = "discover" /\ n \in Routes
  BY DEF Inv, AllSound, Sound, Request, Discover, At
<1>3. /\ permissions' \in [PermIds -> Permission \cup {Null}]
      /\ spent \subseteq spent' /\ spent' \subseteq spent \cup PermIds
      /\ \A s \in Requests : At(s, "insertRole") => req[s].role \notin spent'
  <2>1. CASE \E p \in PermIds : InsertPermission(p, n, TRUE)
    BY <1>2, <2>1, InsertPermissionFacts
  <2>2. CASE UNCHANGED <<permissions, spent>>
    BY <2>2 DEF Inv, TypeOK, Fresh
  <2> QED  BY <1>1, <2>1, <2>2
<1> DEFINE q == [req[r] EXCEPT !.routes = req[r].routes \ {n}]
<1>4. Sound(q, spent') /\ q \in Request /\ q.pc = "discover" /\ q.role = req[r].role
  BY <1>2, <1>3 DEF Sound, Request
<1>5. UNCHANGED <<roles, granted, usersRoles>>
  BY DEF Discover
<1>6. CASE Finish(r)
  <2>1. Leaves(r, Idle) /\ \A s \in Requests \ {r} : req'[s] = req[s]
    BY <1>6, FinishLeaves
  <2>2. Idle.pc = "idle" /\ Idle.role = Null
    BY DEF Idle
  <2> QED  BY <1>3, <1>5, <2>1, <2>2, IdleSound, PermissionRowStep
<1>7. CASE req' = [req EXCEPT ![r] = q]
  <2>1. Leaves(r, q) /\ \A s \in Requests \ {r} : req'[s] = req[s]
    BY <1>4, <1>7 DEF Leaves, Inv, TypeOK
  <2> HIDE DEF q
  <2> QED  BY <1>3, <1>4, <1>5, <2>1, PermissionRowStep
<1>8. Finish(r) \/ req' = [req EXCEPT ![r] = q]
  BY <1>1
<1> QED  BY <1>6, <1>7, <1>8

LEMMA PermissionUpdateStep ==
    ASSUME Inv, NEW r \in Requests, PermissionUpdate(r) PROVE Inv'
<1>1. req[r].perm \in PermIds /\ req[r].row \in Permission
  BY DEF Inv, AllSound, Sound, PermissionUpdate, At
<1>2. permissions' \in [PermIds -> Permission \cup {Null}]
  BY <1>1 DEF Inv, TypeOK, PermissionUpdate
<1>3. Leaves(r, Idle) /\ \A s \in Requests \ {r} : req'[s] = req[s]
  BY FinishLeaves DEF PermissionUpdate
<1>4. Idle.pc = "idle" /\ Idle.role = Null
  BY DEF Idle
<1>5. \A s \in Requests : At(s, "insertRole") => req[s].role \notin spent
  BY DEF Inv, Fresh
<1>6. UNCHANGED <<roles, granted, usersRoles, spent>>
  BY DEF PermissionUpdate
<1> QED  BY <1>2, <1>3, <1>4, <1>5, <1>6, IdleSound, PermissionRowStep

LEMMA PermissionRemoveDeleteStep ==
    ASSUME Inv, NEW r \in Requests, PermissionRemoveDelete(r) PROVE Inv'
<1>1. req[r].perm \in PermIds
  BY DEF Inv, AllSound, Sound, PermissionRemoveDelete, At
<1>2. /\ permissions' = [permissions EXCEPT ![req[r].perm] = Null]
      /\ UNCHANGED <<roles, granted, usersRoles, spent>>
      /\ Finish(r)
  BY DEF PermissionRemoveDelete
<1>3. Idle.pc = "idle" /\ Idle.role = Null /\ Idle \in Request
  BY IdleSound DEF Idle, Sound
<1>4. Leaves(r, Idle) /\ \A s \in Requests \ {r} : req'[s] = req[s]
  BY <1>2, <1>3 DEF Inv, TypeOK, Finish, Leaves
<1>5. permissions' \in [PermIds -> Permission \cup {Null}]
  BY <1>1, <1>2 DEF Inv, TypeOK
<1>6. \A s \in Requests : At(s, "insertRole") => req[s].role \notin spent
  BY DEF Inv, Fresh
<1> QED  BY <1>2, <1>3, <1>4, <1>5, <1>6, IdleSound, PermissionRowStep

LEMMA PermissionStepInv == ASSUME Inv, NEW r \in Requests, PermissionStep(r) PROVE Inv'
BY PermissionReadStep, PermissionUpdateStep, RemoveFindStep, PermissionRemoveDeleteStep,
   DiscoverStep DEF PermissionStep

-----------------------------------------------------------------------------
(* users_roles, and the steps together *)

LEMMA AddUserRoleStep == ASSUME Inv, AddUserRole PROVE Inv'
<1>1. PICK u \in Users, a \in KnownRoles :
        usersRoles' = [usersRoles EXCEPT ![u] = @ \cup {a}]
  BY DEF AddUserRole
<1>2. UNCHANGED <<roles, permissions, granted, req, spent>>
  BY DEF AddUserRole
<1>3. a \in RoleIds /\ a \in spent
  BY DEF KnownRoles
<1>4. \A v \in Users : usersRoles'[v] \subseteq usersRoles[v] \cup {a}
  BY <1>1 DEF Inv, TypeOK
<1>5. TypeOK'
  BY <1>1, <1>2, <1>3 DEF Inv, TypeOK
<1>6. (AllSound /\ Fresh /\ RoleNamesUnique /\ ListsAreExact)'
  BY <1>2 DEF Inv, AllSound, Fresh, RoleNamesUnique, LiveRoles, ListsAreExact, At
<1>7. Known'
  BY <1>2, <1>3, <1>4 DEF Inv, Known
<1> QED  BY <1>5, <1>6, <1>7 DEF Inv

LEMMA ClearUserRolesStep == ASSUME Inv, ClearUserRoles PROVE Inv'
<1>1. PICK u \in Users : usersRoles' = [usersRoles EXCEPT ![u] = {}]
  BY DEF ClearUserRoles
<1>2. UNCHANGED <<roles, permissions, granted, req, spent>>
  BY DEF ClearUserRoles
<1>3. \A v \in Users : usersRoles'[v] \subseteq usersRoles[v]
  BY <1>1 DEF Inv, TypeOK
<1>4. TypeOK'
  BY <1>1, <1>2 DEF Inv, TypeOK
<1>5. (AllSound /\ Fresh /\ RoleNamesUnique /\ ListsAreExact)'
  BY <1>2 DEF Inv, AllSound, Fresh, RoleNamesUnique, LiveRoles, ListsAreExact, At
<1>6. Known'
  BY <1>2, <1>3 DEF Inv, Known
<1> QED  BY <1>4, <1>5, <1>6 DEF Inv

LEMMA StutterStep == ASSUME Inv, UNCHANGED vars PROVE Inv'
<1>1. UNCHANGED <<roles, permissions, granted, usersRoles, req, spent>>
  BY DEF vars, tables
<1>2. (TypeOK /\ AllSound /\ Fresh /\ Known)'
  BY <1>1 DEF Inv, TypeOK, AllSound, Fresh, Known, At
<1>3. (RoleNamesUnique /\ ListsAreExact)'
  BY <1>1 DEF Inv, RoleNamesUnique, LiveRoles, ListsAreExact, At
<1> QED  BY <1>2, <1>3 DEF Inv

LEMMA NextInv == Inv /\ [Next]_vars => Inv'
<1> SUFFICES ASSUME Inv, [Next]_vars PROVE Inv'
  OBVIOUS
<1>1. CASE UNCHANGED vars
  BY <1>1, StutterStep
<1>2. ASSUME NEW r \in Requests, RoleStep(r) PROVE Inv'
  BY <1>2, RoleStepInv
<1>3. ASSUME NEW r \in Requests, PermissionStep(r) PROVE Inv'
  BY <1>3, PermissionStepInv
<1>4. ASSUME NEW r \in Requests, FilterStep(r) PROVE Inv'
  BY <1>4, FilterStepInv
<1>5. ASSUME NEW r \in Requests, RequestFails(r) PROVE Inv'
  BY <1>5, RequestFailsStep
<1> QED  BY <1>1, <1>2, <1>3, <1>4, <1>5, PermissionCreateStep, AddUserRoleStep,
            ClearUserRolesStep DEF Next

\* The inductive invariant holds in every state, of any number of requests on
\* any tables (all of RoleService, PermissionService and RbacFilter).
THEOREM InvAlways == Spec => []Inv
BY InitInv, NextInv, PTL DEF Spec

\* Every variable keeps its type: a request waits for a statement with the
\* fields that statement needs (RoleService.cc, PermissionService.cc).
THEOREM TypeCorrect == Spec => []TypeOK
<1>1. Inv => TypeOK
  BY DEF Inv
<1> QED  BY <1>1, InvAlways, PTL

\* No two roles ever share a name, however creates, updates and deletions
\* interleave between the look for the name and the write
\* (RoleService.cc:64-78 and 102-114).
THEOREM RoleNamesAreUnique == Spec => []RoleNamesUnique
<1>1. Inv => RoleNamesUnique
  BY DEF Inv
<1> QED  BY <1>1, InvAlways, PTL

\* The list of a role that one request alone has written since it cleared it
\* is, row by row, what the form submitted (RoleService.cc:80-84, 116-123).
THEOREM ListsStayExact == Spec => []ListsAreExact
<1>1. Inv => ListsAreExact
  BY DEF Inv
<1> QED  BY <1>1, InvAlways, PTL

-----------------------------------------------------------------------------
(* Routes are gained deliberately *)

\* An id that had a row and lost it never has one again.
NoRowReturns ==
    /\ \A a \in RoleIds : a \in spent /\ roles[a] = Null => roles'[a] = Null
    /\ \A p \in PermIds : p \in spent /\ permissions[p] = Null => permissions'[p] = Null

LEMMA RoleRowsStayGone ==
    ASSUME Inv, NEW r \in Requests, RoleStep(r) PROVE NoRowReturns
<1>1. permissions' = permissions
  BY DEF RoleStep, RoleCreateRead, InsertRole, RoleUpdateRead, CheckName, UpdateRole,
         ClearGrants, AssignBegin, UnassignBegin, Grant, Revoke, RoleRemoveFind,
         RoleRemoveDelete, tables
<1>2. roles \in [RoleIds -> RoleNames \cup {Null}]
  BY DEF Inv, TypeOK
<1>3. CASE InsertRole(r)
  <2>1. req[r].role \notin spent
    BY <1>3 DEF Inv, Fresh, InsertRole
  <2>2. \A a \in RoleIds \ {req[r].role} : roles'[a] = roles[a]
    BY <1>2, <1>3 DEF InsertRole
  <2> QED  BY <1>1, <2>1, <2>2 DEF NoRowReturns
<1>4. CASE UpdateRole(r)
  <2>1. \A a \in RoleIds : roles[a] = Null => roles'[a] = Null
    BY <1>2, <1>4 DEF UpdateRole
  <2> QED  BY <1>1, <2>1 DEF NoRowReturns
<1>5. CASE RoleRemoveDelete(r)
  <2>1. \A a \in RoleIds : roles[a] = Null => roles'[a] = Null
    BY <1>2, <1>5 DEF RoleRemoveDelete
  <2> QED  BY <1>1, <2>1 DEF NoRowReturns
<1>6. CASE roles' = roles
  BY <1>1, <1>6 DEF NoRowReturns
<1> QED  BY <1>3, <1>4, <1>5, <1>6
         DEF RoleStep, RoleCreateRead, RoleUpdateRead, CheckName, ClearGrants,
             AssignBegin, UnassignBegin, Grant, Revoke, RoleRemoveFind, tables

LEMMA InsertedRowsAreNew ==
    ASSUME Inv, NEW p \in PermIds, NEW n, NEW active, InsertPermission(p, n, active),
           roles' = roles
    PROVE  NoRowReturns
<1>1. permissions \in [PermIds -> Permission \cup {Null}]
  BY DEF Inv, TypeOK
<1>2. p \notin spent /\ \A q \in PermIds \ {p} : permissions'[q] = permissions[q]
  BY <1>1 DEF InsertPermission, FreshPermission
<1> QED  BY <1>2 DEF NoRowReturns

LEMMA PermissionRowsStayGone ==
    ASSUME Inv, NEW r \in Requests, PermissionStep(r) PROVE NoRowReturns
<1>1. roles' = roles
  BY DEF PermissionStep, PermissionUpdateRead, PermissionUpdate, PermissionRemoveFind,
         PermissionRemoveDelete, DiscoverRead, Discover, tables
<1>2. permissions \in [PermIds -> Permission \cup {Null}]
  BY DEF Inv, TypeOK
<1>3. CASE PermissionUpdate(r)
  <2>1. \A p \in PermIds : permissions[p] = Null => permissions'[p] = Null
    BY <1>2, <1>3 DEF PermissionUpdate
  <2> QED  BY <1>1, <2>1 DEF NoRowReturns
<1>4. CASE PermissionRemoveDelete(r)
  <2>1. \A p \in PermIds : permissions[p] = Null => permissions'[p] = Null
    BY <1>2, <1>4 DEF PermissionRemoveDelete
  <2> QED  BY <1>1, <2>1 DEF NoRowReturns
<1>5. CASE permissions' = permissions
  BY <1>1, <1>5 DEF NoRowReturns
<1>6. CASE \E p \in PermIds, n \in req[r].routes : InsertPermission(p, n, TRUE)
  BY <1>1, <1>6, InsertedRowsAreNew
<1> QED  BY <1>3, <1>4, <1>5, <1>6
         DEF PermissionStep, PermissionUpdateRead, PermissionRemoveFind, DiscoverRead,
             Discover, tables

LEMMA RowsStayGone == ASSUME Inv, Next PROVE NoRowReturns
<1>1. CASE PermissionCreate
  BY <1>1, InsertedRowsAreNew DEF PermissionCreate
<1>2. CASE UNCHANGED <<roles, permissions>>
  BY <1>2 DEF NoRowReturns
<1>3. ASSUME NEW r \in Requests, FilterStep(r) \/ RequestFails(r)
      PROVE  UNCHANGED <<roles, permissions>>
  BY <1>3 DEF FilterStep, PassThrough, QueryAdministrator, QueryAccess, Respond,
             RequestFails, tables
<1>4. CASE AddUserRole \/ ClearUserRoles
  BY <1>2, <1>4 DEF AddUserRole, ClearUserRoles
<1> QED  BY <1>1, <1>2, <1>3, <1>4, RoleRowsStayGone, PermissionRowsStayGone DEF Next

\* Why a user who may access a route now could not before.
Deliberate(u) ==
    \/ ~(usersRoles'[u] \subseteq usersRoles[u])
    \/ \E a \in usersRoles[u] : ~(granted'[a] \subseteq granted[a])
    \/ \E p \in LivePerms : permissions'[p] \notin {permissions[p], Null}
    \/ \E a \in LiveRoles : roles'[a] \notin {roles[a], Null}

LEMMA AccessIsKept ==
    ASSUME Inv, NoRowReturns, NEW u \in Users, NEW n \in Routes,
           ~Deliberate(u), MayAccess(u, n)'
    PROVE  MayAccess(u, n)
<1>1. usersRoles'[u] \subseteq usersRoles[u] /\ usersRoles[u] \subseteq RoleIds
      /\ usersRoles[u] \subseteq spent
  BY DEF Deliberate, Inv, TypeOK, Known
<1>2. CASE IsAdministrator(u)'
  <2>1. PICK a \in usersRoles'[u] : roles'[a] = "Administrator"
    BY <1>2 DEF IsAdministrator
  <2>2. a \in usersRoles[u] /\ a \in RoleIds /\ a \in spent
    BY <1>1
  <2>3. roles'[a] # Null
    BY <2>1, NullAssumption, NamesAssumption
  <2>4. a \in LiveRoles
    BY <2>2, <2>3 DEF NoRowReturns, LiveRoles
  <2>5. roles'[a] = roles[a]
    BY <2>3, <2>4 DEF Deliberate
  <2> QED  BY <2>1, <2>2, <2>5 DEF MayAccess, IsAdministrator
<1>3. CASE HasAccess(u, n)'
  <2>0. PICK a \in usersRoles'[u] : \E p \in granted'[a] :
          permissions'[p] # Null
          /\ permissions'[p] = [name |-> n, active |-> TRUE]
    BY <1>3 DEF HasAccess
  <2>1. PICK p \in granted'[a] :
          permissions'[p] # Null
          /\ permissions'[p] = [name |-> n, active |-> TRUE]
    BY <2>0
  <2>2. a \in usersRoles[u] /\ a \in RoleIds
    BY <1>1
  <2>3. p \in granted[a]
    BY <2>2 DEF Deliberate
  <2>4. p \in PermIds /\ p \in spent
    BY <2>2, <2>3 DEF Inv, TypeOK, Known
  <2>5. p \in LivePerms
    BY <2>1, <2>4 DEF NoRowReturns, LivePerms
  <2>6. permissions'[p] = permissions[p]
    BY <2>1, <2>5 DEF Deliberate
  <2> QED  BY <2>1, <2>2, <2>3, <2>6 DEF MayAccess, HasAccess
<1> QED  BY <1>2, <1>3 DEF MayAccess

\* Nobody gains a route by a deletion, a creation or a discovery, although
\* deleted roles and permissions leave rows behind: the ids those rows name
\* never have a row again (AccessController.cc:424-441, RbacHelper.cc:22-34).
THEOREM GainsAreDeliberate == Spec => GrantsAreDeliberate
<1> DEFINE Gain == \A u \in Users, n \in Routes :
              MayAccess(u, n)' /\ ~MayAccess(u, n) =>
                  \/ ~(usersRoles'[u] \subseteq usersRoles[u])
                  \/ \E a \in usersRoles[u] : ~(granted'[a] \subseteq granted[a])
                  \/ \E p \in LivePerms : permissions'[p] \notin {permissions[p], Null}
                  \/ \E a \in LiveRoles : roles'[a] \notin {roles[a], Null}
<1>1. Inv /\ Next => Gain
  <2> SUFFICES ASSUME Inv, Next, NEW u \in Users, NEW n \in Routes,
                      MayAccess(u, n)', ~MayAccess(u, n)
               PROVE  Deliberate(u)
    BY DEF Deliberate
  <2> QED  BY RowsStayGone, AccessIsKept
<1>2. Inv /\ [Next]_vars => [Gain]_vars
  BY <1>1
<1> QED  BY <1>2, InvAlways, PTL DEF Spec, GrantsAreDeliberate
=============================================================================
