--------------------------- MODULE AccountsProofs ---------------------------
(***************************************************************************)
(* Proofs about Accounts, for any sets of ids, emails, requests and so on. *)
(***************************************************************************)
EXTENDS Accounts, TLAPS

-----------------------------------------------------------------------------
(* Types *)

\* A request waiting for a statement holds what the statement needs.
Shape ==
    \A r \in Requests :
        /\ req[r].pc \notin {"idle", "find"} => req[r].id \in Ids
        /\ req[r].pc \in {"checkCode", "insert", "update", "setPassword"} =>
              req[r].row \in Columns

TypeInv == TypeOK /\ Shape

\* A request record built from well-typed parts is well typed.
LEMMA PendingType ==
    ASSUME NEW o \in Operations, NEW s \in Statements, NEW i \in Ids \cup {Null},
           NEW w \in Columns \cup {Null}, NEW rs \in SUBSET Roles,
           NEW b \in SUBSET Ids
    PROVE  /\ Pending(o, s, i, w, rs, b) \in Request
           /\ Pending(o, s, i, w, rs, b).pc = s
           /\ Pending(o, s, i, w, rs, b).op = o
           /\ Pending(o, s, i, w, rs, b).id = i
           /\ Pending(o, s, i, w, rs, b).row = w
BY DEF Pending, Request

\* The free slot is a request that waits for nothing.
LEMMA FreeType == Free \in Request /\ Free.pc = "idle" /\ Free.id = Null
<1>1. /\ "none" \in Operations /\ "idle" \in Statements /\ Null \in Ids \cup {Null}
      /\ Null \in Columns \cup {Null} /\ {} \in SUBSET Roles /\ {} \in SUBSET Ids
  BY DEF Operations, Statements
<1> QED  BY <1>1, PendingType DEF Free

\* Replacing one slot by a well-shaped request keeps the slots well typed.
LEMMA SlotType ==
    ASSUME TypeInv, NEW r \in Requests, NEW q \in Request,
           req' = [req EXCEPT ![r] = q],
           q.pc \notin {"idle", "find"} => q.id \in Ids,
           q.pc \in {"checkCode", "insert", "update", "setPassword"} =>
              q.row \in Columns
    PROVE  req' \in [Requests -> Request] /\ Shape'
BY DEF TypeInv, TypeOK, Shape

LEMMA FinishType ==
    ASSUME TypeInv, NEW r \in Requests, Finish(r)
    PROVE  req' \in [Requests -> Request] /\ Shape'
BY FreeType, SlotType DEF Finish

\* Moving on to a statement that needs no row keeps the slots well typed.
LEMMA ProceedType ==
    ASSUME TypeInv, NEW r \in Requests, NEW s \in {"addRole", "clearRoles"},
           req[r].pc \notin {"idle", "find"}, Proceed(r, s)
    PROVE  req' \in [Requests -> Request] /\ Shape'
<1>1. CASE req[r].roles = {}
  BY <1>1, FinishType DEF Proceed
<1>2. CASE req[r].roles # {}
  <2> DEFINE q == [req[r] EXCEPT !.pc = s]
  <2>1. req' = [req EXCEPT ![r] = q]
    BY <1>2 DEF Proceed
  <2>2. q \in Request /\ q.pc = s /\ q.id \in Ids
    BY DEF TypeInv, TypeOK, Shape, Request, Statements
  <2> QED  BY <2>1, <2>2, SlotType
<1> QED  BY <1>1, <1>2

\* Beginning a request whose record is complete keeps the slots well typed.
LEMMA BeginType ==
    ASSUME TypeInv, NEW r \in Requests,
           NEW o \in Operations, NEW s \in Statements \ {"idle", "find"},
           NEW i \in Ids, NEW w \in Columns, NEW rs \in SUBSET Roles,
           Begin(r, Pending(o, s, i, w, rs, {}))
    PROVE  req' \in [Requests -> Request] /\ Shape'
<1> DEFINE q == Pending(o, s, i, w, rs, {})
<1>1. {} \in SUBSET Ids /\ s \in Statements /\ i \in Ids \cup {Null}
      /\ w \in Columns \cup {Null}
  OBVIOUS
<1>2. q \in Request /\ q.pc = s /\ q.id = i /\ q.row = w
  BY <1>1, PendingType
<1>3. req' = [req EXCEPT ![r] = q]
  BY DEF Begin
<1> HIDE DEF q
<1> QED  BY <1>2, <1>3, SlotType

LEMMA NewRowType ==
    ASSUME NEW e \in Emails, NEW c \in Codes, NEW p \in Passwords,
           NEW s \in Statuses \cup {"active"}, NEW b \in BOOLEAN
    PROVE  NewRow(e, c, p, s, b) \in Columns
BY DEF NewRow, Columns

LEMMA OverwriteType ==
    ASSUME NEW old \in Columns, NEW w \in Columns
    PROVE  /\ Overwrite(old, w) \in Columns
           /\ Overwrite(old, w).email = w.email
           /\ Overwrite(old, w).code = w.code
           /\ Overwrite(old, w).blocked = w.blocked
           /\ Overwrite(old, w).otp = Filled(w.otp, old.otp)
           /\ Overwrite(old, w).exp = Filled(w.exp, old.exp)
BY DEF Overwrite, Columns, Filled

\* Every step of a request keeps the types: one step per action.
LEMMA TypeStep == TypeInv /\ [Next]_vars => TypeInv'
<1> SUFFICES ASSUME TypeInv, [Next]_vars PROVE TypeInv'
  OBVIOUS
<1> USE DEF TypeInv
<1>1. ASSUME NEW r \in Requests, RegisterRead(r) PROVE TypeInv'
  <2>1. req' \in [Requests -> Request] /\ Shape'
    <3>1. PICK e \in Emails, c \in Codes, p \in Passwords, i \in Ids :
             Begin(r, Pending("register", "insert", i,
                              NewRow(e, c, p, "active", FALSE), {}, {}))
      BY <1>1 DEF RegisterRead
    <3>2. NewRow(e, c, p, "active", FALSE) \in Columns
      BY NewRowType
    <3>3. "register" \in Operations /\ "insert" \in Statements \ {"idle", "find"}
          /\ {} \in SUBSET Roles
      BY DEF Operations, Statements
    <3> QED  BY <3>1, <3>2, <3>3, BeginType
  <2> QED  BY <1>1, <2>1 DEF RegisterRead, TypeOK, tables, history
<1>2. ASSUME NEW r \in Requests, CreateRead(r) PROVE TypeInv'
  <2>1. req' \in [Requests -> Request] /\ Shape'
    <3>1. PICK e \in Emails, c \in Codes, p \in Passwords, i \in Ids,
               s \in Statuses, b \in BOOLEAN, rs \in SUBSET Roles :
             Begin(r, Pending("create", "checkCode", i,
                              NewRow(e, c, p, s, b), rs, {}))
      BY <1>2 DEF CreateRead
    <3>2. NewRow(e, c, p, s, b) \in Columns
      BY NewRowType
    <3>3. "create" \in Operations /\ "checkCode" \in Statements \ {"idle", "find"}
      BY DEF Operations, Statements
    <3> QED  BY <3>1, <3>2, <3>3, BeginType
  <2> QED  BY <1>2, <2>1 DEF CreateRead, TypeOK, tables, history
<1>3. ASSUME NEW r \in Requests, UpdateRead(r) PROVE TypeInv'
  <2>1. PICK i \in Live, s \in Statuses \cup {Null}, b \in BOOLEAN,
             rs \in SUBSET Roles :
           /\ Begin(r, Pending("update", "update", i,
                     [users[i] EXCEPT !.status = Filled(s, @), !.blocked = b],
                     rs, {}))
           /\ held' = held \ {i}
    BY <1>3 DEF UpdateRead
  <2>2. i \in Ids /\ users[i] \in Columns
    BY DEF Live, TypeOK
  <2>3. [users[i] EXCEPT !.status = Filled(s, @), !.blocked = b] \in Columns
    BY <2>2 DEF Columns, Filled
  <2>4. "update" \in Operations /\ "update" \in Statements \ {"idle", "find"}
    BY DEF Operations, Statements
  <2>5. req' \in [Requests -> Request] /\ Shape'
    BY <2>1, <2>2, <2>3, <2>4, BeginType
  <2> QED  BY <1>3, <2>1, <2>5 DEF UpdateRead, TypeOK, tables
<1>4. ASSUME NEW r \in Requests, UpdateProfileRead(r) PROVE TypeInv'
  <2>1. PICK i \in Live, e \in Emails, c \in Codes \cup {Null},
             p \in Passwords \cup {Null}, s \in Statuses \cup {Null} :
           Begin(r, Pending("profile", "update", i,
                    [users[i] EXCEPT !.email = e, !.code = Filled(c, @),
                       !.password = Filled(p, @), !.status = Filled(s, @)],
                    {}, {}))
    BY <1>4 DEF UpdateProfileRead
  <2>2. i \in Ids /\ users[i] \in Columns
    BY DEF Live, TypeOK
  <2>3. [users[i] EXCEPT !.email = e, !.code = Filled(c, @),
            !.password = Filled(p, @), !.status = Filled(s, @)] \in Columns
    BY <2>2 DEF Columns, Filled
  <2>4. "profile" \in Operations /\ "update" \in Statements \ {"idle", "find"}
        /\ {} \in SUBSET Roles
    BY DEF Operations, Statements
  <2>5. req' \in [Requests -> Request] /\ Shape'
    BY <2>1, <2>2, <2>3, <2>4, BeginType
  <2> QED  BY <1>4, <2>5 DEF UpdateProfileRead, TypeOK, tables, history
<1>5. ASSUME NEW r \in Requests, ResetRequestRead(r) PROVE TypeInv'
  <2>1. PICK i \in Live, o \in Otps :
           /\ Begin(r, Pending("resetRequest", "update", i,
                       [users[i] EXCEPT !.otp = o, !.exp = clock + OtpTtl],
                       {}, {}))
           /\ issued' = [issued EXCEPT ![i] = @ \cup {<<o, clock + OtpTtl>>}]
    BY <1>5 DEF ResetRequestRead
  <2>2. i \in Ids /\ users[i] \in Columns /\ clock + OtpTtl \in Nat
    BY BoundsAssumption DEF Live, TypeOK
  <2>3. [users[i] EXCEPT !.otp = o, !.exp = clock + OtpTtl] \in Columns
    BY <2>2 DEF Columns
  <2>4. "resetRequest" \in Operations /\ "update" \in Statements \ {"idle", "find"}
        /\ {} \in SUBSET Roles
    BY DEF Operations, Statements
  <2>5. req' \in [Requests -> Request] /\ Shape'
    BY <2>1, <2>2, <2>3, <2>4, BeginType
  <2>6. issued' \in [Ids -> SUBSET (Otps \X Nat)]
    BY <2>1, <2>2 DEF TypeOK
  <2> QED  BY <1>5, <2>5, <2>6 DEF ResetRequestRead, TypeOK, tables
<1>6. ASSUME NEW r \in Requests, ResetProcessRead(r) PROVE TypeInv'
  <2>1. PICK i \in Live, p \in Passwords :
           Begin(r, Pending("reset", "update", i,
                    [users[i] EXCEPT !.password = p, !.otp = Null,
                                     !.exp = Null], {}, {}))
    BY <1>6 DEF ResetProcessRead
  <2>2. i \in Ids /\ users[i] \in Columns
    BY DEF Live, TypeOK
  <2>3. [users[i] EXCEPT !.password = p, !.otp = Null, !.exp = Null] \in Columns
    BY <2>2 DEF Columns
  <2>4. "reset" \in Operations /\ "update" \in Statements \ {"idle", "find"}
        /\ {} \in SUBSET Roles
    BY DEF Operations, Statements
  <2>5. req' \in [Requests -> Request] /\ Shape'
    BY <2>1, <2>2, <2>3, <2>4, BeginType
  <2> QED  BY <1>6, <2>5 DEF ResetProcessRead, TypeOK, tables, history
<1>7. ASSUME NEW r \in Requests, ChangePasswordRead(r) PROVE TypeInv'
  <2>1. PICK i \in Live, p \in Passwords :
           Begin(r, Pending("password", "setPassword", i,
                    [users[i] EXCEPT !.password = p], {}, {}))
    BY <1>7 DEF ChangePasswordRead
  <2>2. i \in Ids /\ users[i] \in Columns
    BY DEF Live, TypeOK
  <2>3. [users[i] EXCEPT !.password = p] \in Columns
    BY <2>2 DEF Columns
  <2>4. "password" \in Operations
        /\ "setPassword" \in Statements \ {"idle", "find"} /\ {} \in SUBSET Roles
    BY DEF Operations, Statements
  <2>5. req' \in [Requests -> Request] /\ Shape'
    BY <2>1, <2>2, <2>3, <2>4, BeginType
  <2> QED  BY <1>7, <2>5 DEF ChangePasswordRead, TypeOK, tables, history
<1>8. ASSUME NEW r \in Requests, RemoveBegin(r) PROVE TypeInv'
  <2>1. PICK b \in SUBSET Ids :
           Begin(r, Pending("remove", "find", Null, Null, {}, b))
    BY <1>8 DEF RemoveBegin
  <2>2. "remove" \in Operations /\ "find" \in Statements /\ {} \in SUBSET Roles
        /\ Null \in Ids \cup {Null} /\ Null \in Columns \cup {Null}
    BY DEF Operations, Statements
  <2> DEFINE q == Pending("remove", "find", Null, Null, {}, b)
  <2>3. q \in Request /\ q.pc = "find" /\ req' = [req EXCEPT ![r] = q]
    BY <2>1, <2>2, PendingType DEF Begin
  <2> HIDE DEF q
  <2>4. req' \in [Requests -> Request] /\ Shape'
    BY <2>3, SlotType
  <2> QED  BY <1>8, <2>4 DEF RemoveBegin, TypeOK, tables, history
<1>9. ASSUME NEW r \in Requests, CheckCode(r) PROVE TypeInv'
  <2>1. CASE Finish(r)
    BY <1>9, <2>1, FinishType DEF CheckCode, TypeOK, tables, history
  <2>2. CASE req' = [req EXCEPT ![r].pc = "insert"]
    <3> DEFINE q == [req[r] EXCEPT !.pc = "insert"]
    <3>1. /\ q \in Request /\ q.pc = "insert"
          /\ q.id \in Ids /\ q.row \in Columns
      BY <1>9 DEF CheckCode, At, TypeOK, Shape, Request, Statements
    <3>2. req' \in [Requests -> Request] /\ Shape'
      BY <2>2, <3>1, SlotType
    <3> QED  BY <1>9, <3>2 DEF CheckCode, TypeOK, tables, history
  <2> QED  BY <1>9, <2>1, <2>2 DEF CheckCode
<1>10. ASSUME NEW r \in Requests, Insert(r) PROVE TypeInv'
  <2>1. req[r].pc = "insert" /\ req[r].id \in Ids /\ req[r].row \in Columns
    BY <1>10 DEF Insert, At, Shape
  <2>2. users' \in [Ids -> Columns \cup {Null}]
    BY <1>10, <2>1 DEF Insert, TypeOK
  <2>3. req' \in [Requests -> Request] /\ Shape'
    BY <1>10, <2>1, FinishType, ProceedType DEF Insert
  <2>4. given' \in [Ids -> SUBSET (SUBSET Roles)]
    BY <1>10 DEF Insert, TypeOK, Request
  <2> QED  BY <1>10, <2>2, <2>3, <2>4 DEF Insert, TypeOK, history
<1>11. ASSUME NEW r \in Requests, WriteRow(r) PROVE TypeInv'
  <2>1. req[r].pc = "update" /\ req[r].id \in Ids /\ req[r].row \in Columns
    BY <1>11 DEF WriteRow, At, Shape
  <2>2. users' \in [Ids -> Columns \cup {Null}]
    <3>1. users[req[r].id] # Null =>
             Overwrite(users[req[r].id], req[r].row) \in Columns
      BY <2>1, OverwriteType DEF TypeOK
    <3> QED  BY <1>11, <2>1, <3>1 DEF WriteRow, TypeOK
  <2>3. req' \in [Requests -> Request] /\ Shape'
    BY <1>11, <2>1, FinishType, ProceedType DEF WriteRow
  <2>4. held' \in SUBSET Ids
    BY <1>11, <2>1 DEF WriteRow, TypeOK
  <2> QED  BY <1>11, <2>2, <2>3, <2>4 DEF WriteRow, TypeOK
<1>12. ASSUME NEW r \in Requests, ClearRoles(r) PROVE TypeInv'
  <2> DEFINE i == req[r].id
             q == [req[r] EXCEPT !.pc = "addRole"]
             lists == IF Assigning(r, i) THEN {} ELSE {req[r].roles}
  <2>1. /\ req[r].pc = "clearRoles"
        /\ req' = [req EXCEPT ![r] = q]
        /\ usersRoles' = [usersRoles EXCEPT ![i] = {}]
        /\ given' = [given EXCEPT ![i] = lists]
        /\ UNCHANGED <<users, clock, history>>
    BY <1>12, Zenon DEF ClearRoles, At
  <2>2. lists \in SUBSET (SUBSET Roles)
    <3>1. req[r].roles \in SUBSET Roles
      BY DEF TypeOK, Request
    <3> QED  BY <3>1, Zenon
  <2> HIDE DEF lists
  <2>3. q \in Request /\ q.pc = "addRole" /\ q.id \in Ids
    BY <2>1 DEF TypeOK, Shape, Request, Statements
  <2>4. req' \in [Requests -> Request] /\ Shape'
    BY <2>1, <2>3, SlotType
  <2> QED  BY <2>1, <2>2, <2>4 DEF TypeOK, history
<1>13. ASSUME NEW r \in Requests, AddRole(r) PROVE TypeInv'
  <2>1. req[r].pc = "addRole" /\ req[r].id \in Ids /\ req[r].roles \in SUBSET Roles
    BY <1>13 DEF AddRole, At, Shape, TypeOK, Request
  <2>2. usersRoles' \in [Ids -> SUBSET Roles]
    BY <1>13, <2>1 DEF AddRole, TypeOK
  <2>3. CASE Finish(r)
    BY <1>13, <2>2, <2>3, FinishType DEF AddRole, TypeOK, history
  <2>4. ASSUME NEW role \in req[r].roles,
               req' = [req EXCEPT ![r].roles = req[r].roles \ {role}]
        PROVE  TypeInv'
    <3> DEFINE q == [req[r] EXCEPT !.roles = req[r].roles \ {role}]
    <3>1. q \in Request /\ q.pc = "addRole" /\ q.id \in Ids
      BY <2>1 DEF TypeOK, Request
    <3>2. req' \in [Requests -> Request] /\ Shape'
      BY <2>4, <3>1, SlotType
    <3> QED  BY <1>13, <2>2, <3>2 DEF AddRole, TypeOK, history
  <2> QED  BY <1>13, <2>3, <2>4 DEF AddRole
<1>14. ASSUME NEW r \in Requests, SetPassword(r) PROVE TypeInv'
  <2>1. req[r].id \in Ids /\ req[r].row \in Columns
    BY <1>14 DEF SetPassword, At, Shape
  <2>2. users' \in [Ids -> Columns \cup {Null}]
    BY <1>14, <2>1 DEF SetPassword, TypeOK, Columns
  <2>3. req' \in [Requests -> Request] /\ Shape'
    BY <1>14, FinishType DEF SetPassword
  <2> QED  BY <1>14, <2>2, <2>3 DEF SetPassword, TypeOK, history
<1>15. ASSUME NEW r \in Requests, RemoveFind(r) PROVE TypeInv'
  <2>1. CASE Finish(r)
    BY <1>15, <2>1, FinishType DEF RemoveFind, TypeOK, tables, history
  <2>2. ASSUME NEW i \in req[r].batch,
               req' = [req EXCEPT ![r].id = i, ![r].pc = "delete"]
        PROVE  TypeInv'
    <3> DEFINE q == [req[r] EXCEPT !.id = i, !.pc = "delete"]
    <3>1. q \in Request /\ q.pc = "delete" /\ q.id \in Ids
      BY DEF TypeOK, Request, Statements
    <3>2. req' = [req EXCEPT ![r] = q]
      BY <2>2 DEF TypeOK, Request
    <3>3. req' \in [Requests -> Request] /\ Shape'
      BY <3>1, <3>2, SlotType
    <3> QED  BY <1>15, <3>3 DEF RemoveFind, TypeOK, tables, history
  <2> QED  BY <1>15, <2>1, <2>2 DEF RemoveFind
<1>16. ASSUME NEW r \in Requests, RemoveDelete(r) PROVE TypeInv'
  <2>1. req[r].pc = "delete" /\ req[r].id \in Ids /\ req[r].batch \in SUBSET Ids
    BY <1>16 DEF RemoveDelete, At, Shape, TypeOK, Request
  <2>2. /\ users' \in [Ids -> Columns \cup {Null}]
        /\ usersRoles' \in [Ids -> SUBSET Roles]
        /\ retired' \in SUBSET Ids
    BY <1>16, <2>1 DEF RemoveDelete, TypeOK
  <2>3. req' \in [Requests -> Request] /\ Shape'
    <3>1. CASE Finish(r)
      BY <3>1, FinishType
    <3>2. CASE req' = [req EXCEPT ![r].pc = "find",
                                  ![r].batch = req[r].batch \ {req[r].id}]
      <4> DEFINE q == [req[r] EXCEPT !.pc = "find",
                                     !.batch = req[r].batch \ {req[r].id}]
      <4>1. q \in Request /\ q.pc = "find"
        <5>1. req[r] \in Request
          BY DEF TypeOK
        <5>2. req[r].batch \ {req[r].id} \in SUBSET Ids
          BY <2>1
        <5>3. "find" \in Statements
          BY DEF Statements
        <5> QED  BY <5>1, <5>2, <5>3 DEF Request
      <4>2. req' = [req EXCEPT ![r] = q]
        BY <3>2 DEF TypeOK, Request
      <4> QED  BY <4>1, <4>2, SlotType
    <3> QED  BY <1>16, <3>1, <3>2 DEF RemoveDelete
  <2> QED  BY <1>16, <2>2, <2>3 DEF RemoveDelete, TypeOK
<1>17. ASSUME NEW r \in Requests, RequestFails(r) PROVE TypeInv'
  BY <1>17, FinishType DEF RequestFails, TypeOK, tables, history
<1>18. CASE Tick
  BY <1>18 DEF Tick, TypeOK, Shape, tables, history
<1>19. CASE UNCHANGED vars
  BY <1>19 DEF vars, tables, history, TypeOK, Shape
<1> QED
  BY <1>1, <1>2, <1>3, <1>4, <1>5, <1>6, <1>7, <1>8, <1>9, <1>10, <1>11, <1>12,
     <1>13, <1>14, <1>15, <1>16, <1>17, <1>18, <1>19 DEF Next, Start, Advance

\* Initially every table is empty and every slot free.
LEMMA TypeInit == Init => TypeInv
<1> SUFFICES ASSUME Init PROVE TypeInv
  OBVIOUS
<1>1. req \in [Requests -> Request] /\ Shape
  BY FreeType DEF Init, Shape
<1> QED  BY <1>1 DEF Init, TypeInv, TypeOK

\* The tables and the requests in flight keep their types: no interleaving
\* writes a NULL where the schema and the services expect a value.
THEOREM TypeCorrect == Spec => []TypeOK
<1>1. Spec => []TypeInv
  BY TypeInit, TypeStep, PTL DEF Spec
<1> QED  BY <1>1, PTL DEF TypeInv

-----------------------------------------------------------------------------
(* Identity and deletion *)

Inserting == {"checkCode", "insert"}

\* The strengthening that carries IdentityUnique and NoResurrection: an id on
\* its way into the table is new, and no two requests carry the same one.
IdInv ==
    /\ IdentityUnique
    /\ \A i \in retired : users[i] = Null
    /\ \A r \in Requests : req[r].pc \in Inserting =>
          /\ req[r].id \notin Live \cup retired
          /\ \A s \in Requests \ {r} :
                req[s].pc \in Inserting => req[s].id # req[r].id

\* A step of one request leaves the other slots alone.
LEMMA OtherSlots ==
    ASSUME TypeInv, NEW r \in Requests, Start(r) \/ Advance(r) \/ RequestFails(r)
    PROVE  \A s \in Requests \ {r} : req'[s] = req[s]
<1> USE DEF TypeInv, TypeOK
<1>1. CASE Start(r)
  BY <1>1 DEF Start, RegisterRead, CreateRead, UpdateRead, UpdateProfileRead,
     ResetRequestRead, ResetProcessRead, ChangePasswordRead, RemoveBegin, Begin
<1>2. CASE Advance(r)
  BY <1>2 DEF Advance, CheckCode, Insert, WriteRow, ClearRoles, AddRole,
     SetPassword, RemoveFind, RemoveDelete, Proceed, Finish
<1>3. CASE RequestFails(r)
  BY <1>3 DEF RequestFails, Finish
<1> QED  BY <1>1, <1>2, <1>3

\* A slot whose request finished or moved on to its roles is not inserting.
LEMMA ProceedPc ==
    ASSUME TypeInv, NEW r \in Requests, NEW s \in Statements,
           Proceed(r, s) \/ Finish(r)
    PROVE  req'[r].pc \in {"idle", s}
BY FreeType DEF Proceed, Finish, TypeInv, TypeOK, Request

\* A request that begins takes the slot over.
LEMMA BeginPc ==
    ASSUME TypeInv, NEW r \in Requests, NEW o, NEW s, NEW i, NEW w, NEW rs, NEW b,
           Begin(r, Pending(o, s, i, w, rs, b))
    PROVE  /\ req'[r].op = o /\ req'[r].pc = s
           /\ req'[r].id = i /\ req'[r].row = w
BY DEF Begin, Pending, TypeInv, TypeOK

\* After a read or a step that ends in no insertion, slot r inserts nothing.
LEMMA NotInserting ==
    ASSUME TypeInv, NEW r \in Requests,
           \/ UpdateRead(r) \/ UpdateProfileRead(r)
           \/ ResetRequestRead(r) \/ ResetProcessRead(r)
           \/ ChangePasswordRead(r) \/ RemoveBegin(r)
           \/ Insert(r) \/ WriteRow(r) \/ ClearRoles(r) \/ AddRole(r)
           \/ SetPassword(r) \/ RemoveFind(r) \/ RemoveDelete(r)
           \/ RequestFails(r)
    PROVE  req'[r].pc \notin Inserting
<1> USE DEF TypeInv, TypeOK, Inserting
<1>1. CASE \/ UpdateRead(r) \/ UpdateProfileRead(r)
           \/ ResetRequestRead(r) \/ ResetProcessRead(r)
           \/ ChangePasswordRead(r) \/ RemoveBegin(r)
  <2>1. CASE UpdateRead(r)
    <3>1. \E o, s, i, w, rs, b : /\ s \notin Inserting
                                 /\ Begin(r, Pending(o, s, i, w, rs, b))
      BY <2>1 DEF UpdateRead
    <3> QED  BY <3>1, BeginPc
  <2>2. CASE UpdateProfileRead(r)
    <3>1. \E o, s, i, w, rs, b : /\ s \notin Inserting
                                 /\ Begin(r, Pending(o, s, i, w, rs, b))
      BY <2>2 DEF UpdateProfileRead
    <3> QED  BY <3>1, BeginPc
  <2>3. CASE ResetRequestRead(r)
    <3>1. \E o, s, i, w, rs, b : /\ s \notin Inserting
                                 /\ Begin(r, Pending(o, s, i, w, rs, b))
      BY <2>3 DEF ResetRequestRead
    <3> QED  BY <3>1, BeginPc
  <2>4. CASE ResetProcessRead(r)
    <3>1. \E o, s, i, w, rs, b : /\ s \notin Inserting
                                 /\ Begin(r, Pending(o, s, i, w, rs, b))
      BY <2>4 DEF ResetProcessRead
    <3> QED  BY <3>1, BeginPc
  <2>5. CASE ChangePasswordRead(r)
    <3>1. \E o, s, i, w, rs, b : /\ s \notin Inserting
                                 /\ Begin(r, Pending(o, s, i, w, rs, b))
      BY <2>5 DEF ChangePasswordRead
    <3> QED  BY <3>1, BeginPc
  <2>6. CASE RemoveBegin(r)
    <3>1. \E o, s, i, w, rs, b : /\ s \notin Inserting
                                 /\ Begin(r, Pending(o, s, i, w, rs, b))
      BY <2>6 DEF RemoveBegin
    <3> QED  BY <3>1, BeginPc
  <2> QED  BY <1>1, <2>1, <2>2, <2>3, <2>4, <2>5, <2>6
<1>2. CASE Insert(r) \/ WriteRow(r)
  BY <1>2, ProceedPc DEF Insert, WriteRow, Statements
<1>3. CASE ClearRoles(r)
  BY <1>3 DEF ClearRoles, Request
<1>4. CASE AddRole(r)
  <2>1. req[r] \in Request /\ req[r].pc = "addRole"
    BY <1>4 DEF AddRole, At
  <2>2. CASE Finish(r)
    BY <2>2, FreeType DEF Finish
  <2>3. CASE \E rs : req' = [req EXCEPT ![r].roles = rs]
    BY <2>1, <2>3 DEF Request
  <2> QED  BY <1>4, <2>2, <2>3 DEF AddRole
<1>5. CASE SetPassword(r) \/ RequestFails(r)
  BY <1>5, FreeType DEF SetPassword, RequestFails, Finish
<1>6. CASE RemoveFind(r)
  BY <1>6, FreeType DEF RemoveFind, Finish, Request
<1>7. CASE RemoveDelete(r)
  BY <1>7, FreeType DEF RemoveDelete, Finish, Request
<1> QED  BY <1>1, <1>2, <1>3, <1>4, <1>5, <1>6, <1>7

\* A step that writes no row and starts no insertion keeps IdInv.
LEMMA QuietStep ==
    ASSUME IdInv, NEW r \in Requests,
           \A s \in Requests \ {r} : req'[s] = req[s],
           req'[r].pc \notin Inserting,
           UNCHANGED <<users, retired>>
    PROVE  IdInv'
BY DEF IdInv, IdentityUnique, Live

\* A step that replaces live rows only, within the indexes, keeps IdInv.
LEMMA RewriteStep ==
    ASSUME TypeInv, IdInv, NEW r \in Requests, NEW i \in Ids, NEW w \in Columns,
           \A s \in Requests \ {r} : req'[s] = req[s],
           req'[r].pc \notin Inserting,
           users[i] # Null, UniqueIndexesAllow(i, w),
           users' = [users EXCEPT ![i] = w],
           UNCHANGED retired
    PROVE  IdInv'
<1>1. w # Null
  BY NullAssumption
<1>2. Live' = Live
  BY <1>1 DEF Live, TypeInv, TypeOK
<1>3. IdentityUnique'
  BY <1>2 DEF IdInv, IdentityUnique, UniqueIndexesAllow, Live, TypeInv, TypeOK
<1>4. \A j \in retired' : users'[j] = Null
  BY DEF IdInv, TypeInv, TypeOK
<1> QED  BY <1>2, <1>3, <1>4 DEF IdInv

\* One step per action.
LEMMA IdStep == TypeInv /\ IdInv /\ [Next]_vars => IdInv'
<1> SUFFICES ASSUME TypeInv, IdInv, [Next]_vars PROVE IdInv'
  OBVIOUS
<1>1. ASSUME NEW r \in Requests, RegisterRead(r) \/ CreateRead(r) PROVE IdInv'
  <2>1. PICK i \in Ids : /\ FreshId(i)
                         /\ req'[r].id = i
    <3>1. CASE RegisterRead(r)
      BY <3>1 DEF RegisterRead, Begin, Pending, TypeInv, TypeOK
    <3>2. CASE CreateRead(r)
      BY <3>2 DEF CreateRead, Begin, Pending, TypeInv, TypeOK
    <3> QED  BY <1>1, <3>1, <3>2
  <2>2. \A s \in Requests \ {r} : req'[s] = req[s]
    BY <1>1, OtherSlots DEF Start
  <2>3. UNCHANGED <<users, retired>>
    BY <1>1 DEF RegisterRead, CreateRead, tables, history
  <2>4. i \notin Live \cup retired /\ \A s \in Requests : req[s].id # i
    BY <2>1 DEF FreshId
  <2>5. IdentityUnique' /\ \A j \in retired' : users'[j] = Null
    BY <2>3 DEF IdInv, IdentityUnique, Live
  <2>6. Live' = Live
    BY <2>3 DEF Live
  <2> QED  BY <2>1, <2>2, <2>3, <2>4, <2>5, <2>6 DEF IdInv
<1>2. ASSUME NEW r \in Requests,
             \/ UpdateRead(r) \/ UpdateProfileRead(r) \/ ResetRequestRead(r)
             \/ ResetProcessRead(r) \/ ChangePasswordRead(r) \/ RemoveBegin(r)
             \/ ClearRoles(r) \/ AddRole(r) \/ RemoveFind(r) \/ RequestFails(r)
      PROVE  IdInv'
  <2>1. \A s \in Requests \ {r} : req'[s] = req[s]
    BY <1>2, OtherSlots DEF Start, Advance
  <2>2. req'[r].pc \notin Inserting
    BY <1>2, NotInserting
  <2>3. UNCHANGED <<users, retired>>
    BY <1>2 DEF UpdateRead, UpdateProfileRead, ResetRequestRead, ResetProcessRead,
       ChangePasswordRead, RemoveBegin, ClearRoles, AddRole, RemoveFind,
       RequestFails, tables, history
  <2> QED  BY <2>1, <2>2, <2>3, QuietStep
<1>3. ASSUME NEW r \in Requests, CheckCode(r) PROVE IdInv'
  <2>1. \A s \in Requests \ {r} : req'[s] = req[s]
    BY <1>3, OtherSlots DEF Advance
  <2>2. UNCHANGED <<users, retired>>
    BY <1>3 DEF CheckCode, tables, history
  <2>3. CASE Finish(r)
    BY <2>1, <2>2, <2>3, FreeType, QuietStep DEF Finish, Inserting, TypeInv, TypeOK
  <2>4. CASE req' = [req EXCEPT ![r].pc = "insert"]
    <3>1. req[r].pc \in Inserting /\ req'[r].id = req[r].id
      BY <1>3, <2>4 DEF CheckCode, At, Inserting, TypeInv, TypeOK, Request
    <3>2. IdentityUnique' /\ Live' = Live /\ \A j \in retired' : users'[j] = Null
      BY <2>2 DEF IdInv, IdentityUnique, Live
    <3> QED  BY <2>1, <2>2, <3>1, <3>2 DEF IdInv
  <2> QED  BY <1>3, <2>3, <2>4 DEF CheckCode
<1>4. ASSUME NEW r \in Requests, Insert(r) PROVE IdInv'
  <2> DEFINE i == req[r].id  w == req[r].row
  <2>1. \A s \in Requests \ {r} : req'[s] = req[s]
    BY <1>4, OtherSlots DEF Advance
  <2>2. req'[r].pc \notin Inserting
    BY <1>4, NotInserting
  <2>3. /\ i \in Ids /\ w \in Columns /\ w # Null
        /\ i \notin Live \cup retired /\ retired' = retired
        /\ \A s \in Requests \ {r} : req[s].pc \in Inserting => req[s].id # i
    BY <1>4, NullAssumption
       DEF Insert, At, TypeInv, Shape, IdInv, Inserting, history
  <2>4. CASE UNCHANGED users
    BY <2>1, <2>2, <2>3, <2>4, QuietStep
  <2>5. CASE UniqueIndexesAllow(i, w) /\ users' = [users EXCEPT ![i] = w]
    <3>1. Live' = Live \cup {i}
      BY <2>3, <2>5 DEF Live, TypeInv, TypeOK
    <3>2. IdentityUnique'
      BY <2>3, <2>5, <3>1 DEF IdInv, IdentityUnique, UniqueIndexesAllow,
         Live, TypeInv, TypeOK
    <3>3. \A j \in retired' : users'[j] = Null
      BY <2>3, <2>5 DEF IdInv, TypeInv, TypeOK
    <3> QED  BY <2>1, <2>2, <2>3, <3>1, <3>2, <3>3 DEF IdInv
  <2> QED  BY <1>4, <2>4, <2>5 DEF Insert
<1>5. ASSUME NEW r \in Requests, WriteRow(r) PROVE IdInv'
  <2> DEFINE i == req[r].id  w == req[r].row
  <2>1. \A s \in Requests \ {r} : req'[s] = req[s]
    BY <1>5, OtherSlots DEF Advance
  <2>2. req'[r].pc \notin Inserting
    BY <1>5, NotInserting
  <2>3. i \in Ids /\ w \in Columns /\ retired' = retired
    BY <1>5 DEF WriteRow, At, TypeInv, Shape
  <2>4. CASE UNCHANGED users
    BY <2>1, <2>2, <2>3, <2>4, QuietStep
  <2>5. CASE /\ users[i] # Null /\ UniqueIndexesAllow(i, w)
             /\ users' = [users EXCEPT ![i] = Overwrite(users[i], w)]
    <3>1. /\ Overwrite(users[i], w) \in Columns
          /\ UniqueIndexesAllow(i, Overwrite(users[i], w))
      BY <2>3, <2>5, OverwriteType DEF UniqueIndexesAllow, TypeInv, TypeOK
    <3> QED  BY <2>1, <2>2, <2>3, <2>5, <3>1, RewriteStep
  <2> QED  BY <1>5, <2>4, <2>5 DEF WriteRow
<1>6. ASSUME NEW r \in Requests, SetPassword(r) PROVE IdInv'
  <2> DEFINE i == req[r].id
             w == [users[i] EXCEPT !.password = req[r].row.password]
  <2>1. \A s \in Requests \ {r} : req'[s] = req[s]
    BY <1>6, OtherSlots DEF Advance
  <2>2. req'[r].pc \notin Inserting
    BY <1>6, NotInserting
  <2>3. i \in Ids /\ req[r].row \in Columns /\ retired' = retired
    BY <1>6 DEF SetPassword, At, TypeInv, Shape, history
  <2>4. CASE users[i] = Null
    <3>1. users' = users
      BY <1>6, <2>3, <2>4 DEF SetPassword, TypeInv, TypeOK
    <3> QED  BY <2>1, <2>2, <2>3, <3>1, QuietStep
  <2>5. CASE users[i] # Null
    <3>1. users[i] \in Columns /\ users' = [users EXCEPT ![i] = w]
      BY <1>6, <2>3, <2>5 DEF SetPassword, TypeInv, TypeOK
    <3>2. /\ w \in Columns
          /\ w.email = users[i].email /\ w.code = users[i].code
      BY <2>3, <3>1 DEF Columns
    <3>3. UniqueIndexesAllow(i, w)
      BY <2>3, <2>5, <3>2 DEF UniqueIndexesAllow, IdInv, IdentityUnique, Live
    <3> QED  BY <2>1, <2>2, <2>3, <2>5, <3>1, <3>2, <3>3, RewriteStep
  <2> QED  BY <2>4, <2>5
<1>7. ASSUME NEW r \in Requests, RemoveDelete(r) PROVE IdInv'
  <2> DEFINE i == req[r].id
  <2>1. \A s \in Requests \ {r} : req'[s] = req[s]
    BY <1>7, OtherSlots DEF Advance
  <2>2. req'[r].pc \notin Inserting
    BY <1>7, NotInserting
  <2>3. /\ i \in Ids
        /\ users' = [users EXCEPT ![i] = Null]
        /\ retired' = IF users[i] = Null THEN retired ELSE retired \cup {i}
    BY <1>7 DEF RemoveDelete, At, TypeInv, Shape
  <2>4. Live' \cup retired' = Live \cup retired /\ Live' \subseteq Live
    BY <2>3 DEF Live, TypeInv, TypeOK
  <2>5. IdentityUnique'
    BY <2>3, <2>4 DEF IdInv, IdentityUnique, Live, TypeInv, TypeOK
  <2>6. \A j \in retired' : users'[j] = Null
    BY <2>3 DEF IdInv, TypeInv, TypeOK
  <2> QED  BY <2>1, <2>2, <2>4, <2>5, <2>6 DEF IdInv
<1>8. CASE Tick \/ UNCHANGED vars
  BY <1>8 DEF Tick, vars, tables, history, IdInv, IdentityUnique, Live
<1> QED
  BY <1>1, <1>2, <1>3, <1>4, <1>5, <1>6, <1>7, <1>8 DEF Next, Start, Advance

LEMMA IdInit == Init => IdInv
BY FreeType DEF Init, IdInv, IdentityUnique, Live, Inserting

LEMMA IdInvariant == Spec => [](TypeInv /\ IdInv)
BY TypeInit, TypeStep, IdInit, IdStep, PTL DEF Spec

\* Two live accounts never share an email or a code, however the requests that
\* create and rename them interleave.
THEOREM IdentityIsUnique == Spec => []IdentityUnique
<1>1. IdInv => IdentityUnique
  BY DEF IdInv
<1> QED  BY <1>1, IdInvariant, PTL

\* A deleted account never comes back, whatever stale row is still in flight.
THEOREM DeletionIsFinal == Spec => NoResurrection
<1>1. TypeInv /\ IdInv /\ [Next]_vars => retired \subseteq retired'
  BY DEF Next, Start, Advance, RegisterRead, CreateRead, UpdateRead,
     UpdateProfileRead, ResetRequestRead, ResetProcessRead, ChangePasswordRead,
     RemoveBegin, CheckCode, Insert, WriteRow, ClearRoles, AddRole, SetPassword,
     RemoveFind, RemoveDelete, RequestFails, Tick, vars, tables, history
<1>2. TypeInv /\ IdInv /\ IdInv' /\ [Next]_vars
        => [\A i \in Ids : i \in retired => users'[i] = Null]_vars
  BY <1>1 DEF IdInv
<1> QED  BY <1>2, IdInvariant, PTL DEF Spec, NoResurrection
=============================================================================
