--------------------------- MODULE AccountsSafety ---------------------------
(***************************************************************************)
(* More proofs about Accounts: password-reset codes, blocking, role rows,  *)
(* and the refinement of UserStore.  They rest on TypeInv and IdInv of     *)
(* AccountsProofs.                                                         *)
(***************************************************************************)
EXTENDS AccountsProofs

\* The statements for which a slot holds a whole row to write.
Writing == {"checkCode", "insert", "update"}

LEMMA InsertingWrites == Inserting \subseteq Writing /\ "update" \in Writing
BY DEF Inserting, Writing

-----------------------------------------------------------------------------
(* Slots *)

\* After a step that is not a read, slot r writes no row unless it is checked.
LEMMA NotWriting ==
    ASSUME TypeInv, NEW r \in Requests,
           \/ Insert(r) \/ WriteRow(r) \/ ClearRoles(r) \/ AddRole(r)
           \/ SetPassword(r) \/ RemoveFind(r) \/ RemoveDelete(r)
           \/ RequestFails(r)
    PROVE  req'[r].pc \notin Writing
<1> USE DEF TypeInv, TypeOK, Writing
<1>1. CASE Insert(r) \/ WriteRow(r)
  BY <1>1, ProceedPc DEF Insert, WriteRow, Statements
<1>2. CASE ClearRoles(r)
  BY <1>2 DEF ClearRoles, Request
<1>3. CASE AddRole(r)
  <2>1. req[r] \in Request /\ req[r].pc = "addRole"
    BY <1>3 DEF AddRole, At
  <2>2. CASE Finish(r)
    BY <2>2, FreeType DEF Finish
  <2>3. CASE \E rs : req' = [req EXCEPT ![r].roles = rs]
    BY <2>1, <2>3 DEF Request
  <2> QED  BY <1>3, <2>2, <2>3 DEF AddRole
<1>4. CASE SetPassword(r) \/ RequestFails(r)
  BY <1>4, FreeType DEF SetPassword, RequestFails, Finish
<1>5. CASE RemoveFind(r)
  BY <1>5, FreeType DEF RemoveFind, Finish, Request
<1>6. CASE RemoveDelete(r)
  BY <1>6, FreeType DEF RemoveDelete, Finish, Request
<1> QED  BY <1>1, <1>2, <1>3, <1>4, <1>5, <1>6

\* The check of the code keeps the row and the id of the slot.
LEMMA CheckCodeSlot ==
    ASSUME TypeInv, NEW r \in Requests, CheckCode(r)
    PROVE  \/ req'[r].pc = "idle"
           \/ /\ req[r].pc = "checkCode" /\ req'[r].pc = "insert"
              /\ req'[r].id = req[r].id /\ req'[r].row = req[r].row
<1>1. CASE Finish(r)
  BY <1>1, FreeType DEF Finish, TypeInv, TypeOK
<1>2. CASE req' = [req EXCEPT ![r].pc = "insert"]
  BY <1>2 DEF CheckCode, At, TypeInv, TypeOK, Request
<1> QED  BY <1>1, <1>2 DEF CheckCode

\* Which rows a step of each kind leaves alone.
LEMMA UsersFrame ==
    ASSUME NEW r \in Requests,
           \/ Start(r) \/ CheckCode(r) \/ ClearRoles(r) \/ AddRole(r)
           \/ RemoveFind(r) \/ RequestFails(r)
    PROVE  UNCHANGED <<users, clock, retired>>
BY DEF Start, RegisterRead, CreateRead, UpdateRead, UpdateProfileRead,
   ResetRequestRead, ResetProcessRead, ChangePasswordRead, RemoveBegin,
   CheckCode, ClearRoles, AddRole, RemoveFind, RequestFails, tables, history

-----------------------------------------------------------------------------
(* Password-reset codes *)

\* The row w of user i pairs its code with the expiry it was issued with.
PairedIn(w, i, iss) ==
    /\ w.otp = Null <=> w.exp = Null
    /\ w.otp # Null => <<w.otp, w.exp>> \in iss[i]

\* OtpSound, strengthened by the rows the requests in flight will write.
OtpInv ==
    /\ \A i \in Live : PairedIn(users[i], i, issued)
    /\ \A r \in Requests :
          req[r].pc \in Writing => PairedIn(req[r].row, req[r].id, issued)
    /\ \A i \in Ids : \A p \in issued[i] : p[2] <= clock + OtpTtl

\* A step that issues no code and changes no code column keeps OtpInv.
LEMMA OtpQuiet ==
    ASSUME OtpInv, NEW r \in Requests,
           \A s \in Requests \ {r} : req'[s] = req[s],
           req'[r].pc \in Writing => PairedIn(req'[r].row, req'[r].id, issued),
           \A i \in Ids : users'[i] # Null => PairedIn(users'[i], i, issued),
           UNCHANGED <<clock, issued>>
    PROVE  OtpInv'
BY DEF OtpInv, Live, PairedIn

LEMMA OtpStep == TypeInv /\ OtpInv /\ [Next]_vars => OtpInv'
<1> SUFFICES ASSUME TypeInv, OtpInv, [Next]_vars PROVE OtpInv'
  OBVIOUS
<1>a. \A i \in Ids : users[i] # Null => PairedIn(users[i], i, issued)
  BY DEF OtpInv, Live
<1>b. \A i \in Live : i \in Ids /\ users[i] \in Columns /\ PairedIn(users[i], i, issued)
  BY DEF OtpInv, Live, TypeInv, TypeOK
<1>1. ASSUME NEW r \in Requests, RegisterRead(r) \/ CreateRead(r) PROVE OtpInv'
  <2>1. \E o, s, i, e, c, p, st, b, rs :
           Begin(r, Pending(o, s, i, NewRow(e, c, p, st, b), rs, {}))
    <3>1. CASE RegisterRead(r)
      BY <3>1 DEF RegisterRead
    <3>2. CASE CreateRead(r)
      BY <3>2 DEF CreateRead
    <3> QED  BY <1>1, <3>1, <3>2
  <2>2. PairedIn(req'[r].row, req'[r].id, issued)
    BY <2>1, BeginPc DEF NewRow, PairedIn
  <2>3. UNCHANGED <<users, clock, issued>>
    BY <1>1 DEF RegisterRead, CreateRead, tables, history
  <2>4. \A s \in Requests \ {r} : req'[s] = req[s]
    BY <1>1, OtherSlots DEF Start
  <2> QED  BY <1>a, <2>2, <2>3, <2>4, OtpQuiet
<1>2. ASSUME NEW r \in Requests, UpdateRead(r) \/ UpdateProfileRead(r) PROVE OtpInv'
  <2>1. \E i \in Live : \E o, w, rs :
           /\ Begin(r, Pending(o, "update", i, w, rs, {}))
           /\ w.otp = users[i].otp /\ w.exp = users[i].exp
    <3>1. CASE UpdateRead(r)
      <4>1. PICK i \in Live, st \in Statuses \cup {Null}, b \in BOOLEAN,
               rs \in SUBSET Roles :
               Begin(r, Pending("update", "update", i,
                    [users[i] EXCEPT !.status = Filled(st, @), !.blocked = b],
                    rs, {}))
        BY <3>1 DEF UpdateRead
      <4> DEFINE w == [users[i] EXCEPT !.status = Filled(st, @), !.blocked = b]
      <4>2. w.otp = users[i].otp /\ w.exp = users[i].exp
        BY <1>b DEF Columns
      <4> QED  BY <4>1, <4>2
    <3>2. CASE UpdateProfileRead(r)
      <4>1. PICK i \in Live, e \in Emails, c \in Codes \cup {Null},
               p \in Passwords \cup {Null}, st \in Statuses \cup {Null} :
               Begin(r, Pending("profile", "update", i,
                    [users[i] EXCEPT !.email = e, !.code = Filled(c, @),
                       !.password = Filled(p, @), !.status = Filled(st, @)],
                    {}, {}))
        BY <3>2 DEF UpdateProfileRead
      <4> DEFINE w == [users[i] EXCEPT !.email = e, !.code = Filled(c, @),
                         !.password = Filled(p, @), !.status = Filled(st, @)]
      <4>2. w.otp = users[i].otp /\ w.exp = users[i].exp
        BY <1>b DEF Columns
      <4> QED  BY <4>1, <4>2
    <3> QED  BY <1>2, <3>1, <3>2
  <2>2. PairedIn(req'[r].row, req'[r].id, issued)
    BY <1>b, <2>1, BeginPc DEF PairedIn
  <2>3. UNCHANGED <<users, clock, issued>>
    BY <1>2 DEF UpdateRead, UpdateProfileRead, tables, history
  <2>4. \A s \in Requests \ {r} : req'[s] = req[s]
    BY <1>2, OtherSlots DEF Start
  <2> QED  BY <1>a, <2>2, <2>3, <2>4, OtpQuiet
<1>3. ASSUME NEW r \in Requests, ResetRequestRead(r) PROVE OtpInv'
  <2>1. PICK i \in Live, o \in Otps :
           /\ Begin(r, Pending("resetRequest", "update", i,
                       [users[i] EXCEPT !.otp = o, !.exp = clock + OtpTtl],
                       {}, {}))
           /\ issued' = [issued EXCEPT ![i] = @ \cup {<<o, clock + OtpTtl>>}]
    BY <1>3 DEF ResetRequestRead
  <2>2. UNCHANGED <<users, clock>>
    BY <1>3 DEF ResetRequestRead, tables
  <2>3. \A s \in Requests \ {r} : req'[s] = req[s]
    BY <1>3, OtherSlots DEF Start
  <2>4. /\ clock \in Nat /\ clock + OtpTtl \in Nat /\ i \in Ids
        /\ users[i] \in Columns
    BY <1>b, BoundsAssumption DEF TypeInv, TypeOK
  <2>5. \A j \in Ids : issued[j] \subseteq issued'[j]
    BY <2>1, <2>4 DEF TypeInv, TypeOK
  <2>6. \A j \in Ids : \A p \in issued'[j] : p[2] <= clock' + OtpTtl
    BY <2>1, <2>2, <2>4 DEF OtpInv, TypeInv, TypeOK
  <2>7. PairedIn(req'[r].row, req'[r].id, issued')
    <3>1. /\ req'[r].id = i
          /\ req'[r].row = [users[i] EXCEPT !.otp = o, !.exp = clock + OtpTtl]
      BY <2>1, BeginPc
    <3>2. req'[r].row.otp = o /\ req'[r].row.exp = clock + OtpTtl
      BY <2>4, <3>1 DEF Columns
    <3>3. o # Null /\ clock + OtpTtl # Null
      BY <2>4, NullAssumption
    <3>4. <<o, clock + OtpTtl>> \in issued'[i]
      BY <2>1, <2>4 DEF TypeInv, TypeOK
    <3> QED  BY <3>1, <3>2, <3>3, <3>4 DEF PairedIn
  <2>8. \A j \in Ids : \A w : PairedIn(w, j, issued) => PairedIn(w, j, issued')
    BY <2>5 DEF PairedIn
  <2>9. \A s \in Requests : req[s].pc \in Writing => req[s].id \in Ids
    BY DEF TypeInv, Shape, Writing
  <2>10. \A j \in Live' : PairedIn(users'[j], j, issued')
    BY <1>a, <2>2, <2>8 DEF Live
  <2>11. \A s \in Requests :
            req'[s].pc \in Writing => PairedIn(req'[s].row, req'[s].id, issued')
    BY <2>3, <2>7, <2>8, <2>9 DEF OtpInv
  <2> QED  BY <2>6, <2>10, <2>11 DEF OtpInv
<1>4. ASSUME NEW r \in Requests, ResetProcessRead(r) PROVE OtpInv'
  <2>1. PICK i \in Live, p \in Passwords :
           Begin(r, Pending("reset", "update", i,
                    [users[i] EXCEPT !.password = p, !.otp = Null,
                                     !.exp = Null], {}, {}))
    BY <1>4 DEF ResetProcessRead
  <2>2. PairedIn(req'[r].row, req'[r].id, issued)
    <3> DEFINE w == [users[i] EXCEPT !.password = p, !.otp = Null, !.exp = Null]
    <3>1. req'[r].row = w
      BY <2>1, BeginPc
    <3>2. w.otp = Null /\ w.exp = Null
      BY <1>b DEF Columns
    <3> QED  BY <3>1, <3>2 DEF PairedIn
  <2>3. UNCHANGED <<users, clock, issued>>
    BY <1>4 DEF ResetProcessRead, tables, history
  <2>4. \A s \in Requests \ {r} : req'[s] = req[s]
    BY <1>4, OtherSlots DEF Start
  <2> QED  BY <1>a, <2>2, <2>3, <2>4, OtpQuiet
<1>5. ASSUME NEW r \in Requests, ChangePasswordRead(r) \/ RemoveBegin(r)
      PROVE  OtpInv'
  <2>1. req'[r].pc \notin Writing
    <3>1. \E o, s, i, w, rs, b : /\ s \notin Writing
                                 /\ Begin(r, Pending(o, s, i, w, rs, b))
      BY <1>5 DEF ChangePasswordRead, RemoveBegin, Writing
    <3> QED  BY <3>1, BeginPc
  <2>2. UNCHANGED <<users, clock, issued>>
    BY <1>5 DEF ChangePasswordRead, RemoveBegin, tables, history
  <2>3. \A s \in Requests \ {r} : req'[s] = req[s]
    BY <1>5, OtherSlots DEF Start
  <2> QED  BY <1>a, <2>1, <2>2, <2>3, OtpQuiet
<1>6. ASSUME NEW r \in Requests, CheckCode(r) PROVE OtpInv'
  <2>1. req'[r].pc \in Writing => PairedIn(req'[r].row, req'[r].id, issued)
    BY <1>6, CheckCodeSlot DEF OtpInv, Writing
  <2>2. UNCHANGED <<users, clock, issued>>
    BY <1>6 DEF CheckCode, tables, history
  <2>3. \A s \in Requests \ {r} : req'[s] = req[s]
    BY <1>6, OtherSlots DEF Advance
  <2> QED  BY <1>a, <2>1, <2>2, <2>3, OtpQuiet
<1>7. ASSUME NEW r \in Requests,
             \/ Insert(r) \/ WriteRow(r) \/ ClearRoles(r) \/ AddRole(r)
             \/ SetPassword(r) \/ RemoveFind(r) \/ RemoveDelete(r)
             \/ RequestFails(r)
      PROVE  OtpInv'
  <2>1. req'[r].pc \notin Writing
    BY <1>7, NotWriting
  <2>2. UNCHANGED <<clock, issued>>
    BY <1>7 DEF Insert, WriteRow, ClearRoles, AddRole, SetPassword, RemoveFind,
       RemoveDelete, RequestFails, history
  <2>3. \A s \in Requests \ {r} : req'[s] = req[s]
    BY <1>7, OtherSlots DEF Advance
  <2>4. \A j \in Ids : users'[j] # Null => PairedIn(users'[j], j, issued)
    <3> DEFINE i == req[r].id  w == req[r].row
    <3>1. CASE Insert(r)
      <4>1. PairedIn(w, i, issued) /\ i \in Ids
        BY <3>1 DEF Insert, At, OtpInv, Writing, TypeInv, Shape
      <4> QED  BY <1>a, <3>1, <4>1 DEF Insert, TypeInv, TypeOK
    <3>2. CASE WriteRow(r)
      <4>1. /\ PairedIn(w, i, issued) /\ i \in Ids /\ w \in Columns
            /\ users[i] # Null => users[i] \in Columns
        BY <3>2 DEF WriteRow, At, OtpInv, Writing, TypeInv, TypeOK, Shape
      <4>2. users[i] # Null => PairedIn(Overwrite(users[i], w), i, issued)
        BY <1>a, <4>1, OverwriteType DEF PairedIn, Filled
      <4> QED  BY <1>a, <3>2, <4>1, <4>2 DEF WriteRow, TypeInv, TypeOK
    <3>3. CASE SetPassword(r)
      <4>1. i \in Ids
        BY <3>3 DEF SetPassword, At, TypeInv, Shape
      <4>2. users[i] # Null =>
               PairedIn([users[i] EXCEPT !.password = w.password], i, issued)
        BY <1>b, <4>1 DEF PairedIn, Columns, Live
      <4> QED  BY <1>a, <3>3, <4>1, <4>2 DEF SetPassword, TypeInv, TypeOK
    <3>4. CASE RemoveDelete(r)
      BY <1>a, <3>4 DEF RemoveDelete, TypeInv, TypeOK
    <3>5. CASE ClearRoles(r) \/ AddRole(r) \/ RemoveFind(r) \/ RequestFails(r)
      BY <1>a, <3>5, UsersFrame
    <3> QED  BY <1>7, <3>1, <3>2, <3>3, <3>4, <3>5
  <2> QED  BY <2>1, <2>2, <2>3, <2>4, OtpQuiet
<1>8. CASE Tick
  <2>1. \A i \in Ids : \A p \in issued[i] : p[2] \in Nat
    BY DEF TypeInv, TypeOK
  <2> QED
    BY <1>8, <2>1, BoundsAssumption
       DEF Tick, tables, history, OtpInv, Live, PairedIn, TypeInv, TypeOK
<1>9. CASE UNCHANGED vars
  BY <1>9 DEF vars, tables, history, OtpInv, Live, PairedIn
<1> QED
  BY <1>1, <1>2, <1>3, <1>4, <1>5, <1>6, <1>7, <1>8, <1>9
     DEF Next, Start, Advance

LEMMA OtpInit == Init => OtpInv
BY FreeType DEF Init, OtpInv, Live, Writing

\* A stored code is always paired with the expiry it was issued with, and no
\* code outlives OtpTtl, whatever reset requests and stale writes race.
THEOREM OtpIsSound == Spec => []OtpSound
<1>1. OtpInv => OtpSound
  BY DEF OtpInv, OtpSound, PairedIn
<1> QED  BY <1>1, TypeInit, TypeStep, OtpInit, OtpStep, PTL DEF Spec

-----------------------------------------------------------------------------
(* Blocking *)

\* UncontendedBlockHolds, strengthened by the rows in flight: a held account
\* exists or existed, and every copy of its row carries the block.
HeldInv ==
    /\ held \subseteq Live \cup retired
    /\ UncontendedBlockHolds
    /\ \A r \in Requests :
          req[r].pc = "update" /\ req[r].id \in held => req[r].row.blocked

\* A step that neither writes a row, retires an id, nor holds one keeps HeldInv
\* when the copy it may have read carries the block.
LEMMA HeldQuiet ==
    ASSUME HeldInv, NEW r \in Requests,
           \A s \in Requests \ {r} : req'[s] = req[s],
           req'[r].pc = "update" /\ req'[r].id \in held' => req'[r].row.blocked,
           held' \subseteq held,
           UNCHANGED <<users, retired>>
    PROVE  HeldInv'
BY DEF HeldInv, UncontendedBlockHolds, Live

LEMMA HeldStep == TypeInv /\ IdInv /\ HeldInv /\ [Next]_vars => HeldInv'
<1> SUFFICES ASSUME TypeInv, IdInv, HeldInv, [Next]_vars PROVE HeldInv'
  OBVIOUS
<1>a. \A i \in Live : i \in Ids /\ users[i] \in Columns
  BY DEF Live, TypeInv, TypeOK
<1>1. ASSUME NEW r \in Requests,
             \/ RegisterRead(r) \/ CreateRead(r) \/ ChangePasswordRead(r)
             \/ RemoveBegin(r) \/ CheckCode(r) \/ ClearRoles(r)
             \/ AddRole(r) \/ RemoveFind(r) \/ RequestFails(r)
      PROVE  HeldInv'
  <2>1. req'[r].pc # "update"
    <3>1. CASE \/ RegisterRead(r) \/ CreateRead(r) \/ ChangePasswordRead(r)
               \/ RemoveBegin(r)
      <4>1. \E o, s, i, w, rs, b : /\ s # "update"
                                   /\ Begin(r, Pending(o, s, i, w, rs, b))
        <5>1. CASE RegisterRead(r)
          BY <5>1 DEF RegisterRead
        <5>2. CASE CreateRead(r)
          BY <5>2 DEF CreateRead
        <5>3. CASE ChangePasswordRead(r)
          BY <5>3 DEF ChangePasswordRead
        <5>4. CASE RemoveBegin(r)
          BY <5>4 DEF RemoveBegin
        <5> QED  BY <3>1, <5>1, <5>2, <5>3, <5>4
      <4> QED  BY <4>1, BeginPc
    <3>2. CASE CheckCode(r)
      BY <3>2, CheckCodeSlot
    <3>3. CASE ClearRoles(r) \/ AddRole(r) \/ RemoveFind(r) \/ RequestFails(r)
      BY <3>3, NotWriting DEF Writing
    <3> QED  BY <1>1, <3>1, <3>2, <3>3
  <2>2. UNCHANGED <<users, retired, held>>
    BY <1>1 DEF RegisterRead, CreateRead, ChangePasswordRead, RemoveBegin,
       CheckCode, ClearRoles, AddRole, RemoveFind, RequestFails, tables, history
  <2>3. \A s \in Requests \ {r} : req'[s] = req[s]
    BY <1>1, OtherSlots DEF Start, Advance
  <2> QED  BY <2>1, <2>2, <2>3, HeldQuiet
<1>2. ASSUME NEW r \in Requests, UpdateRead(r) PROVE HeldInv'
  <2>1. \E i \in Live : \E w, rs :
           /\ Begin(r, Pending("update", "update", i, w, rs, {}))
           /\ held' = held \ {i}
    BY <1>2 DEF UpdateRead
  <2>2. UNCHANGED <<users, retired>>
    BY <1>2 DEF UpdateRead, tables
  <2>3. req'[r].id \notin held'
    BY <2>1, BeginPc
  <2>4. \A s \in Requests \ {r} : req'[s] = req[s]
    BY <1>2, OtherSlots DEF Start
  <2> QED  BY <2>1, <2>2, <2>3, <2>4, HeldQuiet
<1>3. ASSUME NEW r \in Requests,
             UpdateProfileRead(r) \/ ResetRequestRead(r) \/ ResetProcessRead(r)
      PROVE  HeldInv'
  <2>1. \E i \in Live : \E o, w :
           /\ Begin(r, Pending(o, "update", i, w, {}, {}))
           /\ w.blocked = users[i].blocked
    <3>1. CASE UpdateProfileRead(r)
      <4>1. PICK i \in Live, e \in Emails, c \in Codes \cup {Null},
               p \in Passwords \cup {Null}, st \in Statuses \cup {Null} :
               Begin(r, Pending("profile", "update", i,
                    [users[i] EXCEPT !.email = e, !.code = Filled(c, @),
                       !.password = Filled(p, @), !.status = Filled(st, @)],
                    {}, {}))
        BY <3>1 DEF UpdateProfileRead
      <4> DEFINE w == [users[i] EXCEPT !.email = e, !.code = Filled(c, @),
                         !.password = Filled(p, @), !.status = Filled(st, @)]
      <4>2. w.blocked = users[i].blocked
        BY <1>a DEF Columns
      <4> QED  BY <4>1, <4>2
    <3>2. CASE ResetRequestRead(r)
      <4>1. PICK i \in Live, o \in Otps :
               Begin(r, Pending("resetRequest", "update", i,
                       [users[i] EXCEPT !.otp = o, !.exp = clock + OtpTtl], {}, {}))
        BY <3>2 DEF ResetRequestRead
      <4> DEFINE w == [users[i] EXCEPT !.otp = o, !.exp = clock + OtpTtl]
      <4>2. w.blocked = users[i].blocked
        BY <1>a DEF Columns
      <4> QED  BY <4>1, <4>2
    <3>3. CASE ResetProcessRead(r)
      <4>1. PICK i \in Live, p \in Passwords :
               Begin(r, Pending("reset", "update", i,
                    [users[i] EXCEPT !.password = p, !.otp = Null,
                                     !.exp = Null], {}, {}))
        BY <3>3 DEF ResetProcessRead
      <4> DEFINE w == [users[i] EXCEPT !.password = p, !.otp = Null, !.exp = Null]
      <4>2. w.blocked = users[i].blocked
        BY <1>a DEF Columns
      <4> QED  BY <4>1, <4>2
    <3> QED  BY <1>3, <3>1, <3>2, <3>3
  <2>2. UNCHANGED <<users, retired, held>>
    BY <1>3 DEF UpdateProfileRead, ResetRequestRead, ResetProcessRead, tables, history
  <2>3. req'[r].id \in held' => req'[r].row.blocked
    BY <2>1, <2>2, BeginPc DEF HeldInv, UncontendedBlockHolds, Live
  <2>4. \A s \in Requests \ {r} : req'[s] = req[s]
    BY <1>3, OtherSlots DEF Start
  <2> QED  BY <2>2, <2>3, <2>4, HeldQuiet
<1>4. ASSUME NEW r \in Requests, Insert(r) PROVE HeldInv'
  <2> DEFINE i == req[r].id
  <2>1. /\ req'[r].pc # "update" /\ UNCHANGED <<retired, held>>
        /\ \A s \in Requests \ {r} : req'[s] = req[s]
    BY <1>4, NotWriting, OtherSlots DEF Insert, Advance, history, Writing
  <2>2. i \in Ids /\ i \notin held /\ i \notin Live
    BY <1>4 DEF Insert, At, IdInv, Inserting, HeldInv, TypeInv, Shape
  <2>3. \A j \in Ids \ {i} : users'[j] = users[j]
    BY <1>4 DEF Insert, TypeInv, TypeOK
  <2>4. held' \subseteq Live' \cup retired'
    BY <2>1, <2>2, <2>3 DEF HeldInv, Live, TypeInv, TypeOK
  <2>5. UncontendedBlockHolds'
    BY <2>1, <2>2, <2>3 DEF HeldInv, UncontendedBlockHolds, TypeInv, TypeOK
  <2> QED  BY <2>1, <2>4, <2>5 DEF HeldInv
<1>5. ASSUME NEW r \in Requests, WriteRow(r) PROVE HeldInv'
  <2> DEFINE i == req[r].id  w == req[r].row
  <2>1. /\ req'[r].pc # "update" /\ UNCHANGED retired
        /\ \A s \in Requests \ {r} : req'[s] = req[s]
    BY <1>5, NotWriting, OtherSlots DEF WriteRow, Advance, Writing
  <2>2. /\ req[r].pc = "update" /\ i \in Ids /\ w \in Columns
        /\ i \in held => w.blocked
    BY <1>5 DEF WriteRow, At, TypeInv, Shape, HeldInv
  <2>3. CASE UNCHANGED <<users, held>>
    BY <2>1, <2>3, HeldQuiet
  <2>4. CASE /\ users[i] # Null
             /\ users' = [users EXCEPT ![i] = Overwrite(users[i], w)]
             /\ held' = IF req[r].op = "update" /\ w.blocked /\ OnlyWriter(r, i)
                        THEN held \cup {i} ELSE held
    <3>1. /\ Overwrite(users[i], w) \in Columns
          /\ Overwrite(users[i], w).blocked = w.blocked
      BY <2>2, <2>4, OverwriteType DEF TypeInv, TypeOK
    <3>2. /\ users'[i] = Overwrite(users[i], w) /\ users'[i] # Null
          /\ \A j \in Ids \ {i} : users'[j] = users[j]
      BY <2>2, <2>4, <3>1, NullAssumption DEF TypeInv, TypeOK
    <3>3. held' \subseteq Live' \cup retired'
      BY <2>1, <2>2, <2>4, <3>2 DEF HeldInv, Live, TypeInv, TypeOK
    <3>4. i \in held' => w.blocked
      BY <2>2, <2>4
    <3>5. UncontendedBlockHolds'
      BY <2>2, <2>4, <3>1, <3>2, <3>4
         DEF HeldInv, UncontendedBlockHolds, TypeInv, TypeOK
    <3>6. ASSUME NEW s \in Requests, req'[s].pc = "update", req'[s].id \in held'
          PROVE  req'[s].row.blocked
      <4>1. s # r /\ req'[s] = req[s]
        BY <2>1, <3>6
      <4>2. CASE req[s].id \in held
        BY <3>6, <4>1, <4>2 DEF HeldInv
      <4>3. CASE req[s].id \notin held
        BY <2>4, <3>6, <4>1, <4>3 DEF OnlyWriter, At
      <4> QED  BY <4>2, <4>3
    <3> QED  BY <3>3, <3>5, <3>6 DEF HeldInv
  <2> QED  BY <1>5, <2>3, <2>4 DEF WriteRow
<1>6. ASSUME NEW r \in Requests, SetPassword(r) PROVE HeldInv'
  <2> DEFINE i == req[r].id
  <2>1. /\ req'[r].pc # "update" /\ UNCHANGED <<retired, held>>
        /\ \A s \in Requests \ {r} : req'[s] = req[s]
    BY <1>6, NotWriting, OtherSlots DEF SetPassword, Advance, history, Writing
  <2>2. i \in Ids /\ req[r].row \in Columns
    BY <1>6 DEF SetPassword, At, TypeInv, Shape
  <2>3. \A j \in Ids : /\ users'[j] = Null <=> users[j] = Null
                       /\ users[j] # Null => users'[j].blocked = users[j].blocked
    <3>1. CASE users[i] = Null
      BY <1>6, <2>2, <3>1 DEF SetPassword, TypeInv, TypeOK
    <3>2. CASE users[i] # Null
      <4> DEFINE w == [users[i] EXCEPT !.password = req[r].row.password]
      <4>1. users' = [users EXCEPT ![i] = w] /\ users[i] \in Columns
        BY <1>6, <2>2, <3>2 DEF SetPassword, TypeInv, TypeOK
      <4>2. w \in Columns /\ w.blocked = users[i].blocked
        BY <2>2, <4>1 DEF Columns
      <4> HIDE DEF w
      <4> QED  BY <2>2, <3>2, <4>1, <4>2, NullAssumption DEF TypeInv, TypeOK
    <3> QED  BY <3>1, <3>2
  <2>7. Live' = Live
    BY <2>3 DEF Live
  <2>4. held' \subseteq Live' \cup retired'
    BY <2>1, <2>7 DEF HeldInv
  <2>5. UncontendedBlockHolds'
    BY <2>1, <2>3 DEF HeldInv, UncontendedBlockHolds, TypeInv, TypeOK
  <2>6. \A s \in Requests :
           req'[s].pc = "update" /\ req'[s].id \in held' => req'[s].row.blocked
    BY <2>1 DEF HeldInv
  <2> QED  BY <2>4, <2>5, <2>6 DEF HeldInv
<1>7. ASSUME NEW r \in Requests, RemoveDelete(r) PROVE HeldInv'
  <2> DEFINE i == req[r].id
  <2>1. /\ req'[r].pc # "update" /\ UNCHANGED held
        /\ \A s \in Requests \ {r} : req'[s] = req[s]
    BY <1>7, NotWriting, OtherSlots DEF RemoveDelete, Advance, Writing
  <2>2. /\ i \in Ids /\ users' = [users EXCEPT ![i] = Null]
        /\ retired' = IF users[i] = Null THEN retired ELSE retired \cup {i}
    BY <1>7 DEF RemoveDelete, At, TypeInv, Shape
  <2>3. held' \subseteq Live' \cup retired'
    BY <2>1, <2>2 DEF HeldInv, Live, TypeInv, TypeOK
  <2>4. UncontendedBlockHolds'
    BY <2>1, <2>2 DEF HeldInv, UncontendedBlockHolds, TypeInv, TypeOK
  <2>5. \A s \in Requests :
           req'[s].pc = "update" /\ req'[s].id \in held' => req'[s].row.blocked
    BY <2>1 DEF HeldInv
  <2> QED  BY <2>3, <2>4, <2>5 DEF HeldInv
<1>8. CASE Tick \/ UNCHANGED vars
  BY <1>8 DEF Tick, vars, tables, history, HeldInv, UncontendedBlockHolds, Live
<1> QED
  BY <1>1, <1>2, <1>3, <1>4, <1>5, <1>6, <1>7, <1>8 DEF Next, Start, Advance

LEMMA HeldInit == Init => HeldInv
BY FreeType DEF Init, HeldInv, UncontendedBlockHolds

\* An account blocked while nobody else held its row stays blocked until an
\* admin edits it again: no write that begins later can lift the block.
THEOREM BlockHoldsWithoutRace == Spec => []UncontendedBlockHolds
<1>1. HeldInv => UncontendedBlockHolds
  BY DEF HeldInv
<1> QED  BY <1>1, IdInvariant, HeldInit, HeldStep, PTL DEF Spec

-----------------------------------------------------------------------------
(* Role lists *)

\* The requests that insert roles of user i.
Storing(i) == {r \in Requests : req[r].pc = "addRole" /\ req[r].id = i}

\* The ids that have or had a row.
Known == Live \cup retired

\* RolesAreOneList, strengthened: what one request has still to insert, that it
\* is alone, and that no request but an insertion names an id without a row.
RolesInv ==
    /\ \A i \in Ids : \A list \in given[i] :
          /\ Storing(i) = {} => usersRoles[i] = list
          /\ \A r \in Storing(i) : /\ req[r].roles \subseteq list
                                   /\ usersRoles[i] = list \ req[r].roles
                                   /\ Storing(i) = {r}
    /\ \A i \in Ids \ Known : usersRoles[i] = {}
    /\ \A r \in Requests :
          req[r].pc \notin Inserting \cup {"idle", "find"} => req[r].id \in Known

\* A step of r that stores no roles, before or after, keeps RolesInv.
LEMMA RolesFrame ==
    ASSUME RolesInv, NEW r \in Requests,
           \A s \in Requests \ {r} : req'[s] = req[s],
           UNCHANGED <<usersRoles, given>>,
           req[r].pc # "addRole", req'[r].pc # "addRole",
           Known \subseteq Known',
           req'[r].pc \notin Inserting \cup {"idle", "find"} => req'[r].id \in Known'
    PROVE  RolesInv'
<1>1. \A i \in Ids : Storing(i)' = Storing(i)
  BY DEF Storing
<1>2. \A i \in Ids : \A s \in Storing(i) : s # r
  BY DEF Storing
<1>3. \A s \in Requests :
         req'[s].pc \notin Inserting \cup {"idle", "find"} => req'[s].id \in Known'
  BY DEF RolesInv
<1> QED  BY <1>1, <1>2, <1>3 DEF RolesInv, Storing

\* No step takes the id of a user back.
LEMMA KnownGrows == TypeInv /\ IdInv /\ [Next]_vars => Known \subseteq Known'
<1> SUFFICES ASSUME TypeInv, IdInv, [Next]_vars PROVE Known \subseteq Known'
  OBVIOUS
<1>1. ASSUME NEW r \in Requests,
             \/ Start(r) \/ CheckCode(r) \/ ClearRoles(r) \/ AddRole(r)
             \/ RemoveFind(r) \/ RequestFails(r)
      PROVE  Known \subseteq Known'
  BY <1>1, UsersFrame DEF Known, Live
<1>2. ASSUME NEW r \in Requests, Insert(r) \/ WriteRow(r) \/ SetPassword(r)
      PROVE  Known \subseteq Known'
  <2>1. /\ req[r].id \in Ids /\ req[r].row \in Columns /\ retired' = retired
    BY <1>2 DEF Insert, WriteRow, SetPassword, At, TypeInv, Shape, history
  <2>2. \A i \in Ids : users[i] # Null => users'[i] # Null
    <3>1. CASE Insert(r)
      BY <2>1, <3>1, NullAssumption DEF Insert, TypeInv, TypeOK
    <3>2. CASE WriteRow(r)
      BY <2>1, <3>2, OverwriteType, NullAssumption DEF WriteRow, TypeInv, TypeOK
    <3>3. CASE SetPassword(r)
      <4>1. \A w \in Columns : [w EXCEPT !.password = req[r].row.password] \in Columns
        BY <2>1 DEF Columns
      <4> QED
        BY <2>1, <3>3, <4>1, NullAssumption DEF SetPassword, TypeInv, TypeOK
    <3> QED  BY <1>2, <3>1, <3>2, <3>3
  <2> QED  BY <2>1, <2>2 DEF Known, Live
<1>3. ASSUME NEW r \in Requests, RemoveDelete(r) PROVE Known \subseteq Known'
  BY <1>3 DEF RemoveDelete, At, TypeInv, TypeOK, Shape, Known, Live
<1>4. CASE Tick \/ UNCHANGED vars
  BY <1>4 DEF Tick, vars, tables, history, Known, Live
<1> QED  BY <1>1, <1>2, <1>3, <1>4 DEF Next, Start, Advance

\* A request that ends, or that a read begins, stores no roles yet, and names a
\* user it found in the table.
LEMMA BeganKnown ==
    ASSUME TypeInv, NEW r \in Requests, Start(r)
    PROVE  /\ req[r].pc = "idle" /\ req'[r].pc # "addRole"
           /\ req'[r].pc \notin Inserting \cup {"idle", "find"} => req'[r].id \in Known
<1> USE DEF Inserting
<1>1. req[r].pc = "idle"
  BY DEF Start, RegisterRead, CreateRead, UpdateRead, UpdateProfileRead,
     ResetRequestRead, ResetProcessRead, ChangePasswordRead, RemoveBegin, Begin
<1>2. CASE RegisterRead(r) \/ CreateRead(r)
  <2>1. \E o, s, i, w, rs, b : /\ s \in {"checkCode", "insert"}
                               /\ Begin(r, Pending(o, s, i, w, rs, b))
    <3>1. CASE RegisterRead(r)
      <4>1. \E o, i, w, rs, b : Begin(r, Pending(o, "insert", i, w, rs, b))
        BY <3>1 DEF RegisterRead
      <4> QED  BY <4>1
    <3>2. CASE CreateRead(r)
      <4>1. \E o, i, w, rs, b : Begin(r, Pending(o, "checkCode", i, w, rs, b))
        BY <3>2 DEF CreateRead
      <4> QED  BY <4>1
    <3> QED  BY <1>2, <3>1, <3>2
  <2> QED  BY <1>1, <2>1, BeginPc
<1>3. CASE UpdateRead(r)
  <2>1. \E o, w, rs, b : \E i \in Live : Begin(r, Pending(o, "update", i, w, rs, b))
    BY <1>3 DEF UpdateRead
  <2> QED  BY <1>1, <2>1, BeginPc DEF Known
<1>4. CASE UpdateProfileRead(r)
  <2>1. \E o, w, rs, b : \E i \in Live : Begin(r, Pending(o, "update", i, w, rs, b))
    BY <1>4 DEF UpdateProfileRead
  <2> QED  BY <1>1, <2>1, BeginPc DEF Known
<1>5. CASE ResetRequestRead(r)
  <2>1. \E o, w, rs, b : \E i \in Live : Begin(r, Pending(o, "update", i, w, rs, b))
    BY <1>5 DEF ResetRequestRead
  <2> QED  BY <1>1, <2>1, BeginPc DEF Known
<1>6. CASE ResetProcessRead(r)
  <2>1. \E o, w, rs, b : \E i \in Live : Begin(r, Pending(o, "update", i, w, rs, b))
    BY <1>6 DEF ResetProcessRead
  <2> QED  BY <1>1, <2>1, BeginPc DEF Known
<1>7. CASE ChangePasswordRead(r)
  <2>1. \E o, w, rs, b : \E i \in Live :
           Begin(r, Pending(o, "setPassword", i, w, rs, b))
    BY <1>7 DEF ChangePasswordRead
  <2> QED  BY <1>1, <2>1, BeginPc DEF Known
<1>8. CASE RemoveBegin(r)
  <2>1. \E o, i, w, rs, b : Begin(r, Pending(o, "find", i, w, rs, b))
    BY <1>8 DEF RemoveBegin
  <2> QED  BY <1>1, <2>1, BeginPc
<1> QED  BY <1>2, <1>3, <1>4, <1>5, <1>6, <1>7, <1>8 DEF Start

\* A step that ends the request or moves it to its roles.
LEMMA ProceedSlot ==
    ASSUME TypeInv, NEW r \in Requests, NEW s \in {"addRole", "clearRoles"},
           Proceed(r, s)
    PROVE  IF req[r].roles = {} THEN req'[r].pc = "idle"
           ELSE /\ req'[r].pc = s /\ req'[r].id = req[r].id
                /\ req'[r].roles = req[r].roles
BY FreeType DEF Proceed, Finish, TypeInv, TypeOK, Request

\* One step per action.
LEMMA RolesStep == TypeInv /\ IdInv /\ RolesInv /\ [Next]_vars => RolesInv'
<1> SUFFICES ASSUME TypeInv, IdInv, RolesInv, [Next]_vars PROVE RolesInv'
  OBVIOUS
<1>0. Known \subseteq Known'
  BY KnownGrows
<1>1. ASSUME NEW r \in Requests, Start(r) PROVE RolesInv'
  <2>1. UNCHANGED <<usersRoles, given>>
    BY <1>1 DEF Start, RegisterRead, CreateRead, UpdateRead, UpdateProfileRead,
       ResetRequestRead, ResetProcessRead, ChangePasswordRead, RemoveBegin, tables
  <2>2. \A s \in Requests \ {r} : req'[s] = req[s]
    BY <1>1, OtherSlots
  <2> QED  BY <1>0, <1>1, <2>1, <2>2, BeganKnown, RolesFrame
<1>2. ASSUME NEW r \in Requests, CheckCode(r) PROVE RolesInv'
  <2>1. \A s \in Requests \ {r} : req'[s] = req[s]
    BY <1>2, OtherSlots DEF Advance
  <2> QED  BY <1>0, <1>2, <2>1, CheckCodeSlot, RolesFrame
           DEF CheckCode, At, tables, Inserting
<1>3. ASSUME NEW r \in Requests, Insert(r) PROVE RolesInv'
  <2>0. PICK i \in Ids : i = req[r].id
    BY <1>3 DEF Insert, At, TypeInv, Shape
  <2> USE <2>0
  <2>1. \A s \in Requests \ {r} : req'[s] = req[s]
    BY <1>3, OtherSlots DEF Advance
  <2>2. /\ req[r].pc = "insert" /\ i \in Ids /\ usersRoles' = usersRoles
        /\ i \notin Known
    BY <1>3 DEF Insert, At, TypeInv, Shape, IdInv, Inserting, Known
  <2>3. CASE Finish(r) /\ UNCHANGED <<users, given>>
    <3>1. req'[r].pc = "idle"
      BY <2>3, FreeType DEF Finish, TypeInv, TypeOK
    <3> QED  BY <1>0, <2>1, <2>2, <2>3, <3>1, RolesFrame
  <2>4. CASE /\ users' = [users EXCEPT ![i] = req[r].row]
             /\ given' = [given EXCEPT ![i] = {req[r].roles}]
             /\ Proceed(r, "addRole")
    <3>1. usersRoles[i] = {} /\ \A s \in Requests \ {r} : s \notin Storing(i)
      BY <2>2 DEF RolesInv, Storing, Inserting
    <3>2. i \in Known'
      BY <1>3, <2>2, <2>4, NullAssumption
         DEF Insert, At, TypeInv, TypeOK, Shape, Known, Live
    <3>3. IF req[r].roles = {} THEN req'[r].pc = "idle"
          ELSE /\ req'[r].pc = "addRole" /\ req'[r].id = i
               /\ req'[r].roles = req[r].roles
      BY <2>4, ProceedSlot
    <3>4. /\ given'[i] = {req[r].roles}
          /\ \A j \in Ids \ {i} : given'[j] = given[j]
      BY <2>2, <2>4 DEF TypeInv, TypeOK
    <3>5. Storing(i)' = IF req[r].roles = {} THEN {} ELSE {r}
      BY <2>1, <3>1, <3>3 DEF Storing
    <3>6. \A j \in Ids \ {i} : Storing(j)' = Storing(j) /\ r \notin Storing(j)
      BY <2>1, <2>2, <3>3 DEF Storing
    <3>7. \A list \in given'[i] :
             /\ Storing(i)' = {} => usersRoles'[i] = list
             /\ \A s \in Storing(i)' : /\ req'[s].roles \subseteq list
                                       /\ usersRoles'[i] = list \ req'[s].roles
                                       /\ Storing(i)' = {s}
      BY <2>2, <3>1, <3>3, <3>4, <3>5
    <3>8. \A j \in Ids \ {i} : \A list \in given'[j] :
             /\ Storing(j)' = {} => usersRoles'[j] = list
             /\ \A s \in Storing(j)' : /\ req'[s].roles \subseteq list
                                       /\ usersRoles'[j] = list \ req'[s].roles
                                       /\ Storing(j)' = {s}
      <4>1. \A j \in Ids \ {i} : \A s \in Storing(j) : req'[s] = req[s]
        BY <2>1, <3>6 DEF Storing
      <4> QED  BY <2>2, <3>4, <3>6, <4>1 DEF RolesInv
    <3>9. \A s \in Requests :
             req'[s].pc \notin Inserting \cup {"idle", "find"} => req'[s].id \in Known'
      BY <1>0, <2>1, <3>2, <3>3 DEF RolesInv
    <3> QED  BY <1>0, <2>2, <3>7, <3>8, <3>9 DEF RolesInv
  <2> QED  BY <1>3, <2>3, <2>4 DEF Insert
<1>4. ASSUME NEW r \in Requests, WriteRow(r) PROVE RolesInv'
  <2>1. \A s \in Requests \ {r} : req'[s] = req[s]
    BY <1>4, OtherSlots DEF Advance
  <2>2. req[r].pc = "update" /\ req[r].id \in Known /\ UNCHANGED <<usersRoles, given>>
    BY <1>4 DEF WriteRow, At, RolesInv, Inserting
  <2>3. \/ req'[r].pc = "idle"
        \/ req'[r].pc = "clearRoles" /\ req'[r].id = req[r].id
    <3>1. CASE Finish(r)
      BY <3>1, FreeType DEF Finish, TypeInv, TypeOK
    <3>2. CASE Proceed(r, "clearRoles")
      BY <3>2, ProceedSlot
    <3> QED  BY <1>4, <3>1, <3>2 DEF WriteRow
  <2> QED  BY <1>0, <2>1, <2>2, <2>3, RolesFrame
<1>5. ASSUME NEW r \in Requests, ClearRoles(r) PROVE RolesInv'
  <2>0. PICK i \in Ids : i = req[r].id
    BY <1>5 DEF ClearRoles, At, TypeInv, Shape
  <2> USE <2>0
  <2>1. \A s \in Requests \ {r} : req'[s] = req[s]
    BY <1>5, OtherSlots DEF Advance
  <2>2. /\ req[r].pc = "clearRoles" /\ i \in Ids /\ i \in Known
        /\ usersRoles' = [usersRoles EXCEPT ![i] = {}]
        /\ req' = [req EXCEPT ![r].pc = "addRole"]
    BY <1>5 DEF ClearRoles, At, TypeInv, Shape, RolesInv, Inserting
  <2>3. /\ req'[r].pc = "addRole" /\ req'[r].id = i
        /\ req'[r].roles = req[r].roles
    BY <2>2 DEF TypeInv, TypeOK, Request
  <2>4. /\ \A list \in given'[i] : list = req[r].roles /\ Storing(i) \subseteq {r}
        /\ \A j \in Ids \ {i} : given'[j] = given[j]
    <3>1. CASE Assigning(r, i)
      <4>1. given' = [given EXCEPT ![i] = {}]
        BY <1>5, <3>1, Zenon DEF ClearRoles
      <4> QED  BY <2>2, <4>1 DEF TypeInv, TypeOK
    <3>2. CASE ~Assigning(r, i)
      <4>1. given' = [given EXCEPT ![i] = {req[r].roles}]
        BY <1>5, <3>2, Zenon DEF ClearRoles
      <4>2. Storing(i) \subseteq {r}
        BY <3>2 DEF Assigning, At, Storing
      <4> QED  BY <2>2, <4>1, <4>2 DEF TypeInv, TypeOK
    <3> QED  BY <3>1, <3>2
  <2>5. r \in Storing(i)' /\ Storing(i)' \subseteq Storing(i) \cup {r}
    BY <2>1, <2>3 DEF Storing
  <2>6. \A j \in Ids \ {i} : Storing(j)' = Storing(j) /\ r \notin Storing(j)
    BY <2>1, <2>2, <2>3 DEF Storing
  <2>7. /\ usersRoles'[i] = {}
        /\ \A j \in Ids \ {i} : usersRoles'[j] = usersRoles[j]
    BY <2>2 DEF TypeInv, TypeOK
  <2>8. \A list \in given'[i] :
           /\ Storing(i)' = {} => usersRoles'[i] = list
           /\ \A s \in Storing(i)' : /\ req'[s].roles \subseteq list
                                     /\ usersRoles'[i] = list \ req'[s].roles
                                     /\ Storing(i)' = {s}
    <3>1. ASSUME NEW list \in given'[i]
          PROVE  Storing(i)' = {r} /\ list = req[r].roles
      BY <2>4, <2>5, <3>1
    <3> QED  BY <2>3, <2>7, <3>1
  <2>9. \A j \in Ids \ {i} : \A list \in given'[j] :
           /\ Storing(j)' = {} => usersRoles'[j] = list
           /\ \A s \in Storing(j)' : /\ req'[s].roles \subseteq list
                                     /\ usersRoles'[j] = list \ req'[s].roles
                                     /\ Storing(j)' = {s}
    <3>1. \A j \in Ids \ {i} : \A s \in Storing(j) : req'[s] = req[s]
      BY <2>1, <2>6 DEF Storing
    <3> QED  BY <2>4, <2>6, <2>7, <3>1 DEF RolesInv
  <2>10. \A s \in Requests :
            req'[s].pc \notin Inserting \cup {"idle", "find"} => req'[s].id \in Known'
    BY <1>0, <2>1, <2>2, <2>3 DEF RolesInv
  <2>11. \A j \in Ids \ Known' : usersRoles'[j] = {}
    BY <1>0, <2>2, <2>7 DEF RolesInv
  <2> QED  BY <2>8, <2>9, <2>10, <2>11 DEF RolesInv
<1>6. ASSUME NEW r \in Requests, AddRole(r) PROVE RolesInv'
  <2>0. PICK i \in Ids : i = req[r].id
    BY <1>6 DEF AddRole, At, TypeInv, Shape
  <2> USE <2>0
  <2>1. \A s \in Requests \ {r} : req'[s] = req[s]
    BY <1>6, OtherSlots DEF Advance
  <2>2. /\ req[r].pc = "addRole" /\ i \in Ids /\ i \in Known
        /\ given' = given /\ r \in Storing(i)
    BY <1>6 DEF AddRole, At, TypeInv, Shape, RolesInv, Inserting, Storing
  <2>3. PICK role \in req[r].roles :
           /\ usersRoles' = [usersRoles EXCEPT ![i] = @ \cup {role}]
           /\ IF req[r].roles \ {role} = {} THEN Finish(r)
              ELSE req' = [req EXCEPT ![r].roles = req[r].roles \ {role}]
    BY <1>6 DEF AddRole
  <2>4. /\ usersRoles'[i] = usersRoles[i] \cup {role}
        /\ \A j \in Ids \ {i} : usersRoles'[j] = usersRoles[j]
    BY <2>2, <2>3 DEF TypeInv, TypeOK
  <2>5. \/ req[r].roles = {role} /\ req'[r].pc = "idle"
        \/ /\ req'[r].pc = "addRole" /\ req'[r].id = i
           /\ req'[r].roles = req[r].roles \ {role}
    <3>1. CASE req[r].roles \ {role} = {}
      <4>1. req'[r].pc = "idle"
        BY <2>3, <3>1, FreeType DEF Finish, TypeInv, TypeOK
      <4> QED  BY <2>3, <3>1, <4>1
    <3>2. CASE req[r].roles \ {role} # {}
      <4>1. req' = [req EXCEPT ![r].roles = req[r].roles \ {role}]
        BY <2>3, <3>2
      <4> QED  BY <2>2, <4>1 DEF TypeInv, TypeOK, Request
    <3> QED  BY <3>1, <3>2
  <2>6. \A j \in Ids \ {i} : Storing(j)' = Storing(j) /\ r \notin Storing(j)
    BY <2>1, <2>2, <2>5 DEF Storing
  <2>7. ASSUME NEW list \in given'[i]
        PROVE  /\ Storing(i)' = {} => usersRoles'[i] = list
               /\ \A s \in Storing(i)' : /\ req'[s].roles \subseteq list
                                         /\ usersRoles'[i] = list \ req'[s].roles
                                         /\ Storing(i)' = {s}
    <3>1. /\ req[r].roles \subseteq list /\ usersRoles[i] = list \ req[r].roles
          /\ Storing(i) = {r}
      BY <2>2, <2>7 DEF RolesInv
    <3>2. Storing(i)' \subseteq {r}
      BY <2>1, <3>1 DEF Storing
    <3>3. CASE req[r].roles = {role} /\ req'[r].pc = "idle"
      <4>1. Storing(i)' = {}
        BY <3>2, <3>3 DEF Storing
      <4> QED  BY <2>4, <3>1, <3>3, <4>1
    <3>4. CASE /\ req'[r].pc = "addRole" /\ req'[r].id = i
               /\ req'[r].roles = req[r].roles \ {role}
      <4>1. Storing(i)' = {r}
        BY <3>2, <3>4 DEF Storing
      <4>2. usersRoles'[i] = list \ req'[r].roles
        BY <2>3, <2>4, <3>1, <3>4
      <4> QED  BY <3>1, <3>4, <4>1, <4>2
    <3> QED  BY <2>5, <3>3, <3>4
  <2>8. \A j \in Ids \ {i} : \A list \in given'[j] :
           /\ Storing(j)' = {} => usersRoles'[j] = list
           /\ \A s \in Storing(j)' : /\ req'[s].roles \subseteq list
                                     /\ usersRoles'[j] = list \ req'[s].roles
                                     /\ Storing(j)' = {s}
    <3>1. \A j \in Ids \ {i} : \A s \in Storing(j) : req'[s] = req[s]
      BY <2>1, <2>6 DEF Storing
    <3> QED  BY <2>2, <2>4, <2>6, <3>1 DEF RolesInv
  <2>9. \A s \in Requests :
           req'[s].pc \notin Inserting \cup {"idle", "find"} => req'[s].id \in Known'
    BY <1>0, <2>1, <2>2, <2>5 DEF RolesInv
  <2>10. \A j \in Ids \ Known' : usersRoles'[j] = {}
    BY <1>0, <2>2, <2>4 DEF RolesInv
  <2> QED  BY <2>7, <2>8, <2>9, <2>10 DEF RolesInv
<1>7. ASSUME NEW r \in Requests, SetPassword(r) PROVE RolesInv'
  <2>1. \A s \in Requests \ {r} : req'[s] = req[s]
    BY <1>7, OtherSlots DEF Advance
  <2>2. req'[r].pc = "idle"
    BY <1>7, FreeType DEF SetPassword, Finish, TypeInv, TypeOK
  <2> QED  BY <1>0, <1>7, <2>1, <2>2, RolesFrame DEF SetPassword, At
<1>8. ASSUME NEW r \in Requests, RemoveFind(r) PROVE RolesInv'
  <2>1. \A s \in Requests \ {r} : req'[s] = req[s]
    BY <1>8, OtherSlots DEF Advance
  <2>2. \/ req'[r].pc = "idle"
        \/ req'[r].pc = "delete" /\ req'[r].id \in Known
    <3>1. CASE Finish(r)
      BY <3>1, FreeType DEF Finish, TypeInv, TypeOK
    <3>2. ASSUME NEW i \in req[r].batch, users[i] # Null,
                 req' = [req EXCEPT ![r].id = i, ![r].pc = "delete"]
          PROVE  req'[r].pc = "delete" /\ req'[r].id \in Known
      BY <3>2 DEF TypeInv, TypeOK, Request, Known, Live
    <3> QED  BY <1>8, <3>1, <3>2 DEF RemoveFind
  <2> QED  BY <1>0, <1>8, <2>1, <2>2, RolesFrame DEF RemoveFind, At, tables
<1>9. ASSUME NEW r \in Requests, RemoveDelete(r) PROVE RolesInv'
  <2>1. \A s \in Requests \ {r} : req'[s] = req[s]
    BY <1>9, OtherSlots DEF Advance
  <2>2. req'[r].pc \in {"idle", "find"}
    BY <1>9, FreeType DEF RemoveDelete, Finish, TypeInv, TypeOK, Request
  <2> QED  BY <1>0, <1>9, <2>1, <2>2, RolesFrame DEF RemoveDelete, At
<1>10. ASSUME NEW r \in Requests, RequestFails(r) PROVE RolesInv'
  <2> DEFINE i == req[r].id
  <2>1. \A s \in Requests \ {r} : req'[s] = req[s]
    BY <1>10, OtherSlots
  <2>2. req'[r].pc = "idle" /\ usersRoles' = usersRoles
    BY <1>10, FreeType DEF RequestFails, Finish, TypeInv, TypeOK
  <2>3. CASE req[r].pc # "addRole"
    BY <1>0, <1>10, <2>1, <2>2, <2>3, RolesFrame DEF RequestFails, At
  <2>4. CASE req[r].pc = "addRole"
    <3>1. i \in Ids /\ given' = [given EXCEPT ![i] = {}]
      BY <1>10, <2>4 DEF RequestFails, At, TypeInv, Shape
    <3>2. given'[i] = {} /\ \A j \in Ids \ {i} : given'[j] = given[j]
      BY <3>1 DEF TypeInv, TypeOK
    <3>3. \A j \in Ids \ {i} : /\ Storing(j)' = Storing(j)
                               /\ \A s \in Storing(j) : req'[s] = req[s]
      BY <2>1, <2>2 DEF Storing
    <3>4. \A j \in Ids : \A list \in given'[j] :
             /\ Storing(j)' = {} => usersRoles'[j] = list
             /\ \A s \in Storing(j)' : /\ req'[s].roles \subseteq list
                                       /\ usersRoles'[j] = list \ req'[s].roles
                                       /\ Storing(j)' = {s}
      BY <2>2, <3>2, <3>3 DEF RolesInv
    <3>5. \A s \in Requests :
             req'[s].pc \notin Inserting \cup {"idle", "find"} => req'[s].id \in Known'
      BY <1>0, <2>1, <2>2 DEF RolesInv
    <3> QED  BY <1>0, <2>2, <3>4, <3>5 DEF RolesInv
  <2> QED  BY <2>3, <2>4
<1>11. CASE Tick \/ UNCHANGED vars
  BY <1>11 DEF Tick, vars, tables, history, RolesInv, Storing, Known, Live
<1> QED  BY <1>1, <1>2, <1>3, <1>4, <1>5, <1>6, <1>7, <1>8, <1>9, <1>10, <1>11
         DEF Next, Start, Advance

LEMMA RolesInit == Init => RolesInv
BY FreeType DEF Init, RolesInv, Storing, Known, Live

\* The roles of a user are the one list that the last save submitted, less what
\* it has still to insert, unless saves overlapped between their DELETE and
\* their last INSERT or one broke off there: for any number of requests.
THEOREM RolesStayOneList == Spec => []RolesAreOneList
<1>1. RolesInv => RolesAreOneList
  <2> SUFFICES ASSUME RolesInv, NEW i \in Ids, NEW list \in given[i]
               PROVE  \/ usersRoles[i] = list
                      \/ \E r \in Requests :
                            /\ At(r, "addRole") /\ req[r].id = i
                            /\ usersRoles[i] = list \ req[r].roles
    BY DEF RolesAreOneList
  <2>1. CASE Storing(i) = {}
    BY <2>1 DEF RolesInv
  <2>2. ASSUME NEW r \in Storing(i)
        PROVE  /\ r \in Requests /\ At(r, "addRole") /\ req[r].id = i
               /\ usersRoles[i] = list \ req[r].roles
    BY <2>2 DEF RolesInv, Storing, At
  <2> QED  BY <2>1, <2>2
<1> QED  BY <1>1, IdInvariant, RolesInit, RolesStep, PTL DEF Spec

-----------------------------------------------------------------------------
(* The refinement *)

\* The identity of a row, as UserStore sees it.
Identity(w) == IF w = Null THEN Null ELSE [email |-> w.email, code |-> w.code]

\* A step that changes no identity and retires nobody is a stutter of UserStore.
LEMMA SameIdentities ==
    ASSUME UNCHANGED retired,
           \A i \in Ids : Identity(users'[i]) = Identity(users[i])
    PROVE  UNCHANGED Store!vars
BY DEF Store!vars, Identity

\* Every step of Accounts is a step of UserStore or a stutter.
LEMMA StoreStep == TypeInv /\ IdInv /\ [Next]_vars => [Store!Next]_(Store!vars)
<1> SUFFICES ASSUME TypeInv, IdInv, [Next]_vars PROVE [Store!Next]_(Store!vars)
  OBVIOUS
<1> DEFINE account == [i \in Ids |-> IF users[i] = Null THEN Null
                        ELSE [email |-> users[i].email, code |-> users[i].code]]
<1>0. \A w \in Columns : /\ Identity(w) \in Store!Identity /\ Identity(w) # Null
                         /\ Identity(w).email = w.email
                         /\ Identity(w).code = w.code
  BY NullAssumption DEF Identity, Columns, Store!Identity
<1>1. ASSUME NEW r \in Requests, Insert(r) PROVE [Store!Next]_(Store!vars)
  <2>0. PICK i \in Ids, w \in Columns : i = req[r].id /\ w = req[r].row
    BY <1>1 DEF Insert, At, TypeInv, Shape
  <2>1. /\ w # Null
        /\ users[i] = Null /\ i \notin retired /\ retired' = retired
    BY <1>1, <2>0, NullAssumption
       DEF Insert, At, TypeInv, Shape, IdInv, Inserting, history, Live
  <2>2. CASE UNCHANGED users
    BY <2>1, <2>2, SameIdentities
  <2>3. CASE UniqueIndexesAllow(i, w) /\ users' = [users EXCEPT ![i] = w]
    <3>1. Store!Open(i, Identity(w))
      <4>1. account[i] = Null
        BY <2>1
      <4>2. Store!Unclaimed(i, Identity(w))
        BY <1>0, <2>1, <2>3 DEF Store!Unclaimed, UniqueIndexesAllow, Live
      <4>3. account' = [account EXCEPT ![i] = Identity(w)]
        BY <2>1, <2>3 DEF Identity, TypeInv, TypeOK
      <4> QED  BY <2>1, <4>1, <4>2, <4>3 DEF Store!Open
    <3> QED  BY <1>0, <2>1, <3>1 DEF Store!Next
  <2> QED  BY <1>1, <2>0, <2>2, <2>3 DEF Insert
<1>2. ASSUME NEW r \in Requests, WriteRow(r) PROVE [Store!Next]_(Store!vars)
  <2>0. PICK i \in Ids, w \in Columns : i = req[r].id /\ w = req[r].row
    BY <1>2 DEF WriteRow, At, TypeInv, Shape
  <2>1. retired' = retired
    BY <1>2 DEF WriteRow
  <2>2. CASE UNCHANGED users
    BY <2>1, <2>2, SameIdentities
  <2>3. CASE /\ users[i] # Null /\ UniqueIndexesAllow(i, w)
             /\ users' = [users EXCEPT ![i] = Overwrite(users[i], w)]
    <3>1. /\ Overwrite(users[i], w) \in Columns
          /\ Identity(Overwrite(users[i], w)) = Identity(w)
      BY <2>1, <2>3, OverwriteType, NullAssumption DEF Identity, TypeInv, TypeOK
    <3>2. Store!Rename(i, Identity(w))
      <4>1. account[i] # Null
        BY <2>1, <2>3, NullAssumption DEF TypeInv, TypeOK, Columns
      <4>2. Store!Unclaimed(i, Identity(w))
        BY <1>0, <2>1, <2>3 DEF Store!Unclaimed, UniqueIndexesAllow, Live
      <4>3. account' = [account EXCEPT ![i] = Identity(w)]
        BY <2>1, <2>3, <3>1 DEF Identity, TypeInv, TypeOK
      <4> QED  BY <2>1, <4>1, <4>2, <4>3 DEF Store!Rename
    <3> QED  BY <1>0, <2>1, <3>2 DEF Store!Next
  <2> QED  BY <1>2, <2>0, <2>2, <2>3 DEF WriteRow
<1>3. ASSUME NEW r \in Requests, SetPassword(r) PROVE [Store!Next]_(Store!vars)
  <2> DEFINE i == req[r].id
  <2>1. i \in Ids /\ req[r].row \in Columns /\ retired' = retired
    BY <1>3 DEF SetPassword, At, TypeInv, Shape, history
  <2>2. users[i] # Null =>
           Identity([users[i] EXCEPT !.password = req[r].row.password])
             = Identity(users[i])
    <3> DEFINE w == [users[i] EXCEPT !.password = req[r].row.password]
    <3>1. users[i] # Null => w \in Columns /\ w.email = users[i].email
                             /\ w.code = users[i].code
      BY <2>1 DEF Columns, TypeInv, TypeOK
    <3> QED  BY <3>1, NullAssumption DEF Identity
  <2>3. \A j \in Ids : Identity(users'[j]) = Identity(users[j])
    BY <1>3, <2>1, <2>2 DEF SetPassword, TypeInv, TypeOK
  <2> QED  BY <2>1, <2>3, SameIdentities
<1>4. ASSUME NEW r \in Requests, RemoveDelete(r) PROVE [Store!Next]_(Store!vars)
  <2>0. PICK i \in Ids : i = req[r].id
    BY <1>4 DEF RemoveDelete, At, TypeInv, Shape
  <2>1. /\ users' = [users EXCEPT ![i] = Null]
        /\ retired' = IF users[i] = Null THEN retired ELSE retired \cup {i}
    BY <1>4, <2>0 DEF RemoveDelete
  <2>2. CASE users[i] = Null
    BY <2>1, <2>2, SameIdentities DEF TypeInv, TypeOK
  <2>3. CASE users[i] # Null
    <3>1. account[i] # Null
      BY <2>1, <2>3, NullAssumption DEF TypeInv, TypeOK, Columns
    <3>2. account' = [account EXCEPT ![i] = Null]
      BY <2>1 DEF TypeInv, TypeOK
    <3>3. Store!Close(i)
      BY <2>1, <2>3, <3>1, <3>2 DEF Store!Close
    <3> QED  BY <2>1, <3>3 DEF Store!Next
  <2> QED  BY <2>2, <2>3
<1>5. ASSUME NEW r \in Requests,
             \/ Start(r) \/ CheckCode(r) \/ ClearRoles(r) \/ AddRole(r)
             \/ RemoveFind(r) \/ RequestFails(r)
      PROVE  [Store!Next]_(Store!vars)
  BY <1>5, UsersFrame, SameIdentities
<1>6. CASE Tick \/ UNCHANGED vars
  BY <1>6, SameIdentities DEF Tick, vars, tables, history
<1> QED  BY <1>1, <1>2, <1>3, <1>4, <1>5, <1>6 DEF Next, Advance

\* The users table keeps the promises of UserStore: ids name one account for
\* ever, identities are never shared, and deletion is final.
THEOREM RefinesUserStore == Spec => ImplementsUserStore
<1>1. Init => Store!Init
  BY DEF Init, Store!Init
<1> QED  BY <1>1, StoreStep, IdInvariant, PTL DEF Spec, ImplementsUserStore, Store!Spec

-----------------------------------------------------------------------------
(* The refinement of Standing *)

\* What login makes of row w of an id that is retired or not.
Judged(w, gone) ==
    IF w = Null THEN IF gone THEN "removed" ELSE "none"
    ELSE IF Accepted(w) THEN "good" ELSE "refused"

\* The mapped variable, id by id.
StandingOf(i) == Judged(users[i], i \in retired)

\* A step that changes no standing and holds nobody is a stutter of Standing.
LEMMA SameStandings ==
    ASSUME UNCHANGED held, \A i \in Ids : StandingOf(i)' = StandingOf(i)
    PROVE  UNCHANGED Account!vars
BY DEF Account!vars, StandingOf, Judged

\* A step that changes the row of i alone changes the standing of i alone.
LEMMA OneStanding ==
    ASSUME NEW i \in Ids, NEW s, StandingOf(i)' = s,
           \A j \in Ids \ {i} : /\ users'[j] = users[j]
                                /\ j \in retired' <=> j \in retired
    PROVE  Account!Becomes(i, s)
BY DEF Account!Becomes, StandingOf, Judged

\* What the mapping makes of an id, for the guards of Standing's actions.
LEMMA MappedStanding ==
    ASSUME NEW i \in Ids
    PROVE  [j \in Ids |->
              IF users[j] = Null
              THEN IF j \in retired THEN "removed" ELSE "none"
              ELSE IF Accepted(users[j]) THEN "good" ELSE "refused"][i]
             = StandingOf(i)
BY DEF StandingOf, Judged

\* Writing a row over an existing one: login takes the account in, turns it
\* away, or is told to hold it, and a held account is never taken in.
LEMMA RewriteStanding ==
    ASSUME TypeInv, IdInv, HeldInv, NEW r \in Requests, WriteRow(r),
           users[req[r].id] # Null, ~UNCHANGED users
    PROVE  [Account!Next]_(Account!vars)
<1>1. PICK i \in Ids, w \in Columns : i = req[r].id /\ w = req[r].row
  BY DEF WriteRow, At, TypeInv, Shape
<1> DEFINE v == Overwrite(users[i], w)
<1>2. /\ users' = [users EXCEPT ![i] = v]
      /\ held' = IF req[r].op = "update" /\ w.blocked /\ OnlyWriter(r, i)
                 THEN held \cup {i} ELSE held
      /\ UNCHANGED retired
      /\ req[r].pc = "update"
  BY <1>1 DEF WriteRow, At
<1>3. v \in Columns /\ v # Null /\ v.blocked = w.blocked /\ v.blocked \in BOOLEAN
  BY <1>1, OverwriteType, NullAssumption DEF TypeInv, TypeOK, Columns
<1> HIDE DEF v
<1>4. users'[i] = v /\ \A j \in Ids \ {i} : users'[j] = users[j]
  BY <1>2 DEF TypeInv, TypeOK
<1>5. StandingOf(i) \in {"good", "refused"}
  BY <1>1 DEF StandingOf, Judged
<1>6. StandingOf(i)' = IF Accepted(v) THEN "good" ELSE "refused"
  BY <1>3, <1>4 DEF StandingOf, Judged
<1>7. i \in held => w.blocked /\ StandingOf(i) = "refused"
  BY <1>1, <1>2 DEF HeldInv, UncontendedBlockHolds, StandingOf, Judged, Accepted
<1>8. w.blocked => StandingOf(i)' = "refused"
  BY <1>3, <1>6 DEF Accepted
<1>9. \A s : StandingOf(i)' = s => Account!Becomes(i, s)
  BY <1>2, <1>4, OneStanding
<1>10. CASE StandingOf(i)' = StandingOf(i)
  <2>1. \A j \in Ids : StandingOf(j)' = StandingOf(j)
    BY <1>2, <1>4, <1>10 DEF StandingOf
  <2>2. CASE held' = held
    BY <2>1, <2>2, SameStandings
  <2>3. CASE held' = held \cup {i} /\ w.blocked
    <3>1. StandingOf(i) = "refused"
      BY <1>8, <1>10, <2>3
    <3>2. Account!Hold(i)
      BY <2>1, <2>3, <3>1, MappedStanding DEF Account!Hold, StandingOf, Judged
    <3> QED  BY <3>2 DEF Account!Next
  <2> QED  BY <1>2, <2>2, <2>3
<1>11. CASE StandingOf(i)' = "good" /\ StandingOf(i) = "refused"
  <2>1. i \notin held /\ held' = held
    BY <1>2, <1>7, <1>8, <1>11
  <2>2. Account!Becomes(i, "good")
    BY <1>9, <1>11
  <2>3. Account!Allow(i)
    BY <1>11, <2>1, <2>2, MappedStanding DEF Account!Allow
  <2> QED  BY <2>3 DEF Account!Next
<1>12. CASE StandingOf(i)' = "refused" /\ StandingOf(i) = "good"
  <2>1. Account!Becomes(i, "refused")
    BY <1>9, <1>12
  <2>2. held' \in {held, held \cup {i}}
    BY <1>2
  <2>3. Account!Bar(i)
    BY <1>12, <2>1, <2>2, MappedStanding DEF Account!Bar
  <2> QED  BY <2>3 DEF Account!Next
<1> QED  BY <1>5, <1>6, <1>10, <1>11, <1>12

\* Every step of Accounts is a step of Standing or a stutter.
LEMMA StandingStep ==
    TypeInv /\ IdInv /\ HeldInv /\ [Next]_vars => [Account!Next]_(Account!vars)
<1> SUFFICES ASSUME TypeInv, IdInv, HeldInv, [Next]_vars
             PROVE  [Account!Next]_(Account!vars)
  OBVIOUS
<1>1. ASSUME NEW r \in Requests, Insert(r) PROVE [Account!Next]_(Account!vars)
  <2>0. PICK i \in Ids, w \in Columns : i = req[r].id /\ w = req[r].row
    BY <1>1 DEF Insert, At, TypeInv, Shape
  <2>1. /\ w # Null
        /\ users[i] = Null /\ i \notin retired /\ UNCHANGED <<retired, held>>
    BY <1>1, <2>0, NullAssumption
       DEF Insert, At, TypeInv, Shape, IdInv, Inserting, history, Live
  <2>2. CASE UNCHANGED users
    BY <2>1, <2>2, SameStandings DEF StandingOf
  <2>3. CASE users' = [users EXCEPT ![i] = w]
    <3>1. users'[i] = w /\ \A j \in Ids \ {i} : users'[j] = users[j]
      BY <2>3 DEF TypeInv, TypeOK
    <3>2. StandingOf(i) = "none" /\ StandingOf(i)' \in {"good", "refused"}
      BY <2>1, <3>1 DEF StandingOf, Judged
    <3>3. Account!Becomes(i, "good") \/ Account!Becomes(i, "refused")
      BY <2>1, <3>1, <3>2, OneStanding
    <3>4. Account!Enroll(i)
      BY <2>1, <3>2, <3>3, MappedStanding DEF Account!Enroll
    <3> QED  BY <3>4 DEF Account!Next
  <2> QED  BY <1>1, <2>0, <2>2, <2>3 DEF Insert
<1>2. ASSUME NEW r \in Requests, WriteRow(r) PROVE [Account!Next]_(Account!vars)
  <2>1. CASE UNCHANGED <<users, held>>
    <3>1. UNCHANGED retired
      BY <1>2 DEF WriteRow
    <3> QED  BY <2>1, <3>1, SameStandings DEF StandingOf
  <2>2. CASE users[req[r].id] # Null /\ ~UNCHANGED users
    BY <1>2, <2>2, RewriteStanding
  <2>3. CASE UNCHANGED users /\ ~UNCHANGED held
    <3>1. PICK i \in Ids, w \in Columns : i = req[r].id /\ w = req[r].row
      BY <1>2 DEF WriteRow, At, TypeInv, Shape
    <3>2. /\ w.blocked /\ users[i] # Null /\ held' = held \cup {i}
          /\ users' = [users EXCEPT ![i] = Overwrite(users[i], w)]
          /\ UNCHANGED retired
      BY <1>2, <2>3, <3>1 DEF WriteRow
    <3>3. users[i].blocked
      BY <2>3, <3>1, <3>2, OverwriteType DEF TypeInv, TypeOK
    <3>4. StandingOf(i) = "refused"
      BY <3>2, <3>3 DEF StandingOf, Judged, Accepted
    <3>5. Account!Hold(i)
      BY <2>3, <3>2, <3>4, MappedStanding DEF Account!Hold
    <3> QED  BY <3>5 DEF Account!Next
  <2> QED  BY <1>2, <2>1, <2>2, <2>3 DEF WriteRow
<1>3. ASSUME NEW r \in Requests, SetPassword(r) PROVE [Account!Next]_(Account!vars)
  <2> DEFINE i == req[r].id
  <2>1. i \in Ids /\ req[r].row \in Columns /\ UNCHANGED <<retired, held>>
    BY <1>3 DEF SetPassword, At, TypeInv, Shape, history
  <2>2. users[i] # Null =>
           /\ [users[i] EXCEPT !.password = req[r].row.password] # Null
           /\ Accepted([users[i] EXCEPT !.password = req[r].row.password])
                <=> Accepted(users[i])
    <3> DEFINE w == [users[i] EXCEPT !.password = req[r].row.password]
    <3>1. users[i] # Null => w \in Columns /\ w.status = users[i].status
                             /\ w.blocked = users[i].blocked
      BY <2>1 DEF Columns, TypeInv, TypeOK
    <3> QED  BY <3>1, NullAssumption DEF Accepted
  <2>3. \A j \in Ids : StandingOf(j)' = StandingOf(j)
    BY <1>3, <2>1, <2>2 DEF SetPassword, StandingOf, Judged, TypeInv, TypeOK
  <2> QED  BY <2>1, <2>3, SameStandings
<1>4. ASSUME NEW r \in Requests, RemoveDelete(r) PROVE [Account!Next]_(Account!vars)
  <2>0. PICK i \in Ids : i = req[r].id
    BY <1>4 DEF RemoveDelete, At, TypeInv, Shape
  <2>1. /\ users' = [users EXCEPT ![i] = Null]
        /\ retired' = IF users[i] = Null THEN retired ELSE retired \cup {i}
        /\ UNCHANGED held
    BY <1>4, <2>0 DEF RemoveDelete
  <2>2. CASE users[i] = Null
    BY <2>1, <2>2, SameStandings DEF StandingOf, TypeInv, TypeOK
  <2>3. CASE users[i] # Null
    <3>1. /\ users'[i] = Null /\ i \in retired'
          /\ \A j \in Ids \ {i} : users'[j] = users[j] /\ (j \in retired' <=> j \in retired)
      BY <2>1, <2>3 DEF TypeInv, TypeOK
    <3>2. StandingOf(i) \in {"good", "refused"} /\ StandingOf(i)' = "removed"
      BY <2>3, <3>1 DEF StandingOf, Judged
    <3>3. Account!Becomes(i, "removed")
      BY <3>1, <3>2, OneStanding
    <3>4. Account!Remove(i)
      BY <2>1, <3>2, <3>3, MappedStanding DEF Account!Remove
    <3> QED  BY <3>4 DEF Account!Next
  <2> QED  BY <2>2, <2>3
<1>5. ASSUME NEW r \in Requests, UpdateRead(r) PROVE [Account!Next]_(Account!vars)
  <2>1. PICK i \in Live : held' = held \ {i}
    BY <1>5 DEF UpdateRead
  <2>2. UNCHANGED <<users, retired>> /\ i \in Ids /\ users[i] # Null
    BY <1>5 DEF UpdateRead, tables, Live
  <2>3. \A j \in Ids : StandingOf(j)' = StandingOf(j)
    BY <2>2 DEF StandingOf
  <2>4. CASE i \notin held
    BY <2>1, <2>3, <2>4, SameStandings
  <2>5. CASE i \in held
    <3>1. StandingOf(i) = "refused"
      BY <2>2, <2>5 DEF HeldInv, UncontendedBlockHolds, StandingOf, Judged, Accepted
    <3>2. Account!Release(i)
      BY <2>1, <2>2, <2>5, <3>1, MappedStanding DEF Account!Release
    <3> QED  BY <2>2, <3>2 DEF Account!Next
  <2> QED  BY <2>4, <2>5
<1>6. ASSUME NEW r \in Requests,
             \/ Start(r) /\ ~UpdateRead(r)
             \/ CheckCode(r) \/ ClearRoles(r) \/ AddRole(r)
             \/ RemoveFind(r) \/ RequestFails(r)
      PROVE  [Account!Next]_(Account!vars)
  <2>1. UNCHANGED <<users, retired>>
    BY <1>6, UsersFrame
  <2>2. UNCHANGED held
    BY <1>6 DEF Start, RegisterRead, CreateRead, UpdateProfileRead,
       ResetRequestRead, ResetProcessRead, ChangePasswordRead, RemoveBegin,
       CheckCode, ClearRoles, AddRole, RemoveFind, RequestFails, history
  <2> QED  BY <2>1, <2>2, SameStandings DEF StandingOf
<1>7. CASE Tick \/ UNCHANGED vars
  BY <1>7, SameStandings DEF Tick, vars, tables, history, StandingOf
<1> QED
  BY <1>1, <1>2, <1>3, <1>4, <1>5, <1>6, <1>7 DEF Next, Advance

\* To login, an account only ever moves as Standing says: a removed one never
\* gets back in, and neither does one whose block nobody contended, until an
\* admin opens its form again.
THEOREM RefinesStanding == Spec => ImplementsStanding
<1>1. Init => Account!Init
  BY DEF Init, Account!Init
<1> QED
  BY <1>1, StandingStep, IdInvariant, HeldInit, HeldStep, PTL
     DEF Spec, ImplementsStanding, Account!Spec
=============================================================================
