------------------------------ MODULE Accounts ------------------------------
(***************************************************************************)
(* The users and users_roles tables, and every service operation that      *)
(* writes them: AuthService::registerUser, requestPasswordReset and        *)
(* processPasswordReset, UserService::create, update, updateProfile,       *)
(* remove and changePassword.                                              *)
(*                                                                         *)
(* A handler is a coroutine: each co_await on the database is one step     *)
(* here, and between two steps of one request the steps of any other may   *)
(* run.  A row read by one statement is merged in memory and written back  *)
(* by a later one, as the ORM does it.  What a handler computes between    *)
(* two awaits is part of the step of the statement it follows.             *)
(***************************************************************************)
EXTENDS Naturals

CONSTANTS
    Ids,          \* user ids: fresh UUIDs in the code
    Emails, Codes, Passwords,
    Otps,         \* the codes generateOtp draws from
    Statuses,     \* the values the status field of a form offers
    Roles,        \* role ids a form can name
    Requests,     \* slots for requests in flight
    Null,         \* SQL NULL, an absent row, an empty form field
    OtpTtl,       \* otpExpiryMinutes, in ticks of the clock
    MaxClock      \* bound on the clock

Columns ==
    [email : Emails, code : Codes, password : Passwords,
     otp : Otps \cup {Null}, exp : Nat \cup {Null},
     status : Statuses \cup {"active"}, blocked : BOOLEAN]

ASSUME NullAssumption ==
    /\ Null \notin Ids \cup Emails \cup Codes \cup Passwords \cup Otps
    /\ Null \notin Statuses \cup Nat \cup Columns
    /\ Null \notin [email : Emails, code : Codes]

ASSUME BoundsAssumption ==
    /\ OtpTtl \in Nat /\ MaxClock \in Nat
    /\ "Active" \in Statuses

VARIABLES
    users,        \* users[i]: the row of user i, or Null
    usersRoles,   \* usersRoles[i]: the roles users_roles gives to id i
    given,        \* history: {the list of roles the last save of i stores}, {}
                  \* where two saves overlapped or one broke off
    req,          \* req[r]: the request in slot r
    clock,        \* the time the handlers read
    issued,       \* history: the pairs <<otp, exp>> ever issued to user i
    retired,      \* history: the ids whose row was deleted
    held          \* history: the ids blocked while no other write was pending

tables  == <<users, usersRoles, given>>
history == <<issued, retired, held>>
vars    == <<tables, req, clock, history>>

Operations == {"none", "register", "create", "update", "profile",
               "resetRequest", "reset", "password", "remove"}

\* The statement a request waits for; "idle" is a free slot.
Statements == {"idle", "checkCode", "insert", "addRole", "update", "clearRoles",
               "setPassword", "find", "delete"}

Request ==
    [op : Operations, pc : Statements, id : Ids \cup {Null},
     row : Columns \cup {Null},      \* the Users object the coroutine holds
     roles : SUBSET Roles,           \* role rows still to insert
     batch : SUBSET Ids]             \* users still to remove

Pending(o, s, i, w, rs, b) ==
    [op |-> o, pc |-> s, id |-> i, row |-> w, roles |-> rs, batch |-> b]

Free == Pending("none", "idle", Null, Null, {}, {})

TypeOK ==
    /\ users \in [Ids -> Columns \cup {Null}]
    /\ usersRoles \in [Ids -> SUBSET Roles]
    /\ given \in [Ids -> SUBSET (SUBSET Roles)]
    /\ req \in [Requests -> Request]
    /\ clock \in Nat
    /\ issued \in [Ids -> SUBSET (Otps \X Nat)]
    /\ retired \in SUBSET Ids
    /\ held \in SUBSET Ids

Init ==
    /\ users = [i \in Ids |-> Null]
    /\ usersRoles = [i \in Ids |-> {}]
    /\ given = [i \in Ids |-> {{}}]
    /\ req = [r \in Requests |-> Free]
    /\ clock = 0
    /\ issued = [i \in Ids |-> {}]
    /\ retired = {}
    /\ held = {}

-----------------------------------------------------------------------------
(* Tables *)

Live == {i \in Ids : users[i] # Null}

EmailTaken(e) == \E i \in Live : users[i].email = e
CodeTaken(c)  == \E i \in Live : users[i].code = c

\* Mutant: the migration without CREATE UNIQUE INDEX users__code.
NoCodeIndex(i, w) == \A j \in Live \ {i} : users[j].email # w.email

\* users__email and users__code: no other row has the email or the code of w.
UniqueIndexesAllow(i, w) ==
    \A j \in Live \ {i} : users[j].email # w.email /\ users[j].code # w.code

\* An id newUuid has never returned: no row has it, had it, or is about to.
FreshId(i) ==
    /\ i \notin Live \cup retired
    /\ \A r \in Requests : req[r].id # i

\* Mutant: empty form fields are stored like any other.
FilledAlways(field, column) == field

\* A form field left empty keeps the column it names.
Filled(field, column) == IF field = Null THEN column ELSE field

\* Mutant: password_otp_expires is missing from updateColumns.
OverwriteButExpiry(old, w) == [w EXCEPT !.otp = Filled(w.otp, old.otp),
                                        !.exp = Filled(old.exp, w.exp)]

\* UPDATE writes every column the object holds; a NULL one is left out of the
\* statement (Users::updateColumns), so it keeps its value in the table.
Overwrite(old, w) ==
    [w EXCEPT !.otp = Filled(w.otp, old.otp), !.exp = Filled(w.exp, old.exp)]

NewRow(e, c, p, s, b) ==
    [email |-> e, code |-> c, password |-> p, otp |-> Null, exp |-> Null,
     status |-> s, blocked |-> b]

-----------------------------------------------------------------------------
(* The request's control *)

Begin(r, p) == req[r].pc = "idle" /\ req' = [req EXCEPT ![r] = p]
At(r, s)    == req[r].pc = s
Finish(r)   == req' = [req EXCEPT ![r] = Free]

\* After the row is written, roles still to insert come next.
Proceed(r, s) ==
    IF req[r].roles = {} THEN Finish(r) ELSE req' = [req EXCEPT ![r].pc = s]

-----------------------------------------------------------------------------
(* First statement of each operation.  A request that is refused at once    *)
(* (conflict, not found, wrong OTP) changes nothing and is not a step.      *)

RegisterRead(r) ==
    /\ \E e \in Emails, c \in Codes, p \in Passwords, i \in Ids :
          /\ ~EmailTaken(e)
          /\ FreshId(i)
          /\ Begin(r, Pending("register", "insert", i,
                              NewRow(e, c, p, "active", FALSE), {}, {}))
    /\ UNCHANGED <<tables, clock, history>>

CreateRead(r) ==
    /\ \E e \in Emails, c \in Codes, p \in Passwords, i \in Ids,
          s \in Statuses, b \in BOOLEAN, rs \in SUBSET Roles :
          /\ ~EmailTaken(e)
          /\ FreshId(i)
          /\ Begin(r, Pending("create", "checkCode", i,
                              NewRow(e, c, p, s, b), rs, {}))
    /\ UNCHANGED <<tables, clock, history>>

CheckCode(r) ==
    /\ At(r, "checkCode")
    /\ IF CodeTaken(req[r].row.code) THEN Finish(r)
       ELSE req' = [req EXCEPT ![r].pc = "insert"]
    /\ UNCHANGED <<tables, clock, history>>

\* setBlocked is unconditional: a form without the box clears the column.
UpdateRead(r) ==
    /\ \E i \in Live, s \in Statuses \cup {Null}, b \in BOOLEAN,
          rs \in SUBSET Roles :
          /\ Begin(r, Pending("update", "update", i,
                    [users[i] EXCEPT !.status = Filled(s, @), !.blocked = b],
                    rs, {}))
          /\ held' = held \ {i}
    /\ UNCHANGED <<tables, clock, issued, retired>>

\* Mutant: updateProfile sets blocked from its form, as update does.
ProfileReadUnblocks(r) ==
    /\ \E i \in Live, e \in Emails :
          Begin(r, Pending("profile", "update", i,
                    [users[i] EXCEPT !.email = e, !.blocked = FALSE], {}, {}))
    /\ UNCHANGED <<tables, clock, history>>

\* ProfileController::update insists on the email; the rest may be empty.
UpdateProfileRead(r) ==
    /\ \E i \in Live, e \in Emails, c \in Codes \cup {Null},
          p \in Passwords \cup {Null}, s \in Statuses \cup {Null} :
          Begin(r, Pending("profile", "update", i,
                    [users[i] EXCEPT !.email = e, !.code = Filled(c, @),
                       !.password = Filled(p, @), !.status = Filled(s, @)],
                    {}, {}))
    /\ UNCHANGED <<tables, clock, history>>

ResetRequestRead(r) ==
    /\ \E i \in Live, o \in Otps :
          LET exp == clock + OtpTtl IN
          /\ Begin(r, Pending("resetRequest", "update", i,
                       [users[i] EXCEPT !.otp = o, !.exp = exp], {}, {}))
          /\ issued' = [issued EXCEPT ![i] = @ \cup {<<o, exp>>}]
    /\ UNCHANGED <<tables, clock, retired, held>>

ResetProcessRead(r) ==
    /\ \E i \in Live, o \in Otps, p \in Passwords :
          /\ users[i].otp = o
          /\ users[i].exp # Null
          /\ users[i].exp >= clock
          /\ Begin(r, Pending("reset", "update", i,
                       [users[i] EXCEPT !.password = p, !.otp = Null,
                                        !.exp = Null], {}, {}))
    /\ UNCHANGED <<tables, clock, history>>

ChangePasswordRead(r) ==
    /\ \E i \in Live, p \in Passwords, current \in Passwords :
          /\ users[i].password = current
          /\ Begin(r, Pending("password", "setPassword", i,
                       [users[i] EXCEPT !.password = p], {}, {}))
    /\ UNCHANGED <<tables, clock, history>>

\* usersDestroy names one user, usersDeleteSelected any number of them.
RemoveBegin(r) ==
    /\ \E b \in (SUBSET Ids) \ {{}} :
          Begin(r, Pending("remove", "find", Null, Null, {}, b))
    /\ UNCHANGED <<tables, clock, history>>

-----------------------------------------------------------------------------
(* Later statements *)

\* A racing insert of the same email or code makes this one throw.
Insert(r) ==
    /\ At(r, "insert")
    /\ LET i == req[r].id IN
       IF UniqueIndexesAllow(i, req[r].row)
       THEN /\ users' = [users EXCEPT ![i] = req[r].row]
            /\ given' = [given EXCEPT ![i] = {req[r].roles}]
            /\ Proceed(r, "addRole")
       ELSE Finish(r) /\ UNCHANGED <<users, given>>
    /\ UNCHANGED <<usersRoles, clock, history>>

\* No request but r holds a copy of row i to write back.
OnlyWriter(r, i) ==
    \A s \in Requests \ {r} : At(s, "update") => req[s].id # i

\* Mutant: the row is saved with INSERT OR REPLACE.
WriteRowUpserts(r) ==
    /\ At(r, "update")
    /\ UniqueIndexesAllow(req[r].id, req[r].row)
    /\ users' = [users EXCEPT ![req[r].id] = req[r].row]
    /\ Proceed(r, "clearRoles")
    /\ UNCHANGED <<usersRoles, given, clock, history>>

\* No row left to update is no error; a taken email or code is.
WriteRow(r) ==
    /\ At(r, "update")
    /\ LET i == req[r].id
           w == req[r].row IN
       \/ /\ users[i] = Null
          /\ Proceed(r, "clearRoles")
          /\ UNCHANGED <<users, held>>
       \/ /\ users[i] # Null
          /\ UniqueIndexesAllow(i, w)
          /\ users' = [users EXCEPT ![i] = Overwrite(@, w)]
          /\ Proceed(r, "clearRoles")
          /\ held' = IF req[r].op = "update" /\ w.blocked /\ OnlyWriter(r, i)
                     THEN held \cup {i} ELSE held
       \/ /\ users[i] # Null
          /\ ~UniqueIndexesAllow(i, w)
          /\ Finish(r)
          /\ UNCHANGED <<users, held>>
    /\ UNCHANGED <<usersRoles, given, clock, issued, retired>>

\* A request other than r is inserting roles of user i.
Assigning(r, i) == \E s \in Requests \ {r} : At(s, "addRole") /\ req[s].id = i

\* Mutant: the roles the user had stay beside those of the form.
ClearRolesSkipped(r) ==
    /\ At(r, "clearRoles")
    /\ given' = [given EXCEPT ![req[r].id] =
                   IF Assigning(r, req[r].id) THEN {} ELSE {req[r].roles}]
    /\ req' = [req EXCEPT ![r].pc = "addRole"]
    /\ UNCHANGED <<users, usersRoles, clock, history>>

ClearRoles(r) ==
    /\ At(r, "clearRoles")
    /\ LET i == req[r].id IN
       /\ usersRoles' = [usersRoles EXCEPT ![i] = {}]
       /\ given' = [given EXCEPT ![i] =
                      IF Assigning(r, i) THEN {} ELSE {req[r].roles}]
    /\ req' = [req EXCEPT ![r].pc = "addRole"]
    /\ UNCHANGED <<users, clock, history>>

\* INSERT OR IGNORE passes over a duplicate.  No connection sends PRAGMA
\* foreign_keys, so a user removed meanwhile is given roles like any other.
AddRole(r) ==
    /\ At(r, "addRole")
    /\ \E role \in req[r].roles :
          LET left == req[r].roles \ {role} IN
          /\ usersRoles' = [usersRoles EXCEPT ![req[r].id] = @ \cup {role}]
          /\ IF left = {} THEN Finish(r)
             ELSE req' = [req EXCEPT ![r].roles = left]
    /\ UNCHANGED <<users, given, clock, history>>

SetPassword(r) ==
    /\ At(r, "setPassword")
    /\ LET i == req[r].id IN
       users' = [users EXCEPT ![i] =
                   IF @ = Null THEN Null
                   ELSE [@ EXCEPT !.password = req[r].row.password]]
    /\ Finish(r)
    /\ UNCHANGED <<usersRoles, given, clock, history>>

\* Mutant: a user not found is tried again.
RemoveFindRetries(r) ==
    /\ At(r, "find")
    /\ \E i \in req[r].batch :
          req' = IF users[i] = Null THEN req
                 ELSE [req EXCEPT ![r].id = i, ![r].pc = "delete"]
    /\ UNCHANGED <<tables, clock, history>>

\* The first user not found ends the whole batch.
RemoveFind(r) ==
    /\ At(r, "find")
    /\ \E i \in req[r].batch :
          IF users[i] = Null THEN Finish(r)
          ELSE req' = [req EXCEPT ![r].id = i, ![r].pc = "delete"]
    /\ UNCHANGED <<tables, clock, history>>

\* Without foreign keys the rows of users_roles stay behind.
RemoveDelete(r) ==
    /\ At(r, "delete")
    /\ LET i == req[r].id
           left == req[r].batch \ {i} IN
       /\ users' = [users EXCEPT ![i] = Null]
       /\ retired' = IF users[i] = Null THEN retired ELSE retired \cup {i}
       /\ IF left = {} THEN Finish(r)
          ELSE req' = [req EXCEPT ![r].pc = "find", ![r].batch = left]
    /\ UNCHANGED <<usersRoles, given, clock, issued, held>>

\* A statement that throws unwinds the handler; what it wrote before stays.
RequestFails(r) ==
    /\ ~At(r, "idle")
    /\ Finish(r)
    /\ given' = IF At(r, "addRole") THEN [given EXCEPT ![req[r].id] = {}]
                ELSE given
    /\ UNCHANGED <<users, usersRoles, clock, history>>

Tick ==
    /\ clock < MaxClock
    /\ clock' = clock + 1
    /\ UNCHANGED <<tables, req, history>>

-----------------------------------------------------------------------------

Start(r) ==
    \/ RegisterRead(r) \/ CreateRead(r)
    \/ UpdateRead(r) \/ UpdateProfileRead(r)
    \/ ResetRequestRead(r) \/ ResetProcessRead(r)
    \/ ChangePasswordRead(r) \/ RemoveBegin(r)

Advance(r) ==
    \/ CheckCode(r) \/ Insert(r) \/ WriteRow(r)
    \/ ClearRoles(r) \/ AddRole(r) \/ SetPassword(r)
    \/ RemoveFind(r) \/ RemoveDelete(r)

Next ==
    \/ \E r \in Requests : Start(r) \/ Advance(r) \/ RequestFails(r)
    \/ Tick

Spec == Init /\ [][Next]_vars

\* The event loops resume every coroutine whose statement has completed.
FairSpec == Spec /\ \A r \in Requests : WF_vars(Advance(r))

-----------------------------------------------------------------------------
(* Properties *)

\* However creations, registrations and profile edits race, the table never
\* holds two accounts with one email or one code (AuthService.cc:79-82 and
\* UserService.cc:75-85 check before an await; only the indexes decide).
IdentityUnique ==
    \A i, j \in Live :
        i # j => users[i].email # users[j].email /\ users[i].code # users[j].code

\* A deleted account never comes back, although a request that read its row
\* before the deletion still writes it after (UserService.cc:119-134).
NoResurrection ==
    [][\A i \in Ids : i \in retired => users'[i] = Null]_vars

\* An OTP in the table, or in a row about to be written there, is stored with
\* the expiry it was issued with, and none outlives OtpTtl: concurrent reset
\* requests and stale row writes never pair one request's code with another's
\* expiry (AuthService.cc:113-119).
OtpSound ==
    /\ \A i \in Live :
          users[i].otp # Null => <<users[i].otp, users[i].exp>> \in issued[i]
    /\ \A i \in Ids : \A p \in issued[i] : p[2] <= clock + OtpTtl

\* An account an admin blocked while no other request held its row stays
\* blocked until an admin edits it again, whatever its owner does meanwhile:
\* no profile edit or password reset that starts later can lift the block
\* (UserService.cc:150-176, AuthService.cc:129-156).
UncontendedBlockHolds ==
    \A i \in held : users[i] # Null => users[i].blocked

\* A user's roles are never a mixture of two lists unless the saves themselves
\* overlapped between their DELETE and their last INSERT, or one broke off
\* there: whatever else is created, edited and removed meanwhile, the user
\* holds what the last save submitted, less what it has still to insert
\* (UserService.cc:102-109 and 136-145, which use no transaction).
RolesAreOneList ==
    \A i \in Ids : \A list \in given[i] :
        \/ usersRoles[i] = list
        \/ \E r \in Requests :
              /\ At(r, "addRole") /\ req[r].id = i
              /\ usersRoles[i] = list \ req[r].roles

\* Every request that started is answered.
RequestsFinish ==
    \A r \in Requests : ~At(r, "idle") ~> At(r, "idle")

\* The users table implements the abstract UserStore.
Store == INSTANCE UserStore WITH
    Absent  <- Null,
    account <- [i \in Ids |-> IF users[i] = Null THEN Null
                 ELSE [email |-> users[i].email, code |-> users[i].code]]

ImplementsUserStore == Store!Spec

\* AuthService::login accepts the row (AuthService.cc:65-69).
Accepted(w) == w.status = "Active" /\ ~w.blocked

\* Whatever requests race, an account moves from one standing to another the
\* way Standing says: enrolled once, removed for good, and never accepted by
\* login again while a block that nobody contended is in force.
Account == INSTANCE Standing WITH
    Users    <- Ids,
    standing <- [i \in Ids |->
                   IF users[i] = Null
                   THEN IF i \in retired THEN "removed" ELSE "none"
                   ELSE IF Accepted(users[i]) THEN "good" ELSE "refused"]

ImplementsStanding == Account!Spec

\* The profile form "does not touch roles/blocked"
\* (ProfileController.cc:46-47): only an admin update changes the bit.
OnlyAdminChangesBlocked ==
    [][\A i \in Live : users'[i] # Null /\ users'[i].blocked # users[i].blocked =>
          \E r \in Requests : req[r].op = "update" /\ req[r].id = i /\ req'[r] # req[r]]_vars
=============================================================================
