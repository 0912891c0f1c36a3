------------------------------ MODULE Uploads ------------------------------
(***************************************************************************)
(* Pictures and media: the forms that take files (usersStore, usersUpdate, *)
(* the profile, the settings), upload::imageIfAny, storage::save, remove   *)
(* and url for the local and the remote drivers, the media dialog and      *)
(* StorageController::serve.                                               *)
(*                                                                         *)
(* A handler saves the files first and writes the row that names them      *)
(* last, with awaits in between; nothing removes a file a row no longer    *)
(* names.  A key is the prefix of its field and the tick of the clock it   *)
(* was made in: the random part is seeded with that same tick.             *)
(***************************************************************************)
EXTENDS Naturals, Sequences

CONSTANTS
    Null,
    Requests,     \* slots for requests in flight
    UrlTtl,       \* how long a signed URL is good, in ticks (6 hours)
    MaxTick,      \* bounds the clock
    MaxForms      \* bounds the forms submitted

\* What may name a picture: two users and two of the settings' three images.
Fields == {"u1", "u2", "logo", "favicon"}

VARIABLES
    driver,    \* "local" or "remote"; Null before the server starts
    store,     \* the objects: key |-> the field it was uploaded for, or "cut"
    row,       \* the key each field holds in its row, or Null
    job,       \* the uploads in flight
    now,       \* the clock
    full,      \* the local disk is full
    page,      \* a picture on an open page: the key its URL names, until when
    forms,     \* how many forms were submitted
    used,      \* history: the prefixes and ticks uploads were named from,
    clash      \* and whether two shared both

vars == <<driver, store, row, job, now, full, page, forms, used, clash>>

\* The files of a form still to save, each with its prefix; what was saved.
Idle == [pc |-> "idle", todo |-> <<>>, key |-> Null, got |-> [f \in Fields |-> Null]]

At(r, p) == job[r].pc = p
Step(r, s) == job' = [job EXCEPT ![r] = s]

Init ==
    /\ driver = Null
    /\ store = <<>> /\ row = [f \in Fields |-> Null]
    /\ job = [r \in Requests |-> Idle]
    /\ now = 0 /\ full = FALSE /\ page = Null /\ forms = 0 /\ used = {} /\ clash = FALSE

Configure ==
    /\ driver = Null /\ driver' \in {"local", "remote"}
    /\ UNCHANGED <<store, row, job, now, full, page, forms, used, clash>>

-----------------------------------------------------------------------------
(* The forms *)

Submit(r, files) ==
    /\ driver # Null /\ At(r, "idle")
    /\ forms < MaxForms /\ forms' = forms + 1
    /\ Step(r, [Idle EXCEPT !.pc = "read", !.todo = files])
    /\ UNCHANGED <<driver, store, row, now, full, page, used, clash>>

File(f, prefix) == [field |-> f, prefix |-> prefix]

UsersUpdate(r) == \E u \in {"u1", "u2"} : Submit(r, <<File(u, "avatars/")>>)
ProfileUpdate(r) == Submit(r, <<File("u1", "avatars/u1-")>>)
SettingUpdate(r) ==
    Submit(r, <<File("logo", "settings/logo-"), File("favicon", "settings/favicon-")>>)
MediaUpload(r) == Submit(r, <<File("editor", "editor/")>>)

\* imageIfAny with an input left empty: no file, and the field is skipped.
NoFile(r) ==
    /\ At(r, "read") /\ job[r].todo # <<>>
    /\ Head(job[r].todo).field # "editor"
    /\ Step(r, [job[r] EXCEPT !.todo = Tail(@)])
    /\ UNCHANGED <<driver, store, row, now, full, page, forms, used, clash>>

\* Mutant: the key is the prefix of the field alone.
KeyOfPrefix(file) == <<file.prefix, 0>>

KeyOf(file) == <<file.prefix, now>>

Draw(prefix) ==
    /\ clash' = (clash \/ <<prefix, now>> \in used)
    /\ used' = used \cup {<<prefix, now>>}

With(s, key, object) == [k \in DOMAIN s \cup {key} |-> IF k = key THEN object ELSE s[k]]

Saved(r, key) ==
    LET f == Head(job[r].todo).field
    IN  [job[r] EXCEPT !.pc = "read", !.todo = Tail(@), !.key = Null,
                       !.got = [g \in Fields |-> IF g = f THEN key ELSE @[g]]]

\* saveLocal opens, truncates and writes; what the disk does not take is not
\* noticed: only a file that cannot be opened throws.
SaveLocal(r) ==
    /\ At(r, "read") /\ job[r].todo # <<>> /\ driver = "local"
    /\ LET file == Head(job[r].todo)
       IN  /\ store' = With(store, KeyOf(file), IF full THEN "cut" ELSE file.field)
           /\ Draw(file.prefix)
           /\ Step(r, Saved(r, KeyOf(file)))
    /\ UNCHANGED <<driver, row, now, full, page, forms>>

\* A remote driver: a signed PUT is sent, the coroutine waits for the answer.
SendPut(r) ==
    /\ At(r, "read") /\ job[r].todo # <<>> /\ driver = "remote"
    /\ Step(r, [job[r] EXCEPT !.pc = "put", !.key = KeyOf(Head(job[r].todo))])
    /\ Draw(Head(job[r].todo).prefix)
    /\ UNCHANGED <<driver, store, row, now, full, page, forms>>

PutSucceeds(r) ==
    /\ At(r, "put")
    /\ store' = With(store, job[r].key, Head(job[r].todo).field)
    /\ Step(r, Saved(r, job[r].key))
    /\ UNCHANGED <<driver, row, now, full, page, forms, used, clash>>

\* An error or a lost answer throws, whether the object arrived or not.
PutFails(r) ==
    /\ At(r, "put")
    /\ store' \in {store, With(store, job[r].key, Head(job[r].todo).field)}
    /\ Step(r, Idle)
    /\ UNCHANGED <<driver, row, now, full, page, forms, used, clash>>

\* A file too large or of a type not allowed, a field refused, a statement
\* that throws: the handler ends, what it saved stays.
Refuse(r) ==
    /\ At(r, "read")
    /\ Step(r, Idle)
    /\ UNCHANGED <<driver, store, row, now, full, page, forms, used, clash>>

\* The service writes the row; a field without a new key keeps its picture.
WriteRow(r) ==
    /\ At(r, "read") /\ job[r].todo = <<>>
    /\ row' = [f \in Fields |-> IF job[r].got[f] # Null THEN job[r].got[f] ELSE row[f]]
    /\ Step(r, Idle)
    /\ UNCHANGED <<driver, store, now, full, page, forms, used, clash>>

-----------------------------------------------------------------------------
(* The media dialog, pages *)

\* Mutant: the prefix of the key is not looked at.
MayDestroyAny(key) == TRUE

MayDestroy(key) == key[1] = "editor/"

\* destroy: any key the client names, if it is one of the editor's.
MediaDestroy(key) ==
    /\ driver # Null /\ MayDestroy(key) /\ key \in DOMAIN store
    /\ store' = [k \in DOMAIN store \ {key} |-> store[k]]
    /\ UNCHANGED <<driver, row, job, now, full, page, forms, used, clash>>

\* presignS3 and presignOss: the signature covers the last moment it is good for.
presign(ttl) == now + ttl

\* A row holds a key; the URL is made when the page is rendered.
urlOf(key) ==
    [key |-> key, until |-> IF driver = "local" THEN MaxTick ELSE presign(UrlTtl),
     by |-> now + UrlTtl]

Render(f) ==
    /\ driver # Null /\ row[f] # Null
    /\ page' = urlOf(row[f])
    /\ UNCHANGED <<driver, store, row, job, now, full, forms, used, clash>>

\* StorageController::serve, or the remote host, which checks the signature.
Serves(url) == url.key \in DOMAIN store /\ now <= url.until

Close ==
    /\ page # Null /\ page' = Null
    /\ UNCHANGED <<driver, store, row, job, now, full, forms, used, clash>>

Tick ==
    /\ now < MaxTick /\ now' = now + 1
    /\ UNCHANGED <<driver, store, row, job, full, page, forms, used, clash>>

DiskFills ==
    /\ driver = "local" /\ ~full /\ full' = TRUE
    /\ UNCHANGED <<driver, store, row, job, now, page, forms, used, clash>>

Next ==
    \/ Configure \/ Close \/ Tick \/ DiskFills
    \/ \E r \in Requests :
           \/ UsersUpdate(r) \/ ProfileUpdate(r) \/ SettingUpdate(r) \/ MediaUpload(r)
           \/ NoFile(r) \/ SaveLocal(r) \/ SendPut(r) \/ PutSucceeds(r) \/ PutFails(r)
           \/ Refuse(r) \/ WriteRow(r)
    \/ \E k \in DOMAIN store : MediaDestroy(k)
    \/ \E f \in Fields : Render(f)

-----------------------------------------------------------------------------
Keys == {"avatars/", "avatars/u1-", "settings/logo-", "settings/favicon-", "editor/"}
            \X (0..MaxTick)

TypeOK ==
    /\ driver \in {"local", "remote", Null}
    /\ DOMAIN store \subseteq Keys
    /\ \A k \in DOMAIN store : store[k] \in Fields \cup {"editor", "cut"}
    /\ row \in [Fields -> Keys \cup {Null}]
    /\ \A r \in Requests : job[r].pc \in {"idle", "read", "put"}
    /\ now \in 0..MaxTick /\ full \in BOOLEAN

\* A row never names a picture that is not stored, whatever fails between the
\* upload and the row and whatever the media dialog removes; the file is whole
\* unless the local disk was full; and the pictures of an open page load for as
\* long as a signed URL is good.
PicturesAreStored ==
    /\ \A f \in Fields : row[f] # Null =>
           row[f] \in DOMAIN store /\ (store[row[f]] = "cut" => full)
    /\ page # Null /\ now <= page.by => Serves(page)

\* A picture is the one uploaded for its row, unless two uploads drew their
\* keys from one prefix in one tick of the clock.
PicturesAreTheirOwn ==
    \A f \in Fields : row[f] # Null =>
        clash \/ store[row[f]] \in {f, "cut"}
=============================================================================
