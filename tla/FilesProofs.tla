---------------------------- MODULE FilesProofs ----------------------------
(***************************************************************************)
(* Proofs about Uploads and FeCatalog, for any number of requests, forms   *)
(* and crashes: the pictures rows name are stored, whole and their own; a  *)
(* template file cut short is not taken for a whole one.  And about        *)
(* Bootstrap, for any number of migrations and of starts, each of which    *)
(* may be killed at any step: one JWT secret, no container that serves     *)
(* half set up, and rows that a start leaves alone.                        *)
(***************************************************************************)
EXTENDS MCPanel, SequenceTheorems, TLAPS

LEMMA UploadPart == [Next]_vars => [Upload!Next]_uploadVars
<1>1. CASE UNCHANGED vars
  BY <1>1 DEF vars
<1>2. CASE UploadSteps
  BY <1>2 DEF UploadSteps
<1>3. CASE Next /\ ~UploadSteps
  BY <1>3 DEF Next, RouteSteps, ListsSteps, StartSteps, TemplateSteps, RateSteps,
              TokenSteps, MessageSteps, BodySteps
<1> QED  BY <1>1, <1>2, <1>3

-----------------------------------------------------------------------------
(* Uploads *)

Prefixes == {"avatars/", "avatars/u1-", "settings/logo-", "settings/favicon-", "editor/"}
Keys == Prefixes \X (0..MaxTick)
Objects == Upload!Fields \cup {"editor", "cut"}

\* The editor's files, and they alone, have the editor's prefix.
Picks ==
    {pick \in [field : Upload!Fields \cup {"editor"}, prefix : Prefixes] :
        pick.field = "editor" <=> pick.prefix = "editor/"}

Jobs == [pc : {"idle", "read", "put"}, todo : Seq(Picks), key : Keys \cup {Null},
         got : [Upload!Fields -> Keys \cup {Null}]]

UploadTypes ==
    /\ driver \in {"local", "remote", Null}
    /\ DOMAIN store \subseteq Keys
    /\ \A k \in DOMAIN store : store[k] \in Objects
    /\ row \in [Upload!Fields -> Keys \cup {Null}]
    /\ job \in [Requests -> Jobs]
    /\ now \in 0..MaxTick /\ full \in BOOLEAN /\ clash \in BOOLEAN
    /\ used \subseteq Keys

\* A key that may stand in the row of field f: stored, out of the media
\* dialog's reach, and unless keys clashed the upload meant for f.
Good(k, f) ==
    k # Null =>
        /\ k \in DOMAIN store /\ k \in used /\ k[1] # "editor/"
        /\ store[k] = "cut" => full
        /\ clash \/ store[k] \in {f, "cut"}

Held ==
    \A f \in Upload!Fields : Good(row[f], f) /\ \A r \in Requests : Good(job[r].got[f], f)

\* An object on its way has a key that no row holds and no other upload has,
\* unless keys clashed.
OnItsWay ==
    \A r \in Requests : job[r].pc = "put" =>
        /\ job[r].todo # <<>> /\ job[r].key \in used
        /\ job[r].key[1] = Head(job[r].todo).prefix
        /\ \/ clash
           \/ /\ \A f \in Upload!Fields : row[f] # job[r].key
              /\ \A s \in Requests :
                    /\ \A f \in Upload!Fields : job[s].got[f] # job[r].key
                    /\ s # r /\ job[s].pc = "put" => job[s].key # job[r].key

\* The URL on an open page names a stored picture and is good for its time.
PageSound ==
    page # Null =>
        /\ page.key \in DOMAIN store /\ page.key[1] # "editor/"
        /\ page.by \in Nat /\ page.until \in {MaxTick, page.by}

UploadInv == UploadTypes /\ Held /\ OnItsWay /\ PageSound

LEMMA FilesLeft ==
    ASSUME NEW q \in Seq(Picks), q # <<>>
    PROVE  Head(q) \in Picks /\ Tail(q) \in Seq(Picks)
BY HeadTailProperties

LEMMA NoPicks == <<>> \in Seq(Picks) /\ Upload!Idle \in Jobs
                 /\ Upload!Idle.pc = "idle" /\ \A f \in Upload!Fields : Upload!Idle.got[f] = Null
<1>1. <<>> \in Seq(Picks)
  OBVIOUS
<1> QED  BY <1>1 DEF Upload!Idle, Jobs

LEMMA UploadInit == Upload!Init => UploadInv
<1> SUFFICES ASSUME Upload!Init PROVE UploadInv
  OBVIOUS
<1>1. now = 0 /\ now \in 0..MaxTick
  BY TickAssumption DEF Upload!Init
<1>2. UploadTypes
  <2>1. DOMAIN store = {}
    BY DEF Upload!Init
  <2>2. row \in [Upload!Fields -> Keys \cup {Null}] /\ job \in [Requests -> Jobs]
    BY NoPicks DEF Upload!Init
  <2>3. driver = Null /\ full = FALSE /\ clash = FALSE /\ used = {}
    BY DEF Upload!Init
  <2> QED  BY <1>1, <2>1, <2>2, <2>3 DEF UploadTypes
<1>3. Held /\ OnItsWay /\ PageSound
  BY NoPicks DEF Upload!Init, Held, Good, OnItsWay, PageSound
<1> QED  BY <1>2, <1>3 DEF UploadInv

\* A job that becomes idle, or still reads, with no more keys than before.
LEMMA JobLeaves ==
    ASSUME UploadInv, NEW r \in Requests, NEW j \in Jobs, Upload!Step(r, j),
           j.pc # "put", \A f \in Upload!Fields : j.got[f] \in {Null, job[r].got[f]},
           UNCHANGED <<driver, store, row, now, full, page, used, clash>>
    PROVE  UploadInv'
<1>1. job' \in [Requests -> Jobs] /\ job'[r] = j
      /\ \A s \in Requests \ {r} : job'[s] = job[s]
  BY DEF UploadInv, UploadTypes, Upload!Step
<1>2. UploadTypes'
  BY <1>1 DEF UploadInv, UploadTypes
<1>3. Held'
  BY <1>1 DEF UploadInv, Held, Good
<1>4. OnItsWay'
  <2> SUFFICES ASSUME NEW s \in Requests, job'[s].pc = "put"
               PROVE  /\ job'[s].todo # <<>> /\ job'[s].key \in used
                      /\ job'[s].key[1] = Head(job'[s].todo).prefix
                      /\ \/ clash
                         \/ /\ \A f \in Upload!Fields : row[f] # job'[s].key
                            /\ \A t \in Requests :
                                  /\ \A f \in Upload!Fields : job'[t].got[f] # job'[s].key
                                  /\ t # s /\ job'[t].pc = "put" => job'[t].key # job'[s].key
    BY DEF OnItsWay
  <2>1. s # r /\ job'[s] = job[s]
    BY <1>1
  <2>2. job[s].key # Null
    BY <2>1, KeyAssumption DEF UploadInv, UploadTypes, OnItsWay, Keys, Upload!Keys, Prefixes
  <2> QED  BY <1>1, <2>1, <2>2 DEF UploadInv, OnItsWay
<1>5. PageSound'
  BY DEF UploadInv, PageSound
<1> QED  BY <1>2, <1>3, <1>4, <1>5 DEF UploadInv

LEMMA FormStep ==
    ASSUME UploadInv, NEW r \in Requests,
           Upload!UsersUpdate(r) \/ Upload!ProfileUpdate(r) \/ Upload!SettingUpdate(r)
              \/ Upload!MediaUpload(r)
    PROVE  UploadInv'
<1>1. /\ \A u \in {"u1", "u2"} : <<Upload!File(u, "avatars/")>> \in Seq(Picks)
      /\ <<Upload!File("u1", "avatars/u1-")>> \in Seq(Picks)
      /\ <<Upload!File("editor", "editor/")>> \in Seq(Picks)
      /\ <<Upload!File("logo", "settings/logo-"), Upload!File("favicon", "settings/favicon-")>>
            \in Seq(Picks)
  BY DEF Upload!File, Picks, Prefixes, Upload!Fields
<1>2. PICK files \in Seq(Picks) : Upload!Submit(r, files)
  BY <1>1 DEF Upload!UsersUpdate, Upload!ProfileUpdate, Upload!SettingUpdate,
              Upload!MediaUpload
<1>3. DEFINE j == [Upload!Idle EXCEPT !.pc = "read", !.todo = files]
<1>4. j \in Jobs /\ j.pc # "put" /\ \A f \in Upload!Fields : j.got[f] = Null
  BY NoPicks DEF Upload!Idle, Jobs
<1> HIDE DEF j
<1>5. Upload!Step(r, j) /\ UNCHANGED <<driver, store, row, now, full, page, used, clash>>
  BY <1>2 DEF j, Upload!Submit
<1> QED  BY <1>4, <1>5, JobLeaves

LEMMA EndStep ==
    ASSUME UploadInv, NEW r \in Requests, Upload!Refuse(r) \/ Upload!NoFile(r)
    PROVE  UploadInv'
<1>1. CASE Upload!Refuse(r)
  BY <1>1, NoPicks, JobLeaves DEF Upload!Refuse
<1>2. CASE Upload!NoFile(r)
  <2>1. DEFINE j == [job[r] EXCEPT !.todo = Tail(@)]
  <2>2. job[r] \in Jobs /\ job[r].pc = "read" /\ job[r].todo # <<>>
    BY <1>2 DEF Upload!NoFile, Upload!At, UploadInv, UploadTypes
  <2>3. Tail(job[r].todo) \in Seq(Picks)
    BY <2>2, FilesLeft DEF Jobs
  <2>4. j \in Jobs /\ j.pc # "put" /\ j.got = job[r].got
    BY <2>2, <2>3 DEF Jobs
  <2> HIDE DEF j
  <2>5. Upload!Step(r, j) /\ UNCHANGED <<driver, store, row, now, full, page, used, clash>>
    BY <1>2 DEF j, Upload!NoFile
  <2> QED  BY <2>4, <2>5, JobLeaves
<1> QED  BY <1>1, <1>2

\* A key made now is one of the keys, and in use afterwards; one in use before
\* is drawn again only in a clash.
LEMMA DrawFacts ==
    ASSUME UploadInv, NEW pick \in Picks, Upload!Draw(pick.prefix)
    PROVE  /\ Upload!KeyOf(pick) \in Keys /\ Upload!KeyOf(pick) \in used'
           /\ Upload!KeyOf(pick)[1] = pick.prefix
           /\ used \subseteq used' /\ used' \subseteq Keys
           /\ clash' \in BOOLEAN /\ (clash => clash')
           /\ Upload!KeyOf(pick) \in used => clash'
<1>1. Upload!KeyOf(pick) = <<pick.prefix, now>> /\ Upload!KeyOf(pick) \in Keys
      /\ Upload!KeyOf(pick)[1] = pick.prefix
  BY DEF UploadInv, UploadTypes, Upload!KeyOf, Keys, Picks
<1>2. clash' = (clash \/ Upload!KeyOf(pick) \in used) /\ used' = used \cup {Upload!KeyOf(pick)}
  BY <1>1 DEF Upload!Draw
<1>3. used \subseteq Keys /\ clash \in BOOLEAN
  BY DEF UploadInv, UploadTypes
<1>4. clash' \in BOOLEAN
  BY <1>2
<1> QED  BY <1>1, <1>2, <1>3, <1>4

\* An object is stored under a key of its own, or of another's after a clash.
LEMMA SavedStep ==
    ASSUME UploadInv, NEW r \in Requests, job[r].todo # <<>>,
           NEW key \in Keys, key[1] = Head(job[r].todo).prefix,
           NEW object \in Objects, object = "cut" => full,
           object \in {Head(job[r].todo).field, "cut"},
           store' = Upload!With(store, key, object), Upload!Step(r, Upload!Saved(r, key)),
           key \in used', used \subseteq used', used' \subseteq Keys,
           clash' \in BOOLEAN, clash => clash',
           \A f \in Upload!Fields : row[f] = key => clash',
           \A s \in Requests, f \in Upload!Fields : job[s].got[f] = key => clash',
           \A s \in Requests \ {r} : job[s].pc = "put" /\ job[s].key = key => clash',
           UNCHANGED <<driver, row, now, full, page>>
    PROVE  UploadInv'
<1> DEFINE pick == Head(job[r].todo)
<1>1. job[r] \in Jobs /\ pick \in Picks /\ Tail(job[r].todo) \in Seq(Picks)
  <2>1. job[r] \in Jobs
    BY DEF UploadInv, UploadTypes
  <2> QED  BY <2>1, FilesLeft DEF Jobs
<1> HIDE DEF pick
<1>2. /\ DOMAIN store' = DOMAIN store \cup {key} /\ store'[key] = object
      /\ \A k \in DOMAIN store \ {key} : store'[k] = store[k]
  BY DEF Upload!With
<1>3. /\ job' \in [Requests -> Jobs] /\ job'[r].pc = "read"
      /\ \A f \in Upload!Fields :
            job'[r].got[f] = IF f = pick.field THEN key ELSE job[r].got[f]
      /\ \A s \in Requests \ {r} : job'[s] = job[s]
  <2>1. Upload!Saved(r, key) \in Jobs /\ Upload!Saved(r, key).pc = "read"
        /\ \A f \in Upload!Fields :
            Upload!Saved(r, key).got[f] = IF f = pick.field THEN key ELSE job[r].got[f]
    BY <1>1 DEF Upload!Saved, Jobs, pick
  <2> QED  BY <2>1 DEF Upload!Step, UploadInv, UploadTypes
<1>4. UploadTypes'
  <2>1. \A k \in DOMAIN store' : store'[k] \in Objects
    BY <1>2 DEF UploadInv, UploadTypes
  <2> QED  BY <1>2, <1>3, <2>1 DEF UploadInv, UploadTypes
<1>5. ASSUME NEW k, NEW f, Good(k, f), k = key => clash'
      PROVE  k # Null => /\ k \in DOMAIN store' /\ k \in used' /\ k[1] # "editor/"
                         /\ store'[k] = "cut" => full'
                         /\ clash' \/ store'[k] \in {f, "cut"}
  <2>1. CASE k = key
    BY <1>2, <1>5, <2>1 DEF Good
  <2>2. CASE k # key
    BY <1>2, <1>5, <2>2 DEF Good
  <2> QED  BY <2>1, <2>2
<1>6. Held'
  <2>1. ASSUME NEW f \in Upload!Fields PROVE Good(row[f], f)'
    BY <1>5 DEF UploadInv, Held, Good
  <2>2. ASSUME NEW f \in Upload!Fields, NEW s \in Requests PROVE Good(job[s].got[f], f)'
    <3>1. CASE s = r /\ f = pick.field
      <4>1. pick.prefix # "editor/"
        BY <1>1, <3>1 DEF Picks, Upload!Fields
      <4>2. job'[s].got[f] = key
        BY <1>3, <3>1
      <4> QED  BY <1>2, <3>1, <4>1, <4>2 DEF Good, pick
    <3>2. CASE ~(s = r /\ f = pick.field)
      <4>1. job'[s].got[f] = job[s].got[f]
        BY <1>3, <3>2
      <4>2. Good(job[s].got[f], f)
        BY DEF UploadInv, Held
      <4> QED  BY <1>5, <4>1, <4>2 DEF Good
    <3> QED  BY <3>1, <3>2
  <2> QED  BY <2>1, <2>2 DEF Held
<1>7. OnItsWay'
  <2> SUFFICES ASSUME NEW s \in Requests, job'[s].pc = "put"
               PROVE  /\ job'[s].todo # <<>> /\ job'[s].key \in used'
                      /\ job'[s].key[1] = Head(job'[s].todo).prefix
                      /\ \/ clash'
                         \/ /\ \A f \in Upload!Fields : row'[f] # job'[s].key
                            /\ \A t \in Requests :
                                  /\ \A f \in Upload!Fields : job'[t].got[f] # job'[s].key
                                  /\ t # s /\ job'[t].pc = "put" => job'[t].key # job'[s].key
    BY DEF OnItsWay
  <2>1. s # r /\ job'[s] = job[s]
    BY <1>3
  <2>2. job[s].key = key => clash'
    BY <2>1
  <2> QED  BY <1>3, <2>1, <2>2 DEF UploadInv, OnItsWay
<1>8. PageSound'
  BY <1>2 DEF UploadInv, PageSound
<1> QED  BY <1>4, <1>6, <1>7, <1>8 DEF UploadInv

\* A key in use names what a row or a form holds: one that is not in use names
\* nothing.
LEMMA KeysInUse ==
    ASSUME UploadInv, NEW key \in Keys
    PROVE  /\ \A f \in Upload!Fields : row[f] = key => key \in used
           /\ \A s \in Requests, f \in Upload!Fields : job[s].got[f] = key => key \in used
           /\ \A s \in Requests : job[s].pc = "put" /\ job[s].key = key => key \in used
<1>1. key # Null
  BY KeyAssumption DEF Keys, Upload!Keys, Prefixes
<1> QED  BY <1>1 DEF UploadInv, Held, Good, OnItsWay

LEMMA SaveLocalStep ==
    ASSUME UploadInv, NEW r \in Requests, Upload!SaveLocal(r) PROVE UploadInv'
<1> DEFINE pick == Head(job[r].todo)
           key == Upload!KeyOf(pick)
           object == IF full THEN "cut" ELSE pick.field
<1>1. job[r] \in Jobs /\ job[r].todo # <<>> /\ pick \in Picks
  <2>1. job[r] \in Jobs /\ job[r].todo # <<>>
    BY DEF Upload!SaveLocal, UploadInv, UploadTypes
  <2> QED  BY <2>1, FilesLeft DEF Jobs
<1>2. /\ store' = Upload!With(store, key, object) /\ Upload!Draw(pick.prefix)
      /\ Upload!Step(r, Upload!Saved(r, key))
      /\ UNCHANGED <<driver, row, now, full, page, forms>>
  BY DEF Upload!SaveLocal
<1>3. /\ key \in Keys /\ key \in used' /\ key[1] = pick.prefix
      /\ used \subseteq used' /\ used' \subseteq Keys
      /\ clash' \in BOOLEAN /\ (clash => clash')
      /\ key \in used => clash'
  BY <1>1, <1>2, DrawFacts
<1>4. object \in Objects /\ (object = "cut" => full) /\ object \in {pick.field, "cut"}
  BY <1>1 DEF Objects, Picks, Upload!Fields
<1> HIDE DEF key, object
<1>5. /\ \A f \in Upload!Fields : row[f] = key => clash'
      /\ \A s \in Requests, f \in Upload!Fields : job[s].got[f] = key => clash'
      /\ \A s \in Requests \ {r} : job[s].pc = "put" /\ job[s].key = key => clash'
  BY <1>3, KeysInUse
<1> QED  BY <1>1, <1>2, <1>3, <1>4, <1>5, SavedStep

LEMMA SendPutStep ==
    ASSUME UploadInv, NEW r \in Requests, Upload!SendPut(r) PROVE UploadInv'
<1> DEFINE pick == Head(job[r].todo)
           key == Upload!KeyOf(pick)
<1>1. job[r] \in Jobs /\ job[r].todo # <<>> /\ pick \in Picks
  <2>1. job[r] \in Jobs /\ job[r].todo # <<>>
    BY DEF Upload!SendPut, UploadInv, UploadTypes
  <2> QED  BY <2>1, FilesLeft DEF Jobs
<1>2. /\ Upload!Draw(pick.prefix)
      /\ Upload!Step(r, [job[r] EXCEPT !.pc = "put", !.key = key])
      /\ UNCHANGED <<driver, store, row, now, full, page, forms>>
  BY DEF Upload!SendPut
<1>3. /\ key \in Keys /\ key \in used' /\ key[1] = pick.prefix
      /\ used \subseteq used' /\ used' \subseteq Keys
      /\ clash' \in BOOLEAN /\ (clash => clash')
      /\ key \in used => clash'
  BY <1>1, <1>2, DrawFacts
<1> HIDE DEF key
<1>4. /\ job' \in [Requests -> Jobs] /\ job'[r].pc = "put" /\ job'[r].key = key
      /\ job'[r].got = job[r].got /\ job'[r].todo = job[r].todo
      /\ \A s \in Requests \ {r} : job'[s] = job[s]
  <2>1. [job[r] EXCEPT !.pc = "put", !.key = key] \in Jobs
    BY <1>1, <1>3 DEF Jobs
  <2> QED  BY <1>1, <1>2, <2>1 DEF Upload!Step, UploadInv, UploadTypes, Jobs
<1>5. UploadTypes'
  BY <1>2, <1>3, <1>4 DEF UploadInv, UploadTypes
<1>6. Held'
  BY <1>2, <1>3, <1>4 DEF UploadInv, Held, Good
<1>7. OnItsWay'
  <2> SUFFICES ASSUME NEW s \in Requests, job'[s].pc = "put"
               PROVE  /\ job'[s].todo # <<>> /\ job'[s].key \in used'
                      /\ job'[s].key[1] = Head(job'[s].todo).prefix
                      /\ \/ clash'
                         \/ /\ \A f \in Upload!Fields : row'[f] # job'[s].key
                            /\ \A t \in Requests :
                                  /\ \A f \in Upload!Fields : job'[t].got[f] # job'[s].key
                                  /\ t # s /\ job'[t].pc = "put" => job'[t].key # job'[s].key
    BY DEF OnItsWay
  <2>1. CASE s = r
    <3>1. \/ clash'
          \/ /\ \A f \in Upload!Fields : row[f] # key
             /\ \A t \in Requests :
                   /\ \A f \in Upload!Fields : job[t].got[f] # key
                   /\ job[t].pc = "put" => job[t].key # key
      BY <1>3, KeysInUse
    <3> QED  BY <1>1, <1>2, <1>3, <1>4, <2>1, <3>1
  <2>2. CASE s # r
    <3>1. job[s].key \in used
      BY <1>4, <2>2 DEF UploadInv, OnItsWay
    <3>2. job[s].key = key => clash'
      BY <1>3, <3>1
    <3> QED  BY <1>2, <1>3, <1>4, <2>2, <3>2 DEF UploadInv, OnItsWay
  <2> QED  BY <2>1, <2>2
<1>8. PageSound'
  BY <1>2 DEF UploadInv, PageSound
<1> QED  BY <1>5, <1>6, <1>7, <1>8 DEF UploadInv

LEMMA PutFacts ==
    ASSUME UploadInv, NEW r \in Requests, Upload!At(r, "put")
    PROVE  /\ job[r].todo # <<>> /\ job[r].key \in Keys /\ job[r].key \in used
           /\ job[r].key[1] = Head(job[r].todo).prefix
           /\ Head(job[r].todo).field \in Objects /\ Head(job[r].todo).field # "cut"
           /\ \A f \in Upload!Fields : row[f] = job[r].key => clash
           /\ \A s \in Requests, f \in Upload!Fields : job[s].got[f] = job[r].key => clash
           /\ \A s \in Requests \ {r} :
                 job[s].pc = "put" /\ job[s].key = job[r].key => clash
<1>1. job[r] \in Jobs /\ job[r].todo # <<>> /\ job[r].pc = "put"
  BY DEF UploadInv, UploadTypes, OnItsWay, Upload!At
<1>2. Head(job[r].todo).field \in Objects /\ Head(job[r].todo).field # "cut"
  BY <1>1, FilesLeft DEF Jobs, Picks, Objects, Upload!Fields
<1> QED  BY <1>1, <1>2 DEF UploadInv, UploadTypes, OnItsWay

LEMMA PutSucceedsStep ==
    ASSUME UploadInv, NEW r \in Requests, Upload!PutSucceeds(r) PROVE UploadInv'
<1>1. Upload!At(r, "put") /\ store' = Upload!With(store, job[r].key, Head(job[r].todo).field)
      /\ Upload!Step(r, Upload!Saved(r, job[r].key))
      /\ UNCHANGED <<driver, row, now, full, page, used, clash>>
  BY DEF Upload!PutSucceeds
<1>2. used' \subseteq Keys /\ clash' \in BOOLEAN
  BY <1>1 DEF UploadInv, UploadTypes
<1> QED  BY <1>1, <1>2, PutFacts, SavedStep

\* A PUT without an answer may have written the object; nothing names it yet.
LEMMA PutFailsStep ==
    ASSUME UploadInv, NEW r \in Requests, Upload!PutFails(r) PROVE UploadInv'
<1> DEFINE key == job[r].key
           object == Head(job[r].todo).field
<1>1. /\ store' \in {store, Upload!With(store, key, object)} /\ Upload!Step(r, Upload!Idle)
      /\ UNCHANGED <<driver, row, now, full, page, used, clash>>
  BY DEF Upload!PutFails
<1>2. /\ key \in Keys /\ key \in used /\ object \in Objects /\ object # "cut"
      /\ \A f \in Upload!Fields : row[f] = key => clash
      /\ \A s \in Requests, f \in Upload!Fields : job[s].got[f] = key => clash
  BY PutFacts DEF Upload!PutFails
<1> HIDE DEF key, object
<1>3. /\ DOMAIN store' \in {DOMAIN store, DOMAIN store \cup {key}}
      /\ key \in DOMAIN store' =>
            store'[key] = object \/ (key \in DOMAIN store /\ store'[key] = store[key])
      /\ \A k \in DOMAIN store \ {key} : store'[k] = store[k]
  BY <1>1 DEF Upload!With
<1>4. job' \in [Requests -> Jobs] /\ job'[r] = Upload!Idle
      /\ \A s \in Requests \ {r} : job'[s] = job[s]
  BY <1>1, NoPicks DEF UploadInv, UploadTypes, Upload!Step
<1>5. UploadTypes'
  <2>1. \A k \in DOMAIN store' : store'[k] \in Objects
    BY <1>2, <1>3 DEF UploadInv, UploadTypes
  <2> QED  BY <1>1, <1>2, <1>3, <1>4, <2>1 DEF UploadInv, UploadTypes
<1>6. ASSUME NEW k, NEW f, Good(k, f), k = key => clash
      PROVE  k # Null => /\ k \in DOMAIN store' /\ k \in used' /\ k[1] # "editor/"
                         /\ store'[k] = "cut" => full'
                         /\ clash' \/ store'[k] \in {f, "cut"}
  <2>1. CASE k = key
    BY <1>1, <1>2, <1>3, <1>6, <2>1 DEF Good
  <2>2. CASE k # key
    BY <1>1, <1>3, <1>6, <2>2 DEF Good
  <2> QED  BY <2>1, <2>2
<1>7. Held'
  <2>1. ASSUME NEW f \in Upload!Fields PROVE Good(row[f], f)'
    BY <1>1, <1>2, <1>6 DEF UploadInv, Held, Good
  <2>2. ASSUME NEW f \in Upload!Fields, NEW s \in Requests PROVE Good(job[s].got[f], f)'
    <3>1. CASE s = r
      BY <1>4, <3>1, NoPicks DEF Good
    <3>2. CASE s # r
      <4>1. Good(job[s].got[f], f) /\ (job[s].got[f] = key => clash)
        BY <1>2 DEF UploadInv, Held
      <4>2. job'[s].got[f] = job[s].got[f]
        BY <1>4, <3>2
      <4> QED  BY <1>6, <4>1, <4>2 DEF Good
    <3> QED  BY <3>1, <3>2
  <2> QED  BY <2>1, <2>2 DEF Held
<1>8. OnItsWay'
  <2>1. \A s \in Requests : job'[s].pc = "put" => s # r /\ job'[s] = job[s] /\ job[s].key # Null
    BY <1>4, NoPicks, KeyAssumption DEF UploadInv, UploadTypes, OnItsWay, Keys, Upload!Keys, Prefixes
  <2> QED  BY <1>1, <1>4, <2>1, NoPicks DEF UploadInv, OnItsWay
<1>9. PageSound'
  BY <1>1, <1>3 DEF UploadInv, PageSound
<1> QED  BY <1>5, <1>7, <1>8, <1>9 DEF UploadInv

LEMMA WriteRowStep ==
    ASSUME UploadInv, NEW r \in Requests, Upload!WriteRow(r) PROVE UploadInv'
<1>1. /\ \A f \in Upload!Fields :
            row'[f] = IF job[r].got[f] # Null THEN job[r].got[f] ELSE row[f]
      /\ DOMAIN row' = Upload!Fields /\ row' = [f \in Upload!Fields |-> row'[f]]
      /\ Upload!Step(r, Upload!Idle)
      /\ UNCHANGED <<driver, store, now, full, page, used, clash>>
  BY DEF Upload!WriteRow
<1>2. job' \in [Requests -> Jobs] /\ job'[r] = Upload!Idle
      /\ \A s \in Requests \ {r} : job'[s] = job[s]
  BY <1>1, NoPicks DEF UploadInv, UploadTypes, Upload!Step
<1>3. UploadTypes'
  <2>1. job[r].got \in [Upload!Fields -> Keys \cup {Null}]
    BY DEF UploadInv, UploadTypes, Jobs
  <2>2. \A f \in Upload!Fields : row'[f] \in Keys \cup {Null}
    BY <1>1, <2>1 DEF UploadInv, UploadTypes
  <2> QED  BY <1>1, <1>2, <2>2 DEF UploadInv, UploadTypes
<1>4. Held'
  BY <1>1, <1>2, NoPicks DEF UploadInv, Held, Good
<1>5. OnItsWay'
  <2>1. \A s \in Requests : job'[s].pc = "put" => s # r /\ job'[s] = job[s] /\ job[s].key # Null
    BY <1>2, NoPicks, KeyAssumption DEF UploadInv, UploadTypes, OnItsWay, Keys, Upload!Keys, Prefixes
  <2> QED  BY <1>1, <1>2, <2>1, NoPicks DEF UploadInv, OnItsWay
<1>6. PageSound'
  BY <1>1 DEF UploadInv, PageSound
<1> QED  BY <1>3, <1>4, <1>5, <1>6 DEF UploadInv

LEMMA MediaDestroyStep ==
    ASSUME UploadInv, NEW k \in DOMAIN store, Upload!MediaDestroy(k) PROVE UploadInv'
<1>1. /\ k[1] = "editor/" /\ DOMAIN store' = DOMAIN store \ {k}
      /\ \A l \in DOMAIN store' : store'[l] = store[l]
      /\ UNCHANGED <<driver, row, job, now, full, page, used, clash>>
  BY DEF Upload!MediaDestroy, Upload!MayDestroy
<1>2. UploadTypes'
  BY <1>1 DEF UploadInv, UploadTypes
<1>3. Held'
  BY <1>1 DEF UploadInv, Held, Good
<1>4. OnItsWay' /\ PageSound'
  BY <1>1 DEF UploadInv, OnItsWay, PageSound
<1> QED  BY <1>2, <1>3, <1>4 DEF UploadInv

LEMMA RenderStep ==
    ASSUME UploadInv, NEW f \in Upload!Fields, Upload!Render(f) PROVE UploadInv'
<1>1. row[f] # Null /\ UNCHANGED <<driver, store, row, job, now, full, used, clash>>
      /\ page' = [key |-> row[f], by |-> now + UrlTtl,
                  until |-> IF driver = "local" THEN MaxTick ELSE now + UrlTtl]
  BY DEF Upload!Render, Upload!urlOf, Upload!presign
<1>2. page'.by \in Nat
  BY <1>1, TickAssumption DEF UploadInv, UploadTypes
<1>3. row[f] \in DOMAIN store /\ row[f][1] # "editor/"
  BY <1>1 DEF UploadInv, Held, Good
<1>4. PageSound'
  BY <1>1, <1>2, <1>3 DEF PageSound
<1>5. UploadTypes' /\ Held' /\ OnItsWay'
  BY <1>1 DEF UploadInv, UploadTypes, Held, Good, OnItsWay
<1> QED  BY <1>4, <1>5 DEF UploadInv

\* The server starts, a page is closed, time passes, the disk fills.
LEMMA SettingsStep ==
    ASSUME UploadInv,
           Upload!Configure \/ Upload!Close \/ Upload!Tick \/ Upload!DiskFills
              \/ UNCHANGED uploadVars
    PROVE  UploadInv'
<1>1. /\ UNCHANGED <<store, row, job, used, clash>>
      /\ driver' \in {"local", "remote", Null} /\ full' \in BOOLEAN /\ (full => full')
      /\ page' \in {page, Null}
  BY DEF UploadInv, UploadTypes, Upload!Configure, Upload!Close, Upload!Tick,
         Upload!DiskFills, uploadVars
<1>2. now' \in 0..MaxTick
  BY TickAssumption DEF UploadInv, UploadTypes, Upload!Configure, Upload!Close, Upload!Tick,
         Upload!DiskFills, uploadVars
<1>3. UploadTypes'
  BY <1>1, <1>2 DEF UploadInv, UploadTypes
<1>4. Held' /\ OnItsWay' /\ PageSound'
  BY <1>1 DEF UploadInv, Held, Good, OnItsWay, PageSound
<1> QED  BY <1>3, <1>4 DEF UploadInv

LEMMA UploadNext == UploadInv /\ [Upload!Next]_uploadVars => UploadInv'
BY FormStep, EndStep, SaveLocalStep, SendPutStep, PutSucceedsStep, PutFailsStep,
   WriteRowStep, MediaDestroyStep, RenderStep, SettingsStep DEF Upload!Next

LEMMA UploadAlways == Spec => []UploadInv
<1>1. Init => UploadInv
  BY UploadInit DEF Init
<1>2. UploadInv /\ [Next]_vars => UploadInv'
  BY UploadNext, UploadPart
<1> QED  BY <1>1, <1>2, PTL DEF Spec

\* A row names a picture that is stored, whole unless the disk was full, and a
\* page can load its picture as long as the URL is good, whichever requests
\* overlap and fail (upload::imageIfAny, storage::save and url, MediaController.cc).
THEOREM PicturesStayStored == Spec => []PicturesAreStored
<1>1. UploadInv => PicturesAreStored
  <2> SUFFICES ASSUME UploadInv, page # Null, now <= page.by
               PROVE  now <= page.until
    BY DEF UploadInv, Held, Good, PageSound, PicturesAreStored, Upload!PicturesAreStored,
           Upload!Serves
  <2>1. now \in Nat /\ now <= MaxTick /\ page.until \in {MaxTick, page.by}
    BY TickAssumption DEF UploadInv, UploadTypes, PageSound
  <2> QED  BY <2>1
<1> QED  BY <1>1, UploadAlways, PTL

\* Only two uploads that drew their names from one prefix in one tick of the
\* clock ever share a key (upload::imageIfAny).
THEOREM PicturesStayTheirOwn == Spec => []PicturesAreTheirOwn
<1>1. UploadInv => PicturesAreTheirOwn
  BY DEF UploadInv, Held, Good, PicturesAreTheirOwn, Upload!PicturesAreTheirOwn
<1> QED  BY <1>1, UploadAlways, PTL

-----------------------------------------------------------------------------
(* FeCatalog *)

Searches == {"list", "fetch tree", "fill catalog"}
Previews == {"local", "fetch preview"}
Homes    == {"cached?", "fetch html", "fill html", "read"}

Visits == [for : {"idle", "list", "preview", "home", "save"},
           pc : {"idle", "done"} \cup Searches \cup Previews \cup Homes,
           slug : Template!Slugs \cup {Null}, beside : BOOLEAN,
           answer : {"curated", "full", "whole", "cut", "view", "unknown", "bad gateway",
                     "saved", "error", Null}]

CatalogTypes ==
    /\ memo \in {"none", "curated", "full"} /\ catalogFile \in Template!File
    /\ htmlFile \in [Template!Slugs -> Template!File] /\ broken \subseteq Template!Slugs
    /\ visit \in [Visitors -> Visits]

\* What a request is for says where it may stand, and it keeps its slug until
\* it is answered.
WayOf(j) ==
    /\ j.pc \in Searches => j.for \in {"list", "preview"}
    /\ j.pc \in Previews => j.for = "preview"
    /\ j.pc \in Homes => j.for \in {"home", "save"}
    /\ j.for # "list" /\ j.pc \notin {"idle", "done"} => j.slug \in Template!Slugs

AnsweredWell(j) ==
    j.pc = "done" =>
        /\ j.for = "list" => j.answer \in {"curated", "full"}
        /\ j.for = "preview" => j.answer \in {"whole", "unknown", "bad gateway"}
        /\ j.for = "home" /\ j.answer = "cut" => j.beside \/ j.slug \in broken

\* A template file is cut short while a request fills it, or since a write of it
\* ended short.
CutSound ==
    \A s \in Template!Slugs : htmlFile[s] = "cut" =>
        s \in broken \/ \E v \in Visitors : visit[v].pc = "fill html" /\ visit[v].slug = s

CatalogInv ==
    /\ CatalogTypes /\ CutSound
    /\ \A v \in Visitors : WayOf(visit[v]) /\ AnsweredWell(visit[v])

LEMMA TemplatePart == [Next]_vars => [Template!Next]_templateVars
<1>1. CASE UNCHANGED vars
  BY <1>1 DEF vars
<1>2. CASE TemplateSteps
  BY <1>2 DEF TemplateSteps
<1>3. CASE Next /\ ~TemplateSteps
  BY <1>3 DEF Next, RouteSteps, ListsSteps, StartSteps, UploadSteps, RateSteps,
              TokenSteps, MessageSteps, BodySteps
<1> QED  BY <1>1, <1>2, <1>3

LEMMA CatalogInit == Template!Init => CatalogInv
<1> SUFFICES ASSUME Template!Init PROVE CatalogInv
  OBVIOUS
<1>2. Template!Idle \in Visits
  BY DEF Template!Idle, Visits
<1>3. WayOf(Template!Idle) /\ AnsweredWell(Template!Idle)
  BY DEF Template!Idle, WayOf, AnsweredWell, Searches, Previews, Homes
<1>4. CatalogTypes
  BY <1>2 DEF Template!Init, CatalogTypes, Template!File
<1>5. CutSound
  BY DEF Template!Init, CutSound
<1> QED  BY <1>3, <1>4, <1>5 DEF Template!Init, CatalogInv

\* A request moves to where it may stand.
Moves(v) == \E j \in Visits : /\ visit' = [visit EXCEPT ![v] = j]
                              /\ WayOf(j) /\ AnsweredWell(j)

LEMMA GoMoves ==
    ASSUME CatalogInv, NEW v \in Visitors, NEW p, Template!Go(v, p),
           visit[v].pc \notin {"idle", "done"},
           \/ p \in Searches /\ visit[v].pc \in Searches
           \/ p \in Previews /\ visit[v].for = "preview"
           \/ p \in Homes /\ visit[v].pc \in Homes
    PROVE  Moves(v)
<1> DEFINE j == [visit[v] EXCEPT !.pc = p]
<1>1. visit[v] \in Visits /\ WayOf(visit[v]) /\ visit' = [visit EXCEPT ![v] = j]
  BY DEF CatalogInv, CatalogTypes, Template!Go
<1>2. j \in Visits /\ j.pc = p /\ j.for = visit[v].for /\ j.slug = visit[v].slug
  BY <1>1 DEF Visits, Searches, Previews, Homes
<1>3. WayOf(j) /\ AnsweredWell(j)
  BY <1>1, <1>2 DEF WayOf, AnsweredWell, Searches, Previews, Homes
<1> QED  BY <1>1, <1>2, <1>3 DEF Moves

LEMMA AnswerMoves ==
    ASSUME CatalogInv, NEW v \in Visitors, NEW a, Template!Answer(v, a),
           \/ visit[v].for = "list" /\ a \in {"curated", "full"}
           \/ visit[v].for = "preview" /\ a \in {"whole", "unknown", "bad gateway"}
           \/ visit[v].for = "save" /\ a \in {"saved", "error"}
    PROVE  Moves(v)
<1> DEFINE j == [visit[v] EXCEPT !.pc = "done", !.answer = a, !.slug = Null]
<1>1. visit[v] \in Visits /\ visit' = [visit EXCEPT ![v] = j]
  BY DEF CatalogInv, CatalogTypes, Template!Answer
<1>2. j \in Visits /\ j.pc = "done" /\ j.for = visit[v].for /\ j.answer = a
  BY <1>1 DEF Visits
<1>3. WayOf(j) /\ AnsweredWell(j)
  BY <1>2 DEF WayOf, AnsweredWell, Searches, Previews, Homes
<1> QED  BY <1>1, <1>2, <1>3 DEF Moves

\* A step of one request that fills no file keeps the invariant.
LEMMA MoveStep ==
    ASSUME CatalogInv, NEW v \in Visitors, Moves(v), visit[v].pc # "fill html",
           memo' \in {"none", "curated", "full"}, catalogFile' \in Template!File,
           UNCHANGED <<htmlFile, broken>>
    PROVE  CatalogInv'
<1>1. PICK j \in Visits : visit' = [visit EXCEPT ![v] = j] /\ WayOf(j) /\ AnsweredWell(j)
  BY DEF Moves
<1>2. visit' \in [Visitors -> Visits] /\ visit'[v] = j
      /\ \A w \in Visitors \ {v} : visit'[w] = visit[w]
  BY <1>1 DEF CatalogInv, CatalogTypes
<1>3. CatalogTypes'
  BY <1>2 DEF CatalogInv, CatalogTypes
<1>4. CutSound'
  <2> SUFFICES ASSUME NEW t \in Template!Slugs, htmlFile[t] = "cut", t \notin broken
               PROVE  \E w \in Visitors : visit'[w].pc = "fill html" /\ visit'[w].slug = t
    BY DEF CutSound
  <2>1. PICK w \in Visitors : visit[w].pc = "fill html" /\ visit[w].slug = t
    BY DEF CatalogInv, CutSound
  <2>2. visit'[w] = visit[w]
    BY <1>2, <2>1
  <2> QED  BY <2>1, <2>2
<1>5. \A w \in Visitors : WayOf(visit'[w]) /\ AnsweredWell(visit'[w])
  BY <1>1, <1>2 DEF CatalogInv
<1>6. \A w \in Visitors : (WayOf(visit[w]) /\ AnsweredWell(visit[w]))'
  BY <1>5 DEF WayOf, AnsweredWell
<1> QED  BY <1>3, <1>4, <1>6 DEF CatalogInv

LEMMA ListedMoves ==
    ASSUME CatalogInv, NEW v \in Visitors, NEW l \in {"curated", "full"},
           visit[v].pc \in Searches, Template!Listed(v, l)
    PROVE  Moves(v)
<1>1. visit[v].for \in {"list", "preview"} /\ visit[v].pc \notin {"idle", "done"}
  BY DEF CatalogInv, WayOf, Searches
<1> QED  BY <1>1, GoMoves, AnswerMoves DEF Template!Listed, Template!Is, Previews

LEMMA ListStep == ASSUME CatalogInv, NEW v \in Visitors, Template!List(v) PROVE CatalogInv'
<1>1. visit[v].pc \in Searches /\ visit[v].pc \notin {"idle", "done", "fill html"}
  BY DEF Template!List, Template!ListFromMemo, Template!ListFromDisk, Template!ListFetch,
         Template!TreeArrives, Template!TreeFails, Template!FillCatalog,
         Template!At, Searches
<1>2. /\ memo' \in {"none", "curated", "full"} /\ catalogFile' \in Template!File
      /\ UNCHANGED <<htmlFile, broken>>
  BY DEF Template!List, Template!ListFromMemo, Template!ListFromDisk, Template!ListFetch,
         Template!TreeArrives, Template!TreeFails, Template!FillCatalog,
         Template!readDiskCache, Template!File, CatalogInv, CatalogTypes
<1>3. \/ \E l \in {"curated", "full"} : Template!Listed(v, l)
      \/ \E p \in Searches : Template!Go(v, p)
  BY DEF Template!List, Template!ListFromMemo, Template!ListFromDisk, Template!ListFetch,
         Template!TreeArrives, Template!TreeFails, Template!FillCatalog,
         Template!readDiskCache, Template!Fresh, Searches, CatalogInv, CatalogTypes
<1>4. Moves(v)
  BY <1>1, <1>3, ListedMoves, GoMoves
<1> QED  BY <1>1, <1>2, <1>4, MoveStep

LEMMA PreviewStep ==
    ASSUME CatalogInv, NEW v \in Visitors, Template!Preview(v) PROVE CatalogInv'
<1>1. visit[v].pc \in Previews /\ visit[v].pc \notin {"idle", "done", "fill html"}
      /\ visit[v].for = "preview"
  BY DEF Template!Preview, Template!PreviewLocal, Template!PreviewArrives,
         Template!PreviewFails, Template!At, Previews, CatalogInv, WayOf
<1>2. UNCHANGED <<memo, catalogFile, htmlFile, broken>>
  BY DEF Template!Preview, Template!PreviewLocal, Template!PreviewArrives,
         Template!PreviewFails
<1>3. \/ \E a \in {"whole", "bad gateway"} : Template!Answer(v, a)
      \/ Template!Go(v, "fetch preview")
  BY DEF Template!Preview, Template!PreviewLocal, Template!PreviewArrives,
         Template!PreviewFails, Template!looksLikeHtml
<1>4. Moves(v)
  BY <1>1, <1>3, GoMoves, AnswerMoves DEF Previews
<1>5. memo' \in {"none", "curated", "full"} /\ catalogFile' \in Template!File
  BY <1>2 DEF CatalogInv, CatalogTypes
<1> QED  BY <1>1, <1>2, <1>4, <1>5, MoveStep

LEMMA EnsuredMoves ==
    ASSUME CatalogInv, NEW v \in Visitors, visit[v].pc \in Homes, Template!Ensured(v)
    PROVE  Moves(v)
BY GoMoves, AnswerMoves DEF Template!Ensured, Template!Is, Homes

\* The steps of a home page or a save that write no template file.
LEMMA HomeMoves ==
    ASSUME CatalogInv, NEW v \in Visitors,
           Template!Cached(v) \/ Template!HtmlFails(v)
    PROVE  CatalogInv'
<1>1. visit[v].pc \in Homes /\ visit[v].pc \notin {"idle", "done", "fill html"}
      /\ UNCHANGED <<memo, catalogFile, htmlFile, broken>>
  BY DEF Template!Cached, Template!HtmlFails, Template!At, Homes
<1>2. \/ Template!Ensured(v) \/ \E p \in Homes : Template!Go(v, p)
      \/ visit[v].for = "save" /\ Template!Answer(v, "error")
  BY DEF Template!Cached, Template!HtmlFails, Template!Is, Homes
<1>3. Moves(v)
  BY <1>1, <1>2, EnsuredMoves, GoMoves, AnswerMoves
<1>4. memo' \in {"none", "curated", "full"} /\ catalogFile' \in Template!File
  BY <1>1 DEF CatalogInv, CatalogTypes
<1> QED  BY <1>1, <1>3, <1>4, MoveStep

\* The page takes the file as it is: cut short only beside the one that fills it.
LEMMA ReadActiveStep ==
    ASSUME CatalogInv, NEW v \in Visitors, Template!ReadActive(v) PROVE CatalogInv'
<1> DEFINE target == IF Template!isCached(visit[v].slug) THEN visit[v].slug ELSE Default
           busy == \E w \in Visitors \ {v} : Template!At(w, "fill html") /\ visit[w].slug = target
           seen == IF Template!isCached(target) THEN htmlFile[target] ELSE "view"
           j == [visit[v] EXCEPT !.pc = "done", !.slug = target, !.beside = busy, !.answer = seen]
<1>1. visit[v].pc = "read" /\ visit[v] \in Visits /\ visit[v].slug \in Template!Slugs
      /\ visit[v].for \in {"home", "save"}
  BY DEF Template!ReadActive, Template!At, CatalogInv, CatalogTypes, WayOf, Homes, Searches,
         Previews
<1>2. visit' = [visit EXCEPT ![v] = j] /\ UNCHANGED <<memo, catalogFile, htmlFile, broken>>
  BY DEF Template!ReadActive
<1>3. target \in Template!Slugs
  BY <1>1 DEF Template!Slugs
<1>4. busy \in BOOLEAN
  OBVIOUS
<1>5. seen \in {"cut", "whole", "view"} /\ (seen = "cut" => htmlFile[target] = "cut")
  BY <1>3 DEF CatalogInv, CatalogTypes, Template!File, Template!isCached
<1>6. seen = "cut" => busy \/ target \in broken
  BY <1>1, <1>3, <1>5 DEF CatalogInv, CutSound, Template!At
<1> HIDE DEF target, busy, seen
<1>7. j \in Visits /\ j.pc = "done" /\ j.for = visit[v].for /\ j.answer = seen /\ j.beside = busy
      /\ j.slug = target
  BY <1>1, <1>3, <1>4, <1>5 DEF Visits
<1> HIDE DEF j
<1>8. Moves(v)
  BY <1>1, <1>2, <1>3, <1>6, <1>7 DEF Moves, WayOf, AnsweredWell, Searches, Previews, Homes
<1>9. memo' \in {"none", "curated", "full"} /\ catalogFile' \in Template!File
  BY <1>2 DEF CatalogInv, CatalogTypes
<1> QED  BY <1>1, <1>2, <1>8, <1>9, MoveStep

\* The file is truncated, and a request stands before it to fill it.
LEMMA HtmlArrivesStep ==
    ASSUME CatalogInv, NEW v \in Visitors, Template!HtmlArrives(v) PROVE CatalogInv'
<1>1. visit[v].pc = "fetch html" /\ visit[v].slug \in Template!Slugs /\ visit[v] \in Visits
      /\ htmlFile' = [htmlFile EXCEPT ![visit[v].slug] = "cut"]
      /\ Template!Go(v, "fill html") /\ UNCHANGED <<memo, memoAge, catalogFile, broken>>
  BY DEF Template!HtmlArrives, Template!At, CatalogInv, CatalogTypes, WayOf, Homes, Searches,
         Previews
<1>2. PICK j \in Visits : visit' = [visit EXCEPT ![v] = j] /\ WayOf(j) /\ AnsweredWell(j)
  BY <1>1, GoMoves DEF Moves, Homes
<1>3. visit' \in [Visitors -> Visits] /\ visit'[v] = j
      /\ \A w \in Visitors \ {v} : visit'[w] = visit[w]
  BY <1>2 DEF CatalogInv, CatalogTypes
<1>4. visit'[v].pc = "fill html" /\ visit'[v].slug = visit[v].slug
  <2>1. visit'[v] = [visit[v] EXCEPT !.pc = "fill html"]
    BY <1>1 DEF Template!Go, CatalogInv, CatalogTypes
  <2> QED  BY <1>1, <2>1 DEF Visits
<1>5. CatalogTypes'
  BY <1>1, <1>3 DEF CatalogInv, CatalogTypes, Template!File
<1>6. CutSound'
  <2> SUFFICES ASSUME NEW t \in Template!Slugs, htmlFile'[t] = "cut", t \notin broken
               PROVE  \E w \in Visitors : visit'[w].pc = "fill html" /\ visit'[w].slug = t
    BY <1>1 DEF CutSound
  <2>1. CASE t = visit[v].slug
    BY <1>4, <2>1
  <2>2. CASE t # visit[v].slug
    <3>1. htmlFile[t] = "cut"
      BY <1>1, <2>2 DEF CatalogInv, CatalogTypes
    <3>2. PICK w \in Visitors : visit[w].pc = "fill html" /\ visit[w].slug = t
      BY <3>1 DEF CatalogInv, CutSound
    <3>3. visit'[w] = visit[w]
      BY <1>1, <1>3, <3>2
    <3> QED  BY <3>2, <3>3
  <2> QED  BY <2>1, <2>2
<1>7. \A w \in Visitors : WayOf(visit'[w]) /\ AnsweredWell(visit'[w])
  BY <1>2, <1>3 DEF CatalogInv
<1>8. \A w \in Visitors : (WayOf(visit[w]) /\ AnsweredWell(visit[w]))'
  BY <1>1, <1>7 DEF WayOf, AnsweredWell
<1> QED  BY <1>5, <1>6, <1>8 DEF CatalogInv

\* The file is whole when one request has filled it, even beside another, or
\* it stays cut and is remembered.
LEMMA FillHtmlStep ==
    ASSUME CatalogInv, NEW v \in Visitors, Template!FillHtml(v) PROVE CatalogInv'
<1>1. visit[v].pc = "fill html" /\ visit[v].slug \in Template!Slugs
      /\ Template!Ensured(v) /\ UNCHANGED <<memo, memoAge, catalogFile>>
  BY DEF Template!FillHtml, Template!At, CatalogInv, WayOf, Homes, Searches, Previews
<1>2. PICK j \in Visits : visit' = [visit EXCEPT ![v] = j] /\ WayOf(j) /\ AnsweredWell(j)
  BY <1>1, EnsuredMoves DEF Moves, Homes
<1>3. visit' \in [Visitors -> Visits] /\ visit'[v] = j
      /\ \A w \in Visitors \ {v} : visit'[w] = visit[w]
  BY <1>2 DEF CatalogInv, CatalogTypes
<1>4. /\ broken \subseteq broken' /\ broken' \subseteq Template!Slugs
      /\ htmlFile' \in [Template!Slugs -> Template!File]
      /\ \A s \in Template!Slugs : s # visit[v].slug => htmlFile'[s] = htmlFile[s]
      /\ htmlFile'[visit[v].slug] = "cut" => visit[v].slug \in broken'
  BY <1>1 DEF Template!FillHtml, CatalogInv, CatalogTypes, Template!File
<1>5. CatalogTypes'
  BY <1>1, <1>3, <1>4 DEF CatalogInv, CatalogTypes
<1>6. CutSound'
  <2> SUFFICES ASSUME NEW t \in Template!Slugs, htmlFile'[t] = "cut", t \notin broken'
               PROVE  \E w \in Visitors : visit'[w].pc = "fill html" /\ visit'[w].slug = t
    BY DEF CutSound
  <2>1. t # visit[v].slug /\ htmlFile[t] = "cut" /\ t \notin broken
    BY <1>4
  <2>2. PICK w \in Visitors : visit[w].pc = "fill html" /\ visit[w].slug = t
    BY <2>1 DEF CatalogInv, CutSound
  <2>3. visit'[w] = visit[w]
    BY <1>3, <2>1, <2>2
  <2> QED  BY <2>2, <2>3
<1>7. \A w \in Visitors : WayOf(visit'[w]) /\ AnsweredWell(visit'[w])
  BY <1>2, <1>3 DEF CatalogInv
<1>8. \A w \in Visitors : (WayOf(visit[w]) /\ AnsweredWell(visit[w]))'
  BY <1>4, <1>7 DEF WayOf, AnsweredWell
<1> QED  BY <1>5, <1>6, <1>8 DEF CatalogInv

\* A request comes, or leaves with its answer.
LEMMA VisitStep ==
    ASSUME CatalogInv, NEW v \in Visitors,
           (\E f \in {"list", "preview", "home", "save"} : Template!Arrive(v, f))
              \/ Template!Return(v)
    PROVE  CatalogInv'
<1>1. visit[v].pc \in {"idle", "done"} /\ visit[v].pc # "fill html"
      /\ UNCHANGED <<memo, catalogFile, htmlFile, broken>>
  BY DEF Template!Arrive, Template!Return, Template!At
<1>2. CASE Template!Return(v)
  <2>1. Template!Idle \in Visits /\ WayOf(Template!Idle) /\ AnsweredWell(Template!Idle)
    BY DEF Template!Idle, Visits, WayOf, AnsweredWell, Searches, Previews, Homes
  <2>2. Moves(v)
    BY <1>2, <2>1 DEF Template!Return, Moves
  <2>3. memo' \in {"none", "curated", "full"} /\ catalogFile' \in Template!File
    BY <1>1 DEF CatalogInv, CatalogTypes
  <2> QED  BY <1>1, <2>2, <2>3, MoveStep
<1>3. ASSUME NEW f \in {"list", "preview", "home", "save"}, Template!Arrive(v, f)
      PROVE  CatalogInv'
  <2>1. PICK s \in Template!Slugs :
          visit' = [visit EXCEPT ![v] = [Template!Idle EXCEPT
               !.for = f, !.slug = IF f = "list" THEN Null ELSE s,
               !.pc = IF f \in {"list", "preview"} THEN "list" ELSE "cached?"]]
    BY <1>3 DEF Template!Arrive
  <2> DEFINE j == [Template!Idle EXCEPT
               !.for = f, !.slug = IF f = "list" THEN Null ELSE s,
               !.pc = IF f \in {"list", "preview"} THEN "list" ELSE "cached?"]
  <2>2. j \in Visits /\ WayOf(j) /\ AnsweredWell(j)
    BY DEF Template!Idle, Visits, WayOf, AnsweredWell, Searches, Previews, Homes
  <2>3. Moves(v)
    BY <2>1, <2>2 DEF Moves
  <2>4. memo' \in {"none", "curated", "full"} /\ catalogFile' \in Template!File
    BY <1>1 DEF CatalogInv, CatalogTypes
  <2> QED  BY <1>1, <2>3, <2>4, MoveStep
<1> QED  BY <1>2, <1>3

\* A crash forgets the requests; files cut short stay, and are remembered.
LEMMA CrashStep == ASSUME CatalogInv, Template!Crash PROVE CatalogInv'
<1>1. broken' = broken \cup {s \in Template!Slugs : htmlFile[s] = "cut"}
  BY DEF Template!Crash
<1>2. Template!Idle \in Visits /\ WayOf(Template!Idle) /\ Template!Idle.pc = "idle"
  BY DEF Template!Idle, Visits, WayOf, Searches, Previews, Homes
<1>3. memo' = "none" /\ UNCHANGED <<catalogFile, htmlFile>>
      /\ visit' = [v \in Visitors |-> Template!Idle]
  BY DEF Template!Crash
<1>4. CatalogTypes'
  BY <1>1, <1>2, <1>3 DEF CatalogInv, CatalogTypes
<1>5. \A v \in Visitors : (WayOf(visit[v]) /\ AnsweredWell(visit[v]))'
  BY <1>2, <1>3 DEF WayOf, AnsweredWell
<1>6. CutSound'
  BY <1>1, <1>3 DEF CutSound
<1> QED  BY <1>4, <1>5, <1>6 DEF CatalogInv

LEMMA QuietStep ==
    ASSUME CatalogInv, Template!Tick \/ UNCHANGED templateVars PROVE CatalogInv'
<1>1. UNCHANGED <<memo, catalogFile, htmlFile, visit, broken>>
  BY DEF Template!Tick, templateVars
<1> QED
  BY <1>1 DEF CatalogInv, CatalogTypes, CutSound, WayOf, AnsweredWell

LEMMA CatalogNext == CatalogInv /\ [Template!Next]_templateVars => CatalogInv'
<1>1. \A v \in Visitors : CatalogInv /\ Template!Home(v) => CatalogInv'
  BY HomeMoves, HtmlArrivesStep, FillHtmlStep, ReadActiveStep DEF Template!Home
<1> QED
  BY <1>1, ListStep, PreviewStep, VisitStep, CrashStep, QuietStep DEF Template!Next

LEMMA CatalogAlways == Spec => []CatalogInv
<1>1. Init => CatalogInv
  BY CatalogInit DEF Init
<1>2. CatalogInv /\ [Next]_vars => CatalogInv'
  BY CatalogNext, TemplatePart
<1> QED  BY <1>1, <1>2, PTL DEF Spec

\* However many requests fetch and fill the same files and whenever the process
\* dies or the disk is full, no list and no thumbnail comes from a file cut
\* short, and a home page only beside the request that fills that file or after
\* a write of that very file ended short (FeCatalogService,
\* FeTemplateService::getActiveHtml).
THEOREM NoHalfFiles == Spec => []AnswersAreWhole
<1>1. CatalogInv => AnswersAreWhole
  BY DEF CatalogInv, AnsweredWell, AnswersAreWhole, Template!AnswersAreWhole, Template!At,
         Template!Is
<1> QED  BY <1>1, CatalogAlways, PTL

-----------------------------------------------------------------------------
(* Starts *)

LEMMA StartPart == [Next]_vars => [Start!Next]_startVars
<1>1. CASE UNCHANGED vars
  BY <1>1 DEF vars
<1>2. CASE StartSteps
  BY <1>2 DEF StartSteps
<1>3. CASE Next /\ ~StartSteps
  BY <1>3 DEF Next, RouteSteps, ListsSteps, UploadSteps, TemplateSteps, RateSteps,
              TokenSteps, MessageSteps, BodySteps
<1> QED  BY <1>1, <1>2, <1>3

S1 == "SESSION_SECRET"
J  == "JWT_SECRET"

Writing == {"session line", "jwt line"}
Entry   == {"secrets", "read"} \cup Writing
Setup   == {"config", "migrate", "seed", "seed role"}

StartTypes ==
    /\ file = Null \/ file \in [Start!Secrets -> Start!Values]
    /\ secrets \in [Start!Secrets -> Start!Values]
    /\ config \in {"baked in", "rewritten"}
    /\ rows \in [Start!Rows -> {"none", "seeded", "edited"}]
    /\ kind \in {"container", "production", "development"}
    /\ given \subseteq Start!Secrets /\ torn \in BOOLEAN
    /\ pc \in Entry \cup Setup
                \cup {"down", "validate", "listen", "serving", "failed", "no secrets"}

Bounded ==
    /\ schema \in 0..Migrations /\ boots \in 0..MaxBoots
    /\ pc # "down" => boots # 0

\* Who passes where: the entrypoint is the container's.
KindSound ==
    /\ pc \in Entry \cup {"config"} => kind = "container"
    /\ kind = "production" => pc \notin Setup
    /\ kind # "container" => file = Null

\* The secrets file is empty while it is written, complete afterwards, unless a
\* kill or a failed line tore it.
FileSound ==
    /\ pc = "session line" => file = Start!Empty
    /\ pc = "jwt line" => file # Null /\ (torn \/ file[S1] # Null) /\ file[J] = Null
    /\ file # Null /\ pc \notin Writing => torn \/ (file[S1] # Null /\ file[J] # Null)

\* The one JWT secret of an installation.
TheJwt ==
    IF J \in given THEN <<"given">>
    ELSE IF kind = "development" THEN <<"default">>
    ELSE IF file = Null THEN Null ELSE file[J]

\* Where the start has its secrets from, and what servers ran with.
SecretsSound ==
    /\ pc \in Entry => secrets = Start!Given
    /\ pc = "validate" /\ kind # "container" => secrets = Start!Given
    /\ pc \in Setup \cup {"listen"} => secrets[J] = TheJwt
    /\ pc = "validate" /\ kind = "container" => secrets[J] = TheJwt
    /\ kind = "container" /\ pc \in Setup \cup {"validate"} =>
          Start!Ready \/ torn \/ file = Null
    /\ pc = "listen" => TheJwt # Null
    /\ ranWith \subseteq {TheJwt} /\ Null \notin ranWith

SetUp ==
    kind = "container" =>
        /\ pc \in {"seed", "seed role", "validate", "listen", "serving"}
               => schema = Migrations
        /\ pc \in {"listen", "serving"} => Start!Ready
        /\ pc = "no secrets" => torn \/ file = Null

StartInv == StartTypes /\ Bounded /\ KindSound /\ FileSound /\ SecretsSound /\ SetUp

\* Values of secrets, and which of them are missing.
LEMMA Values ==
    /\ <<"given">> \in Start!Values /\ <<"given">> # Null
    /\ <<"default">> \in Start!Values /\ <<"default">> # Null
    /\ Null \in Start!Values /\ Null \notin [Start!Secrets -> Start!Values]
BY SecretAssumption DEF Start!Values

LEMMA DrawnIsValue ==
    ASSUME Bounded, pc # "down"
    PROVE  Start!Drawn \in Start!Values /\ Start!Drawn # Null
<1>0. boots \in 0..MaxBoots /\ boots # 0
  BY DEF Bounded
<1>1. boots \in 1..MaxBoots /\ boots \in Nat
  BY <1>0, BootAssumption
<1>2. Start!Drawn \in Start!Values
  BY <1>1 DEF Start!Drawn, Start!Values
<1> QED  BY <1>1, <1>2, SecretAssumption DEF Start!Drawn

LEMMA GivenFacts ==
    ASSUME given \subseteq Start!Secrets
    PROVE  /\ Start!Given \in [Start!Secrets -> Start!Values]
           /\ Start!Empty \in [Start!Secrets -> Start!Values]
           /\ \A x \in Start!Secrets :
                 /\ Start!Given[x] = IF x \in given THEN <<"given">> ELSE Null
                 /\ Start!Empty[x] = Null
           /\ S1 \in Start!Secrets /\ J \in Start!Secrets
BY Values DEF Start!Given, Start!Empty, Start!Secrets, S1, J

LEMMA StartInit == Start!Init => StartInv
<1> SUFFICES ASSUME Start!Init PROVE StartInv
  OBVIOUS
<1>1. StartTypes
  BY GivenFacts DEF Start!Init, StartTypes, Start!Rows
<1>3. schema = 0 /\ boots = 0 /\ pc = "down"
  BY DEF Start!Init
<1>4. Bounded
  BY <1>3, BootAssumption DEF Bounded
<1>2. KindSound /\ FileSound /\ SecretsSound /\ SetUp
  BY DEF Start!Init, KindSound, FileSound, SecretsSound, SetUp, Entry, Writing, Setup
<1> QED  BY <1>1, <1>2, <1>4 DEF StartInv

LEMMA BootStep == ASSUME StartInv, Start!Boot PROVE StartInv'
<1>1. StartTypes'
  BY GivenFacts DEF StartInv, StartTypes, Start!Boot, Entry
<1>2. Bounded'
  BY BootAssumption DEF StartInv, Bounded, Start!Boot
<1>3. (KindSound /\ FileSound /\ SetUp)'
  BY DEF StartInv, KindSound, FileSound, SetUp, Start!Boot, Entry, Writing, Setup, StartTypes
<1>4. SecretsSound'
  BY DEF StartInv, SecretsSound, Start!Boot, Entry, Writing, Setup, StartTypes, TheJwt, Start!Given
<1> QED  BY <1>1, <1>2, <1>3, <1>4 DEF StartInv

LEMMA CompleteStep ==
    ASSUME StartInv, Start!Complete,
           UNCHANGED <<kind, given, tools, file, secrets, config, schema, rows, boots, ranWith, torn>>
    PROVE  StartInv'
<1>1. pc = "secrets" /\ pc' = "config" /\ secrets = Start!Given
  BY DEF Start!Complete, StartInv, SecretsSound, Entry
<1>2. J \in given /\ secrets[J] = TheJwt /\ Start!Ready
  BY <1>1, GivenFacts DEF StartInv, StartTypes, Start!Complete, Start!Ready, TheJwt, J
<1>3. (StartTypes /\ Bounded /\ KindSound /\ FileSound /\ SetUp)'
  BY <1>1 DEF StartInv, StartTypes, Bounded, KindSound, FileSound, SetUp, Entry, Writing, Setup
<1>4. SecretsSound'
  BY <1>1, <1>2 DEF StartInv, SecretsSound, Entry, Writing, Setup, TheJwt, Start!Ready
<1> QED  BY <1>3, <1>4 DEF StartInv

LEMMA GenerateStep ==
    ASSUME StartInv, Start!Generate,
           UNCHANGED <<kind, given, tools, secrets, config, schema, rows, boots, ranWith>>
    PROVE  StartInv'
<1>1. pc = "secrets" /\ file = Null /\ kind = "container" /\ ~Start!Ready
      /\ secrets = Start!Given /\ torn' = torn
      /\ \/ pc' = "session line" /\ file' = Start!Empty
         \/ pc' = "read" /\ file' = Null
  BY DEF Start!Generate, Start!Missing, StartInv, SecretsSound, KindSound, Entry
<1>2. file' = Null \/ file' \in [Start!Secrets -> Start!Values]
  BY <1>1, GivenFacts DEF StartInv, StartTypes
<1>3. J \notin given => ranWith = {}
  BY <1>1 DEF StartInv, SecretsSound, TheJwt
<1>4. J \in given => TheJwt' = TheJwt
  BY DEF TheJwt
<1>5. (StartTypes /\ Bounded /\ KindSound /\ FileSound /\ SetUp)'
  BY <1>1, <1>2 DEF StartInv, StartTypes, Bounded, KindSound, FileSound, SetUp, Entry, Writing, Setup
<1>6. SecretsSound'
  BY <1>1, <1>3, <1>4 DEF StartInv, SecretsSound, Entry, Writing, Setup, Start!Given
<1> QED  BY <1>5, <1>6 DEF StartInv

LEMMA WriteStep ==
    ASSUME StartInv, Start!WriteSession \/ Start!WriteJwt,
           UNCHANGED <<kind, given, tools, secrets, config, schema, rows, boots, ranWith>>
    PROVE  StartInv'
<1>0. Start!Empty # Null /\ Start!Empty[J] = Null
  BY GivenFacts, Values DEF StartInv, StartTypes
<1>1. pc \in Writing /\ pc' \in {"jwt line", "read"} /\ kind = "container"
      /\ pc' = (IF pc = "session line" THEN "jwt line" ELSE "read")
      /\ file # Null /\ file[J] = Null /\ secrets = Start!Given
      /\ (pc = "jwt line" => torn \/ file[S1] # Null)
  <2>1. pc \in Writing /\ pc' = (IF pc = "session line" THEN "jwt line" ELSE "read")
    BY DEF Start!WriteSession, Start!WriteJwt, Writing
  <2>2. kind = "container" /\ secrets = Start!Given
    BY <2>1 DEF StartInv, SecretsSound, KindSound, Entry
  <2>3. file # Null /\ file[J] = Null /\ (pc = "jwt line" => torn \/ file[S1] # Null)
    BY <1>0, <2>1 DEF StartInv, FileSound, Writing
  <2> QED  BY <2>1, <2>2, <2>3
<1>2. file \in [Start!Secrets -> Start!Values] /\ Start!Drawn \in Start!Values
      /\ S1 \in Start!Secrets /\ J \in Start!Secrets /\ S1 # J /\ Null \in Start!Values
  BY <1>1, Values, DrawnIsValue, GivenFacts DEF StartInv, StartTypes, Writing, S1, J
<1>3. PICK d \in {Start!Drawn, Null} :
        /\ file' = [file EXCEPT ![IF pc = "session line" THEN S1 ELSE J] = d]
        /\ torn' = (torn \/ d = Null)
  BY DEF Start!WriteSession, Start!WriteJwt, Start!WriteLine, S1, J
<1>4. file' \in [Start!Secrets -> Start!Values] /\ file' # Null /\ torn' \in BOOLEAN
  BY <1>2, <1>3, SecretAssumption
<1>5. /\ pc = "session line" => (torn' \/ file'[S1] # Null) /\ file'[J] = Null
      /\ pc = "jwt line" => torn' \/ (file'[S1] # Null /\ file'[J] # Null)
  BY <1>1, <1>2, <1>3 DEF Writing
<1>6. J \notin given => ranWith = {}
  BY <1>1 DEF StartInv, SecretsSound, TheJwt
<1>7. J \in given => TheJwt' = TheJwt
  BY DEF TheJwt
<1>8. (StartTypes /\ Bounded /\ KindSound /\ SetUp)'
  BY <1>1, <1>4 DEF StartInv, StartTypes, Bounded, KindSound, SetUp, Entry, Writing, Setup
<1>9. FileSound'
  BY <1>1, <1>4, <1>5 DEF FileSound, Writing
<1>10. SecretsSound'
  BY <1>1, <1>6, <1>7 DEF StartInv, SecretsSound, Entry, Writing, Setup, Start!Given
<1> QED  BY <1>8, <1>9, <1>10 DEF StartInv

LEMMA FoundStep ==
    ASSUME StartInv, Start!Found,
           UNCHANGED <<kind, given, tools, file, secrets, config, schema, rows, boots, ranWith, torn>>
    PROVE  StartInv'
<1>1. pc = "secrets" /\ pc' = "read" /\ file # Null
  BY DEF Start!Found, Start!Missing
<1>2. (StartTypes /\ Bounded /\ KindSound /\ FileSound /\ SetUp)'
  BY <1>1 DEF StartInv, StartTypes, Bounded, KindSound, FileSound, SetUp, Entry, Writing, Setup
<1>3. SecretsSound'
  BY <1>1 DEF StartInv, SecretsSound, Entry, Writing, Setup, TheJwt, Start!Given
<1> QED  BY <1>2, <1>3 DEF StartInv

LEMMA ReadSecretsStep ==
    ASSUME StartInv, Start!ReadSecrets,
           UNCHANGED <<kind, given, tools, file, config, schema, rows, boots, ranWith, torn>>
    PROVE  StartInv'
<1>1. /\ pc = "read" /\ pc' = "config" /\ kind = "container" /\ secrets = Start!Given
      /\ file = Null \/ file \in [Start!Secrets -> Start!Values]
      /\ torn \/ file = Null \/ (file[S1] # Null /\ file[J] # Null)
      /\ secrets' = [x \in Start!Secrets |-> IF x \in given THEN secrets[x]
                                              ELSE IF file = Null THEN Null ELSE file[x]]
  BY DEF Start!ReadSecrets, StartInv, StartTypes, SecretsSound, KindSound, FileSound, Entry, Writing
<1>2. \A x \in Start!Secrets :
        secrets'[x] = IF x \in given THEN <<"given">>
                      ELSE IF file = Null THEN Null ELSE file[x]
  BY <1>1, GivenFacts DEF StartInv, StartTypes
<1>3. secrets' \in [Start!Secrets -> Start!Values]
  BY <1>1, <1>2, Values
<1>4. S1 \in Start!Secrets /\ J \in Start!Secrets
  BY DEF Start!Secrets, S1, J
<1>5. secrets'[J] = TheJwt /\ TheJwt' = TheJwt
  BY <1>1, <1>2, <1>4 DEF TheJwt
<1>6. Start!Ready' \/ torn \/ file = Null
  BY <1>1, <1>2, <1>4, Values DEF Start!Ready, S1, J
<1>7. (StartTypes /\ Bounded /\ KindSound /\ FileSound /\ SetUp)'
  BY <1>1, <1>3 DEF StartInv, StartTypes, Bounded, KindSound, FileSound, SetUp, Entry, Writing, Setup
<1>8. SecretsSound'
  BY <1>1, <1>5, <1>6 DEF StartInv, SecretsSound, Entry, Writing, Setup
<1> QED  BY <1>7, <1>8 DEF StartInv

\* The steps after the secrets that write no secret and no file.
LEMMA SetupStep ==
    ASSUME StartInv,
           \/ Start!Configure /\ UNCHANGED <<schema, rows>>
           \/ (Start!Migrated \/ Start!MigrateFails \/ Start!SeedFails)
                 /\ UNCHANGED <<config, schema, rows>>
           \/ (Start!SeedAdmin \/ Start!SeedRole) /\ UNCHANGED <<config, schema>>
           \/ Start!Apply /\ UNCHANGED <<pc, config>>,
           UNCHANGED <<kind, given, tools, file, secrets, boots, ranWith, torn>>
    PROVE  StartInv'
<1>1. rows' \in [Start!Rows -> {"none", "seeded", "edited"}]
  BY DEF StartInv, StartTypes, Start!Configure, Start!Migrated, Start!MigrateFails,
         Start!SeedFails, Start!SeedAdmin, Start!SeedRole, Start!Seed, Start!Apply,
         Start!InsertOrIgnore
<1>2. /\ pc \in Setup /\ pc' \in {"migrate", "seed", "seed role", "validate", "listen", "failed"}
      /\ pc' = "validate" => kind = "container"
      /\ pc' = "listen" => kind = "development"
      /\ config' \in {"baked in", "rewritten"}
  BY DEF StartInv, StartTypes, KindSound, SetUp, Start!Configure, Start!Migrated,
         Start!MigrateFails, Start!SeedFails, Start!SeedAdmin, Start!SeedRole, Start!Seed,
         Start!AfterSeed, Start!Apply, Setup
<1>3. /\ schema' \in 0..Migrations
      /\ kind = "container" /\ pc' \in {"seed", "seed role", "validate"} => schema' = Migrations
  <2>1. CASE Start!Apply /\ UNCHANGED <<pc, config>>
    <3>1. schema \in 0..Migrations /\ schema < Migrations /\ schema' = schema + 1
      BY <2>1 DEF StartInv, Bounded, Start!Apply
    <3>2. schema' \in 0..Migrations
      BY <3>1, BootAssumption
    <3> QED  BY <2>1, <3>2 DEF Start!Apply
  <2>2. CASE ~(Start!Apply /\ UNCHANGED <<pc, config>>)
    BY <2>2 DEF StartInv, Bounded, SetUp, Start!Configure, Start!Migrated,
         Start!MigrateFails, Start!SeedFails, Start!SeedAdmin, Start!SeedRole, Start!Seed
  <2> QED  BY <2>1, <2>2
<1>4. (StartTypes /\ Bounded /\ KindSound /\ FileSound)'
  BY <1>1, <1>2, <1>3
     DEF StartInv, StartTypes, Bounded, KindSound, FileSound, Entry, Writing, Setup
<1>5. SetUp'
  BY <1>2, <1>3 DEF SetUp, StartInv
<1>6. TheJwt' = TheJwt /\ (kind = "development" => TheJwt # Null)
      /\ (Start!Ready' <=> Start!Ready)
  BY Values DEF TheJwt, Start!Ready
<1>7. SecretsSound'
  BY <1>2, <1>6 DEF StartInv, SecretsSound, Entry, Writing, Setup
<1> QED  BY <1>4, <1>5, <1>7 DEF StartInv

LEMMA ValidateStep ==
    ASSUME StartInv, Start!Validate,
           UNCHANGED <<kind, given, tools, file, config, schema, rows, boots, ranWith, torn>>
    PROVE  StartInv'
<1> J \in Start!Secrets
  BY DEF Start!Secrets, J
<1>1. TheJwt' = TheJwt
  BY DEF TheJwt
<1>2. CASE kind = "development"
  <2>1. /\ pc = "validate" /\ pc' \in {"migrate", "listen"} /\ secrets = Start!Given
        /\ secrets' = [x \in Start!Secrets |->
                         IF secrets[x] = Null THEN <<"default">> ELSE secrets[x]]
    BY <1>2 DEF Start!Validate, StartInv, SecretsSound
  <2>2. secrets' \in [Start!Secrets -> Start!Values]
    BY <2>1, Values, GivenFacts DEF StartInv, StartTypes
  <2>3. secrets'[J] = TheJwt /\ TheJwt # Null
    BY <1>2, <2>1, Values, GivenFacts DEF StartInv, StartTypes, TheJwt
  <2>4. (StartTypes /\ Bounded /\ KindSound /\ FileSound /\ SetUp)'
    BY <1>2, <2>1, <2>2
       DEF StartInv, StartTypes, Bounded, KindSound, FileSound, SetUp, Entry, Writing, Setup
  <2>5. SecretsSound'
    BY <1>1, <1>2, <2>1, <2>3 DEF StartInv, SecretsSound, Entry, Writing, Setup
  <2> QED  BY <2>4, <2>5 DEF StartInv
<1>3. CASE kind # "development"
  <2>1. /\ pc = "validate" /\ secrets' = secrets
        /\ pc' = (IF Start!Ready THEN "listen" ELSE "no secrets")
    BY <1>3 DEF Start!Validate
  <2>2. secrets[J] = TheJwt
    BY <1>3, <2>1, GivenFacts DEF StartInv, StartTypes, KindSound, SecretsSound, TheJwt
  <2>3. pc' = "listen" => TheJwt # Null
    BY <2>1, <2>2 DEF Start!Ready, J
  <2>4. (kind = "container" => Start!Ready \/ torn \/ file = Null)
        /\ (Start!Ready' <=> Start!Ready)
    BY <2>1 DEF StartInv, SecretsSound, Start!Ready
  <2>5. (StartTypes /\ Bounded /\ KindSound /\ FileSound)'
    BY <2>1
       DEF StartInv, StartTypes, Bounded, KindSound, FileSound, Entry, Writing, Setup
  <2>6. SetUp'
    BY <2>1, <2>4 DEF StartInv, SetUp
  <2>7. SecretsSound'
    BY <1>1, <1>3, <2>1, <2>2, <2>3 DEF StartInv, SecretsSound, Entry, Writing, Setup
  <2> QED  BY <2>5, <2>6, <2>7 DEF StartInv
<1> QED  BY <1>2, <1>3

LEMMA ListenStep ==
    ASSUME StartInv, Start!Listen,
           UNCHANGED <<kind, given, tools, file, secrets, config, schema, rows, boots, torn>>
    PROVE  StartInv'
<1>1. pc = "listen" /\ pc' \in {"serving", "failed"} /\ ranWith' \subseteq ranWith \cup {secrets[J]}
  BY DEF Start!Listen, J
<1>2. secrets[J] = TheJwt /\ TheJwt # Null /\ TheJwt' = TheJwt
      /\ (Start!Ready' <=> Start!Ready)
  BY <1>1 DEF StartInv, SecretsSound, TheJwt, Start!Ready
<1>3. (StartTypes /\ Bounded /\ KindSound /\ FileSound)'
  BY <1>1 DEF StartInv, StartTypes, Bounded, KindSound, FileSound, Entry, Writing, Setup
<1>4. SetUp'
  BY <1>1, <1>2 DEF StartInv, SetUp
<1>5. SecretsSound'
  BY <1>1, <1>2 DEF StartInv, SecretsSound, Entry, Writing, Setup
<1> QED  BY <1>3, <1>4, <1>5 DEF StartInv

LEMMA KillStep ==
    ASSUME StartInv, Start!Kill,
           UNCHANGED <<kind, given, tools, file, config, schema, rows, boots, ranWith>>
    PROVE  StartInv'
<1>1. pc' = "down" /\ secrets' = Start!Empty /\ torn' = (torn \/ pc \in Writing)
  BY DEF Start!Kill, Writing
<1>2. torn' \in BOOLEAN
  BY <1>1
<1>3. (StartTypes /\ Bounded /\ KindSound /\ SetUp)'
  BY <1>1, <1>2, GivenFacts DEF StartInv, StartTypes, Bounded, KindSound, SetUp, Entry, Setup, Writing
<1>4. FileSound'
  BY <1>1 DEF StartInv, FileSound, Writing
<1>5. SecretsSound'
  BY <1>1 DEF StartInv, SecretsSound, Entry, Writing, Setup, TheJwt
<1> QED  BY <1>3, <1>4, <1>5 DEF StartInv

\* The admin's changes of the seeded rows.
LEMMA RowsStep ==
    ASSUME StartInv,
           (\E r \in Start!Rows : Start!Change(r))
              \/ (\E away \in SUBSET Start!Rows \ {{}} : Start!Delete(away)),
           UNCHANGED <<kind, given, tools, pc, file, secrets, config, schema, boots, ranWith, torn>>
    PROVE  StartInv'
<1>1. rows' \in [Start!Rows -> {"none", "seeded", "edited"}]
  BY DEF StartInv, StartTypes, Start!Change, Start!Delete
<1>2. (StartTypes /\ Bounded /\ KindSound /\ FileSound /\ SetUp)'
  BY <1>1 DEF StartInv, StartTypes, Bounded, KindSound, FileSound, SetUp, Start!Ready
<1>3. SecretsSound'
  BY DEF StartInv, SecretsSound, TheJwt, Start!Given, Start!Ready
<1> QED  BY <1>2, <1>3 DEF StartInv

LEMMA RestingStep == ASSUME StartInv, UNCHANGED startVars PROVE StartInv'
<1>1. (StartTypes /\ Bounded /\ KindSound /\ FileSound /\ SetUp)'
  BY DEF startVars, StartInv, StartTypes, Bounded, KindSound, FileSound, SetUp, Start!Ready
<1>2. SecretsSound'
  BY DEF startVars, StartInv, SecretsSound, TheJwt, Start!Given, Start!Ready
<1> QED  BY <1>1, <1>2 DEF StartInv

LEMMA StartNext == StartInv /\ [Start!Next]_startVars => StartInv'
BY BootStep, CompleteStep, GenerateStep, WriteStep, FoundStep, ReadSecretsStep, SetupStep,
   ValidateStep, ListenStep, KillStep, RowsStep, RestingStep DEF Start!Next

LEMMA StartAlways == Spec => []StartInv
<1>1. Init => StartInv
  BY StartInit DEF Init
<1>2. StartInv /\ [Next]_vars => StartInv'
  BY StartNext, StartPart
<1> QED  BY <1>1, <1>2, PTL DEF Spec

\* Every server of an installation runs with the same JWT secret, whatever is
\* killed when (the secrets of docker-entrypoint.sh, AppConfig::load and main.cc).
THEOREM OneSecret == Spec => []SecretIsStable
<1>1. StartInv => SecretIsStable
  BY DEF StartInv, SecretsSound, SecretIsStable, Start!SecretIsStable
<1> QED  BY <1>1, StartAlways, PTL

\* A container that serves has its secrets and its whole schema; one lacks a
\* secret only where its file could not be created, or a kill or a failed line
\* left it without one (docker-entrypoint.sh).
THEOREM ContainersAreSetUp == Spec => []StartsAreComplete
<1>1. StartInv => StartsAreComplete
  BY DEF StartInv, SetUp, StartsAreComplete, Start!StartsAreComplete
<1> QED  BY <1>1, StartAlways, PTL

\* No start changes or removes a row that exists (src/db/seeds/seed.sql and the
\* last migration insert or ignore).
THEOREM RowsAreKept == Spec => BootKeepsRows
<1> DEFINE Keep == pc # "serving" => \A r \in Start!Rows : rows[r] # "none" => rows'[r] = rows[r]
<1>1. StartInv /\ Start!Next => Keep
  BY DEF StartInv, StartTypes, Start!Next, Start!Boot, Start!Configure, Start!Apply,
         Start!InsertOrIgnore, Start!SeedAdmin, Start!SeedRole, Start!Seed, Start!Listen,
         Start!Kill, Start!Change, Start!Delete
<1>2. StartInv /\ [Next]_vars => [Keep]_rows
  BY <1>1, StartPart DEF startVars
<1> QED  BY <1>2, StartAlways, PTL DEF Spec, BootKeepsRows, Start!BootKeepsRows
=============================================================================
