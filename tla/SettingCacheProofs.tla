------------------------- MODULE SettingCacheProofs -------------------------
(***************************************************************************)
(* Proofs about SettingCache, for any settings, requests and time to live. *)
(***************************************************************************)
EXTENDS SettingCache, TLAPS

\* A busy request holds settings; a copy on its way to the cache is the row
\* unless it was overtaken; a save about to be written names a template that
\* is on disk.
Copies ==
    \A r \in Requests :
        /\ req[r].pc \in {"fill", "answered", "download", "write"} =>
              req[r].row \in Settings
        /\ At(r, "fill") => req[r].row = row \/ req[r].old
        /\ At(r, "write") => req[r].row.template \in disk \cup {Shipped, DefaultView}

Inv == TypeOK /\ Copies /\ CacheIsCurrent /\ ActiveTemplateOnDisk

LEMMA IdleType == Idle \in Request /\ Idle.pc = "idle"
BY DEF Idle, Request

LEMMA InitInv == Init => Inv
<1> SUFFICES ASSUME Init PROVE Inv
  OBVIOUS
<1>1. row \in Settings /\ row.template = Shipped
  BY SlugsAssumption DEF Init, Settings
<1>2. TypeOK
  <2>1. age \in 0..Ttl
    BY TtlAssumption DEF Init
  <2>2. req \in [Requests -> Request]
    BY IdleType DEF Init
  <2>3. disk \in SUBSET Slugs
    BY DEF Init
  <2>4. overtaken \in BOOLEAN
    BY DEF Init
  <2>5. cache \in Settings \cup {Null}
    BY DEF Init
  <2> QED  BY <1>1, <2>1, <2>2, <2>3, <2>4, <2>5 DEF TypeOK
<1>3. Copies
  BY IdleType DEF Init, Copies, At
<1>4. CacheIsCurrent /\ ActiveTemplateOnDisk
  BY <1>1 DEF Init, CacheIsCurrent, ActiveTemplateOnDisk
<1> QED  BY <1>2, <1>3, <1>4 DEF Inv

\* One slot takes a request that respects Copies; the tables and the cache
\* stay, and no update completes.
LEMMA SlotStep ==
    ASSUME Inv, NEW r \in Requests, NEW q \in Request,
           req' = [req EXCEPT ![r] = q],
           UNCHANGED <<row, cache, overtaken>>,
           age' \in 0..Ttl, disk' \in SUBSET Slugs, disk \subseteq disk',
           ~At(r, "invalidate"),
           q.pc \in {"fill", "answered", "download", "write"} => q.row \in Settings,
           q.pc = "fill" => q.row = row \/ q.old,
           q.pc = "write" =>
              q.row.template \in disk' \cup {Shipped, DefaultView}
    PROVE  Inv'
<1>1. /\ req' \in [Requests -> Request]
      /\ req'[r] = q
      /\ \A s \in Requests \ {r} : req'[s] = req[s]
  BY DEF Inv, TypeOK
<1>2. TypeOK'
  BY <1>1 DEF Inv, TypeOK
<1>3. Copies'
  BY <1>1 DEF Inv, Copies, At
<1>4. CacheIsCurrent'
  BY <1>1 DEF Inv, CacheIsCurrent, At
<1>5. ActiveTemplateOnDisk'
  BY DEF Inv, ActiveTemplateOnDisk
<1> QED  BY <1>2, <1>3, <1>4, <1>5 DEF Inv

\* Taking up a request at an idle slot.
LEMMA TakeStep ==
    ASSUME Inv, NEW r \in Requests, At(r, "idle"),
           NEW s \in {"fill", "answered", "download", "write"}, NEW w \in Settings,
           Take(r, s, w), UNCHANGED <<row, cache, age, disk, overtaken>>,
           s = "fill" => w = row,
           s = "write" => w.template \in disk \cup {Shipped, DefaultView}
    PROVE  Inv'
<1> DEFINE q == [pc |-> s, row |-> w, old |-> FALSE]
<1>1. q \in Request /\ q.pc = s /\ q.row = w
  BY DEF Request
<1>2. req' = [req EXCEPT ![r] = q]
  BY DEF Take
<1>3. age' \in 0..Ttl /\ disk' \in SUBSET Slugs /\ disk \subseteq disk'
  BY DEF Inv, TypeOK
<1> HIDE DEF q
<1> QED  BY <1>1, <1>2, <1>3, SlotStep DEF At

LEMMA ReadStep ==
    ASSUME Inv, NEW r \in Requests, Hit(r) \/ MissRead(r) \/ UpdateRead(r)
    PROVE  Inv'
<1>1. UNCHANGED <<row, cache, age, disk, overtaken>> /\ At(r, "idle")
  BY DEF Hit, MissRead, UpdateRead
<1>2. row \in Settings /\ (cache # Null => cache \in Settings)
      /\ row.template \in disk \cup {Shipped, DefaultView}
  BY DEF Inv, TypeOK, ActiveTemplateOnDisk
<1>3. CASE Hit(r)
  BY <1>1, <1>2, <1>3, TakeStep DEF Hit, FreshEnough
<1>4. CASE MissRead(r)
  BY <1>1, <1>2, <1>4, TakeStep DEF MissRead
<1>5. CASE UpdateRead(r)
  <2>1. PICK t \in Themes :
          \/ Take(r, "write", [row EXCEPT !.theme = t])
          \/ \E s \in Slugs :
                Take(r, IF Ready(s) THEN "write" ELSE "download",
                     [theme |-> t, template |-> s])
    BY <1>5 DEF UpdateRead
  <2>2. CASE Take(r, "write", [row EXCEPT !.theme = t])
    <3>1. /\ [row EXCEPT !.theme = t] \in Settings
          /\ [row EXCEPT !.theme = t].template = row.template
      BY <1>2 DEF Settings
    <3> QED  BY <1>1, <1>2, <2>2, <3>1, TakeStep
  <2>3. ASSUME NEW s \in Slugs,
               Take(r, IF Ready(s) THEN "write" ELSE "download",
                    [theme |-> t, template |-> s])
        PROVE  Inv'
    <3>1. [theme |-> t, template |-> s] \in Settings
      BY DEF Settings
    <3>2. CASE Ready(s)
      BY <1>1, <2>3, <3>1, <3>2, TakeStep DEF Ready
    <3>3. CASE ~Ready(s)
      BY <1>1, <2>3, <3>1, <3>3, TakeStep
    <3> QED  BY <3>2, <3>3
  <2> QED  BY <2>1, <2>2, <2>3
<1> QED  BY <1>3, <1>4, <1>5

\* The copy that reaches the cache is the row, or is known to be overtaken.
LEMMA FillStep == ASSUME Inv, NEW r \in Requests, Fill(r) PROVE Inv'
<1>1. /\ req[r] \in Request /\ req[r].row \in Settings
      /\ req[r].row = row \/ req[r].old
  BY DEF Inv, TypeOK, Copies, Fill, At
<1>2. /\ cache' = req[r].row /\ overtaken' = req[r].old /\ age' = 0
      /\ req' = [req EXCEPT ![r].pc = "answered"]
      /\ UNCHANGED <<row, disk>>
  BY DEF Fill
<1>3. /\ req' \in [Requests -> Request]
      /\ req'[r].pc = "answered" /\ req'[r].row = req[r].row
      /\ \A s \in Requests \ {r} : req'[s] = req[s]
  BY <1>1, <1>2 DEF Inv, TypeOK, Request
<1>4. TypeOK'
  BY <1>1, <1>2, <1>3, TtlAssumption DEF Inv, TypeOK, Request
<1>5. Copies'
  BY <1>1, <1>2, <1>3 DEF Inv, Copies, At
<1>6. (CacheIsCurrent /\ ActiveTemplateOnDisk)'
  BY <1>1, <1>2 DEF Inv, CacheIsCurrent, ActiveTemplateOnDisk
<1> QED  BY <1>4, <1>5, <1>6 DEF Inv

\* The row is written: every copy in flight is overtaken, and the cached one
\* waits for the invalidate of this update.
LEMMA WriteStep == ASSUME Inv, NEW r \in Requests, Write(r) PROVE Inv'
<1>1. req[r].row \in Settings /\ req[r].row.template \in disk \cup {Shipped, DefaultView}
  BY DEF Inv, Copies, Write, At
<1>2. /\ row' = req[r].row
      /\ UNCHANGED <<cache, age, disk, overtaken>>
  BY DEF Write
<1>3. /\ req'[r].pc = "invalidate"
      /\ req'[r] \in Request
      /\ \A s \in Requests \ {r} :
            /\ req'[s] \in Request
            /\ req'[s].pc = req[s].pc /\ req'[s].row = req[s].row
            /\ req[s].pc = "fill" => req'[s].old
  BY DEF Write, Inv, TypeOK, Request, Idle, At
<1>4. req' \in [Requests -> Request]
  <2>1. \A s \in Requests : req'[s] \in Request
    BY <1>3
  <2>2. req' = [s \in Requests |-> req'[s]]
    BY DEF Write
  <2> QED  BY <2>1, <2>2
<1>5. TypeOK'
  BY <1>1, <1>2, <1>4 DEF Inv, TypeOK
<1>6. Copies'
  BY <1>2, <1>3 DEF Inv, Copies, At
<1>7. CacheIsCurrent'
  BY <1>3 DEF CacheIsCurrent, At
<1>8. ActiveTemplateOnDisk'
  BY <1>1, <1>2 DEF ActiveTemplateOnDisk
<1> QED  BY <1>5, <1>6, <1>7, <1>8 DEF Inv

LEMMA InvalidateStep == ASSUME Inv, NEW r \in Requests, Invalidate(r) PROVE Inv'
<1>1. /\ cache' = Null /\ overtaken' = FALSE
      /\ req' = [req EXCEPT ![r] = Idle]
      /\ UNCHANGED <<row, age, disk>>
  BY DEF Invalidate, Finish
<1>2. /\ req' \in [Requests -> Request]
      /\ req'[r] = Idle
      /\ \A s \in Requests \ {r} : req'[s] = req[s]
  BY <1>1, IdleType DEF Inv, TypeOK
<1>3. TypeOK'
  BY <1>1, <1>2 DEF Inv, TypeOK
<1>4. Copies'
  BY <1>1, <1>2, IdleType DEF Inv, Copies, At
<1>5. (CacheIsCurrent /\ ActiveTemplateOnDisk)'
  BY <1>1 DEF Inv, CacheIsCurrent, ActiveTemplateOnDisk
<1> QED  BY <1>3, <1>4, <1>5 DEF Inv

\* Downloads only add files; a finished slot holds nothing.
LEMMA OtherStep ==
    ASSUME Inv, NEW r \in Requests,
           \/ Respond(r) \/ DownloadOnDemand(r) \/ Download(r)
           \/ DownloadFails(r) \/ RequestFails(r)
    PROVE  Inv'
<1>1. age' \in 0..Ttl /\ UNCHANGED <<row, cache, overtaken>> /\ ~At(r, "invalidate")
  BY DEF Inv, TypeOK, At, Respond, DownloadOnDemand, Download, DownloadFails,
         RequestFails
<1>2. CASE Respond(r) \/ DownloadFails(r) \/ RequestFails(r)
  <2>1. disk' = disk /\ req' = [req EXCEPT ![r] = Idle]
    BY <1>2 DEF Respond, DownloadFails, RequestFails, Finish
  <2> QED  BY <1>1, <2>1, IdleType, SlotStep DEF Inv, TypeOK
<1>3. ASSUME DownloadOnDemand(r) \/ Download(r)
      PROVE  /\ req[r] \in Request /\ req[r].row \in Settings
             /\ disk' = disk \cup {req[r].row.template}
             /\ disk' \in SUBSET Slugs
  BY <1>3 DEF Inv, TypeOK, Copies, At, DownloadOnDemand, Download, Settings
<1>4. CASE DownloadOnDemand(r)
  <2>1. req' = [req EXCEPT ![r] = req[r]] /\ req[r].pc = "answered"
    BY <1>4 DEF DownloadOnDemand, Inv, TypeOK, At
  <2> QED  BY <1>1, <1>3, <1>4, <2>1, SlotStep
<1>5. CASE Download(r)
  <2> DEFINE q == [req[r] EXCEPT !.pc = "write"]
  <2>1. req' = [req EXCEPT ![r] = q]
    BY <1>5 DEF Download, Inv, TypeOK
  <2>2. q \in Request /\ q.pc = "write" /\ q.row = req[r].row
    BY <1>3, <1>5 DEF Request
  <2> HIDE DEF q
  <2> QED  BY <1>1, <1>3, <1>5, <2>1, <2>2, SlotStep
<1> QED  BY <1>2, <1>4, <1>5

LEMMA StepInv == Inv /\ [Next]_vars => Inv'
<1> SUFFICES ASSUME Inv, [Next]_vars PROVE Inv'
  OBVIOUS
<1>1. ASSUME NEW r \in Requests, Hit(r) \/ MissRead(r) \/ UpdateRead(r) PROVE Inv'
  BY <1>1, ReadStep
<1>2. ASSUME NEW r \in Requests, Fill(r) PROVE Inv'
  BY <1>2, FillStep
<1>3. ASSUME NEW r \in Requests, Write(r) PROVE Inv'
  BY <1>3, WriteStep
<1>4. ASSUME NEW r \in Requests, Invalidate(r) PROVE Inv'
  BY <1>4, InvalidateStep
<1>5. ASSUME NEW r \in Requests,
             \/ Respond(r) \/ DownloadOnDemand(r) \/ Download(r)
             \/ DownloadFails(r) \/ RequestFails(r)
      PROVE  Inv'
  BY <1>5, OtherStep
<1>6. CASE Tick
  <2>1. age' \in 0..Ttl /\ UNCHANGED <<row, cache, disk, req, overtaken>>
    BY <1>6, TtlAssumption DEF Tick, Inv, TypeOK
  <2> QED  BY <2>1 DEF Inv, TypeOK, Copies, CacheIsCurrent, ActiveTemplateOnDisk, At
<1>7. CASE UNCHANGED vars
  BY <1>7 DEF vars, Inv, TypeOK, Copies, CacheIsCurrent, ActiveTemplateOnDisk, At
<1> QED  BY <1>1, <1>2, <1>3, <1>4, <1>5, <1>6, <1>7 DEF Next, Answer

LEMMA AlwaysInv == Spec => []Inv
BY InitInv, StepInv, PTL DEF Spec

-----------------------------------------------------------------------------

\* Every variable keeps its type: a cached copy is a whole row with its age, a
\* save in flight holds a whole row.
THEOREM TypeCorrect == Spec => []TypeOK
<1>1. Inv => TypeOK  BY DEF Inv
<1> QED  BY <1>1, AlwaysInv, PTL

\* Whatever the number of readers and admins, the cache disagrees with the row
\* only between an UPDATE and its invalidate, or with a copy that was overtaken
\* between its SELECT and the fill.
THEOREM CacheCurrent == Spec => []CacheIsCurrent
<1>1. Inv => CacheIsCurrent  BY DEF Inv
<1> QED  BY <1>1, AlwaysInv, PTL

\* The active template is always one whose file is on disk, or the shipped one.
THEOREM TemplateOnDisk == Spec => []ActiveTemplateOnDisk
<1>1. Inv => ActiveTemplateOnDisk  BY DEF Inv
<1> QED  BY <1>1, AlwaysInv, PTL
=============================================================================
