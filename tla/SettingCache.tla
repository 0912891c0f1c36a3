---------------------------- MODULE SettingCache ----------------------------
(***************************************************************************)
(* The settings row and the process-wide cache in front of it:             *)
(* SettingService::findFirst, update and invalidate, and the part of       *)
(* FeTemplateService::ensure that decides whether a save goes through.     *)
(*                                                                         *)
(* The mutex guards one access to the cache at a time, not the awaits      *)
(* between them.  So a statement and the code that resumes with its result *)
(* are two steps here: another event loop may write the row and clear the  *)
(* cache in between.                                                       *)
(***************************************************************************)
EXTENDS Naturals

CONSTANTS
    Themes, Slugs,    \* what the row holds: a theme, the slug of a template
    Shipped,          \* the slug the migration stores
    DefaultView,      \* kDefaultView: a view of the panel, served without a file
    Requests,         \* slots for requests in flight
    Null,
    Ttl               \* kTtlSec, in ticks

Settings == [theme : Themes, template : Slugs]

ASSUME SlugsAssumption   == Shipped \in Slugs /\ DefaultView \in Slugs
ASSUME NullAssumption    == Null \notin Themes \cup Slugs \cup Settings
ASSUME TtlAssumption     == Ttl \in Nat \ {0}

VARIABLES
    row,       \* the row of the settings table
    cache,     \* cache_, or Null
    age,       \* ticks since cacheAt_, up to Ttl
    disk,      \* the slugs whose template file exists
    req,       \* req[r]: the request in slot r
    overtaken  \* history: was the row written between the SELECT of the
               \* cached copy and its fill?

vars == <<row, cache, age, disk, req, overtaken>>

Request ==
    [pc : {"idle", "fill", "answered", "download", "write", "invalidate"},
     row : Settings \cup {Null},     \* the Settings object the coroutine holds
     old : BOOLEAN]                  \* history: the row was written since

Idle == [pc |-> "idle", row |-> Null, old |-> FALSE]

TypeOK ==
    /\ row \in Settings
    /\ cache \in Settings \cup {Null}
    /\ age \in 0..Ttl
    /\ disk \in SUBSET Slugs
    /\ req \in [Requests -> Request]
    /\ overtaken \in BOOLEAN

Init ==
    /\ row \in [theme : Themes, template : {Shipped}]
    /\ cache = Null
    /\ age = 0
    /\ disk = {}
    /\ req = [r \in Requests |-> Idle]
    /\ overtaken = FALSE

At(r, s) == req[r].pc = s

Take(r, s, w) == req' = [req EXCEPT ![r] = [pc |-> s, row |-> w, old |-> FALSE]]
Finish(r)     == req' = [req EXCEPT ![r] = Idle]

\* ensure returns at once.
Ready(s) == s = DefaultView \/ s \in disk

-----------------------------------------------------------------------------
(* findFirst *)

\* Mutant: the age of the copy is never looked at.
FreshWhenPresent == cache # Null

FreshEnough == cache # Null /\ age < Ttl

Hit(r) ==
    /\ At(r, "idle")
    /\ FreshEnough
    /\ Take(r, "answered", cache)
    /\ UNCHANGED <<row, cache, age, disk, overtaken>>

\* The database executes the SELECT.
MissRead(r) ==
    /\ At(r, "idle")
    /\ ~FreshEnough
    /\ Take(r, "fill", row)
    /\ UNCHANGED <<row, cache, age, disk, overtaken>>

\* The coroutine resumes with the result.
Fill(r) ==
    /\ At(r, "fill")
    /\ cache' = req[r].row
    /\ age' = 0
    /\ overtaken' = req[r].old
    /\ req' = [req EXCEPT ![r].pc = "answered"]
    /\ UNCHANGED <<row, disk>>

Respond(r) ==
    /\ At(r, "answered")
    /\ Finish(r)
    /\ UNCHANGED <<row, cache, age, disk, overtaken>>

\* getActiveHtml downloads the template of the settings it was given, if it can.
DownloadOnDemand(r) ==
    /\ At(r, "answered")
    /\ req[r].row.template # DefaultView
    /\ disk' = disk \cup {req[r].row.template}
    /\ UNCHANGED <<row, cache, age, req, overtaken>>

-----------------------------------------------------------------------------
(* update *)

\* Fields left empty keep what the read found.  A form that names a template
\* waits for its download unless the file is there.
UpdateRead(r) ==
    /\ At(r, "idle")
    /\ \E t \in Themes :
          \/ Take(r, "write", [row EXCEPT !.theme = t])
          \/ \E s \in Slugs :
                Take(r, IF Ready(s) THEN "write" ELSE "download",
                     [theme |-> t, template |-> s])
    /\ UNCHANGED <<row, cache, age, disk, overtaken>>

Download(r) ==
    /\ At(r, "download")
    /\ disk' = disk \cup {req[r].row.template}
    /\ req' = [req EXCEPT ![r].pc = "write"]
    /\ UNCHANGED <<row, cache, age, overtaken>>

\* Mutant: a failed download is logged and the save goes on.
DownloadFailsQuietly(r) ==
    /\ At(r, "download")
    /\ req' = [req EXCEPT ![r].pc = "write"]
    /\ UNCHANGED <<row, cache, age, disk, overtaken>>

\* A failed download fails the save.
DownloadFails(r) ==
    /\ At(r, "download")
    /\ Finish(r)
    /\ UNCHANGED <<row, cache, age, disk, overtaken>>

\* The database executes the UPDATE; a copy in flight is overtaken.
Write(r) ==
    /\ At(r, "write")
    /\ row' = req[r].row
    /\ req' = [s \in Requests |->
                 IF s = r THEN [Idle EXCEPT !.pc = "invalidate"]
                 ELSE [req[s] EXCEPT !.old = At(s, "fill")]]
    /\ UNCHANGED <<cache, age, disk, overtaken>>

\* Mutant: update returns without clearing the cache.
InvalidateNothing(r) ==
    /\ At(r, "invalidate")
    /\ Finish(r)
    /\ UNCHANGED <<row, cache, age, disk, overtaken>>

\* The coroutine resumes and clears the cache.
Invalidate(r) ==
    /\ At(r, "invalidate")
    /\ cache' = Null
    /\ overtaken' = FALSE
    /\ Finish(r)
    /\ UNCHANGED <<row, age, disk>>

\* A SELECT or an UPDATE that throws changes nothing.
RequestFails(r) ==
    /\ req[r].pc \in {"fill", "write"}
    /\ Finish(r)
    /\ UNCHANGED <<row, cache, age, disk, overtaken>>

Tick ==
    /\ age < Ttl
    /\ age' = age + 1
    /\ UNCHANGED <<row, cache, disk, req, overtaken>>

-----------------------------------------------------------------------------

Answer(r) ==
    \/ Fill(r) \/ Respond(r)
    \/ Download(r) \/ DownloadFails(r) \/ Write(r) \/ Invalidate(r)
    \/ RequestFails(r)

Next ==
    \/ \E r \in Requests :
          \/ Hit(r) \/ MissRead(r) \/ DownloadOnDemand(r) \/ UpdateRead(r)
          \/ Answer(r)
    \/ Tick

Spec == Init /\ [][Next]_vars

\* Time passes, and the event loops resume every coroutine.
FairSpec == Spec /\ WF_vars(Tick) /\ \A r \in Requests : WF_vars(Answer(r))

-----------------------------------------------------------------------------
(* Properties *)

\* The cache disagrees with the row only while an update stands between its
\* UPDATE and invalidate, or because the copy was overtaken by an update
\* between its SELECT and the fill: no other interleaving of readers and
\* admins leaves an outdated copy (SettingService.cc:19-41 and 76-77).
CacheIsCurrent ==
    cache # Null /\ cache # row =>
        overtaken \/ \E r \in Requests : At(r, "invalidate")

\* A template becomes the active one only when its file is on disk (or it
\* needs none), however saves and failing downloads interleave
\* (SettingService.cc:65-73).  Only the one the migration stores is exempt.
ActiveTemplateOnDisk == row.template \in disk \cup {Shipped, DefaultView}

\* When admins stop saving, every page shows the last save in the end: even a
\* copy an update overtook is gone after Ttl (SettingService.cc:22-25).
PagesCatchUp ==
    \A w \in Settings :
        <>[](row = w) => <>[](\A r \in Requests : At(r, "answered") => req[r].row = w)
=============================================================================
