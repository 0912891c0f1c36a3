----------------------------- MODULE FeCatalog -----------------------------
(***************************************************************************)
(* The catalog of front-end templates and the template files: list and     *)
(* previewHtml of FeCatalogService, ensure and getActiveHtml of            *)
(* FeTemplateService.                                                      *)
(*                                                                         *)
(* The catalog is kept in memory for Ttl and on disk for ever.  A request  *)
(* that finds neither asks the remote host; nothing stops a second request *)
(* from doing the same meanwhile, and the answers may differ.  Files are   *)
(* written in place: truncated, then filled, on any of several event       *)
(* loops.  A crash in between leaves a file cut short, and so does a full  *)
(* disk: no write is looked at once its file is open.                      *)
(***************************************************************************)
EXTENDS Naturals

CONSTANTS
    Null,
    Visitors,             \* slots for requests in flight
    Default, Rare,        \* kDefault, curated; a template only the host lists
    Ttl,                  \* kCatalogTtl, in ticks
    MaxCrashes            \* bounds the crashes

Slugs == {Default, Rare}

VARIABLES
    memo, memoAge,    \* memo_: "none", "curated" or "full"; ticks since memoAt_
    catalogFile,      \* _catalog.json: "absent", "cut" or "whole"
    htmlFile,         \* htmlFile[s]: the cached template, likewise
    visit,            \* visit[v]: the request in slot v
    crashes,
    broken            \* history: the templates a crash or a short write left cut

vars == <<memo, memoAge, catalogFile, htmlFile, visit, crashes, broken>>

\* What a request is for, where it stands, and what it was answered.  "beside":
\* another request was writing the file when this one read it.
Idle == [for |-> "idle", pc |-> "idle", slug |-> Null, answer |-> Null, beside |-> FALSE]

At(v, p)      == visit[v].pc = p
Go(v, p)      == visit' = [visit EXCEPT ![v].pc = p]
Answer(v, a)  == visit' = [visit EXCEPT ![v].pc = "done", ![v].answer = a, ![v].slug = Null]
Is(v, f)      == visit[v].for = f

Init ==
    /\ memo = "none" /\ memoAge = 0
    /\ catalogFile = "absent" /\ htmlFile = [s \in Slugs |-> "absent"]
    /\ visit = [v \in Visitors |-> Idle]
    /\ crashes = 0 /\ broken = {}

Contents(l) == IF l = "full" THEN Slugs ELSE {Default}

\* A visitor opens the settings (the list), a thumbnail, the home page, or an
\* admin saves another template.
Arrive(v, f) ==
    /\ At(v, "idle")
    /\ \E s \in Slugs :
           visit' = [visit EXCEPT ![v] = [Idle EXCEPT
               !.for = f, !.slug = IF f = "list" THEN Null ELSE s,
               !.pc = IF f \in {"list", "preview"} THEN "list" ELSE "cached?"]]
    /\ UNCHANGED <<memo, memoAge, catalogFile, htmlFile, crashes, broken>>

-----------------------------------------------------------------------------
(* FeCatalogService *)

\* With a list in hand, a preview goes on if the list has its slug.
Listed(v, l) ==
    IF Is(v, "list") THEN Answer(v, l)
    ELSE IF visit[v].slug \in Contents(l) THEN Go(v, "local") ELSE Answer(v, "unknown")

\* Mutant: what is in memory never grows old.
FreshForEver == memo # "none"

Fresh == memo # "none" /\ memoAge < Ttl

\* Mutant: a file is taken as it is.
readDiskCacheAnyway == IF catalogFile = "absent" THEN "none" ELSE catalogFile

\* readDiskCache: a file cut short does not parse and counts as none.
readDiskCache == IF catalogFile = "whole" THEN "full" ELSE "none"

ListFromMemo(v) ==
    /\ At(v, "list") /\ Fresh
    /\ Listed(v, memo)
    /\ UNCHANGED <<memo, memoAge, catalogFile, htmlFile, crashes, broken>>

ListFromDisk(v) ==
    /\ At(v, "list") /\ ~Fresh /\ readDiskCache # "none"
    /\ memo' = readDiskCache /\ memoAge' = 0
    /\ Listed(v, memo')
    /\ UNCHANGED <<catalogFile, htmlFile, crashes, broken>>

ListFetch(v) ==
    /\ At(v, "list") /\ ~Fresh /\ readDiskCache = "none"
    /\ Go(v, "fetch tree")
    /\ UNCHANGED <<memo, memoAge, catalogFile, htmlFile, crashes, broken>>

\* The answer goes to memory, then to disk (writeDiskCache); a file that cannot
\* be opened is left.
TreeArrives(v) ==
    /\ At(v, "fetch tree")
    /\ memo' = "full" /\ memoAge' = 0
    /\ \/ catalogFile' = "cut" /\ Go(v, "fill catalog")
       \/ catalogFile' = catalogFile /\ Listed(v, "full")
    /\ UNCHANGED <<htmlFile, crashes, broken>>

\* Offline, a status other than 200, no JSON, no templates: the curated list
\* takes the place of whatever is in memory.
TreeFails(v) ==
    /\ At(v, "fetch tree")
    /\ memo' = "curated" /\ memoAge' = 0
    /\ Listed(v, "curated")
    /\ UNCHANGED <<catalogFile, htmlFile, crashes, broken>>

FillCatalog(v) ==
    /\ At(v, "fill catalog")
    /\ catalogFile' \in {"whole", "cut"}
    /\ Listed(v, "full")
    /\ UNCHANGED <<memo, memoAge, htmlFile, crashes, broken>>

\* previewHtml: a local file counts if it has its closing tag.
looksLikeHtml(file) == file = "whole"

PreviewLocal(v) ==
    /\ At(v, "local")
    /\ IF looksLikeHtml(htmlFile[visit[v].slug]) THEN Answer(v, htmlFile[visit[v].slug])
       ELSE Go(v, "fetch preview")
    /\ UNCHANGED <<memo, memoAge, catalogFile, htmlFile, crashes, broken>>

PreviewArrives(v) ==
    /\ At(v, "fetch preview")
    /\ Answer(v, "whole")
    /\ UNCHANGED <<memo, memoAge, catalogFile, htmlFile, crashes, broken>>

PreviewFails(v) ==
    /\ At(v, "fetch preview")
    /\ Answer(v, IF looksLikeHtml(htmlFile[visit[v].slug]) THEN htmlFile[visit[v].slug]
                 ELSE "bad gateway")
    /\ UNCHANGED <<memo, memoAge, catalogFile, htmlFile, crashes, broken>>

-----------------------------------------------------------------------------
(* FeTemplateService *)

isCached(s) == htmlFile[s] # "absent"

\* A save is done once the template is there; a page goes on to read it.
Ensured(v) == IF Is(v, "save") THEN Answer(v, "saved") ELSE Go(v, "read")

\* ensure, and the look getActiveHtml takes before it.
Cached(v) ==
    /\ At(v, "cached?")
    /\ IF isCached(visit[v].slug) THEN Ensured(v) ELSE Go(v, "fetch html")
    /\ UNCHANGED <<memo, memoAge, catalogFile, htmlFile, crashes, broken>>

\* The answer arrives and the file is opened, which truncates it.
HtmlArrives(v) ==
    /\ At(v, "fetch html")
    /\ htmlFile' = [htmlFile EXCEPT ![visit[v].slug] = "cut"]
    /\ Go(v, "fill html")
    /\ UNCHANGED <<memo, memoAge, catalogFile, crashes, broken>>

\* No answer, or the file cannot be opened ("Gagal menyimpan template ke
\* cache"): the save fails, the page makes do without.
HtmlFails(v) ==
    /\ At(v, "fetch html")
    /\ IF Is(v, "save") THEN Answer(v, "error") ELSE Go(v, "read")
    /\ UNCHANGED <<memo, memoAge, catalogFile, htmlFile, crashes, broken>>

\* Nothing looks at the stream again: a short write counts as the whole file.
FillHtml(v) ==
    /\ At(v, "fill html")
    /\ LET s == visit[v].slug IN
       \/ htmlFile' = [htmlFile EXCEPT ![s] = "whole"] /\ UNCHANGED broken
       \/ htmlFile' = [htmlFile EXCEPT ![s] = "cut"] /\ broken' = broken \cup {s}
    /\ Ensured(v)
    /\ UNCHANGED <<memo, memoAge, catalogFile, crashes>>

\* The end of getActiveHtml: the file of the slug or of the default, as it is;
\* without either the page is rendered from the local view.
ReadActive(v) ==
    /\ At(v, "read")
    /\ LET target == IF isCached(visit[v].slug) THEN visit[v].slug ELSE Default
           busy   == \E w \in Visitors \ {v} : At(w, "fill html") /\ visit[w].slug = target
       IN  visit' = [visit EXCEPT ![v].pc = "done", ![v].slug = target, ![v].beside = busy,
                        ![v].answer = IF isCached(target) THEN htmlFile[target] ELSE "view"]
    /\ UNCHANGED <<memo, memoAge, catalogFile, htmlFile, crashes, broken>>

-----------------------------------------------------------------------------
Return(v) ==
    /\ At(v, "done")
    /\ visit' = [visit EXCEPT ![v] = Idle]
    /\ UNCHANGED <<memo, memoAge, catalogFile, htmlFile, crashes, broken>>

Tick ==
    /\ memo # "none" /\ memoAge < Ttl /\ memoAge' = memoAge + 1
    /\ UNCHANGED <<memo, catalogFile, htmlFile, visit, crashes, broken>>

\* The process dies and is started again: the files stay.
Crash ==
    /\ crashes < MaxCrashes /\ crashes' = crashes + 1
    /\ memo' = "none" /\ memoAge' = 0
    /\ visit' = [v \in Visitors |-> Idle]
    /\ broken' = broken \cup {s \in Slugs : htmlFile[s] = "cut"}
    /\ UNCHANGED <<catalogFile, htmlFile>>

List(v) == \/ ListFromMemo(v) \/ ListFromDisk(v) \/ ListFetch(v) \/ TreeArrives(v)
           \/ TreeFails(v) \/ FillCatalog(v)

Preview(v) == PreviewLocal(v) \/ PreviewArrives(v) \/ PreviewFails(v)

Home(v) == \/ Cached(v) \/ HtmlArrives(v) \/ HtmlFails(v) \/ FillHtml(v)
           \/ ReadActive(v)

Next == \/ \E v \in Visitors, f \in {"list", "preview", "home", "save"} : Arrive(v, f)
        \/ \E v \in Visitors : List(v) \/ Preview(v) \/ Home(v) \/ Return(v)
        \/ Tick \/ Crash

-----------------------------------------------------------------------------
File == {"absent", "cut", "whole"}

TypeOK ==
    /\ memo \in {"none", "curated", "full"} /\ memoAge \in 0..Ttl
    /\ catalogFile \in File /\ htmlFile \in [Slugs -> File]
    /\ \A v \in Visitors : visit[v].slug \in Slugs \cup {Null}
    /\ crashes \in 0..MaxCrashes /\ broken \subseteq Slugs

\* A list that is answered is the curated one or the whole one, and a thumbnail
\* is whole or an error: a file cut short, or read while it is written, is never
\* taken for a whole one.  The home page, which is not looked at, is cut short
\* only if another request was writing its template at that moment, or the
\* write of that very template once ended short, by a crash or a full disk
\* (FeTemplateService.cc:82-84, 103-106; FeCatalogService.cc:118-122).
AnswersAreWhole ==
    \A v \in Visitors : At(v, "done") =>
        /\ Is(v, "list") => visit[v].answer \in {"curated", "full"}
        /\ Is(v, "preview") => visit[v].answer \in {"whole", "unknown", "bad gateway"}
        /\ Is(v, "home") /\ visit[v].answer = "cut" =>
              visit[v].beside \/ visit[v].slug \in broken

\* The fallback does not last: once a catalog is on disk and stays, memory
\* comes to hold it for good, however the fetches that overlapped ended.
CatalogRecovers == <>[](catalogFile = "whole") => <>[](memo = "full")
=============================================================================
