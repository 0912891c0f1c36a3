------------------------------ MODULE MCPanel ------------------------------
(***************************************************************************)
(* The parts of the panel around the records and the sessions, checked in  *)
(* one run.  They share no state, so a step of one never changes what the  *)
(* others may do: a behaviour takes the steps of one part, chosen at the   *)
(* start, and loses no behaviour of any part.                              *)
(***************************************************************************)
EXTENDS Integers, Sequences

CONSTANTS
    Null, Id, Wild,                              \* Routes
    MinSize, ApiMax, Offered, MaxRows, MaxItems, \* Listing
    Requests, UrlTtl, MaxTick, MaxForms,         \* Uploads
    Visitors, Default, Rare, Ttl, MaxCrashes,    \* FeCatalog
    Calls, Limit, Window, MaxRestarts,           \* RateLimit
    Sessions, Addresses, MaxHour,                \* Csrf
    Actors, MaxMessages,                         \* Flash
    MaxFields,                                   \* Forms
    Migrations, MaxBoots                         \* Bootstrap

VARIABLES
    part,
    mode, may, gone, req, hops,
    list, table, pin, query, asked, step, total, shown, disturbed, held, form,
    driver, store, row, job, now, full, page, forms, used, clash,
    memo, memoAge, catalogFile, htmlFile, visit, crashes, broken,
    count, ttl, call, expiring, lost, recent, restarts,
    cookie, expired, begun, address, hour, tab,
    flash_key, flash_message, actor, messages, due,
    fields, quoted, body, sent,
    kind, given, tools, pc, file, secrets, config, schema, rows, boots, ranWith, torn

Route    == INSTANCE Routes
Lists    == INSTANCE Listing
Upload   == INSTANCE Uploads
Template == INSTANCE FeCatalog
Rate     == INSTANCE RateLimit
Token    == INSTANCE Csrf
Message  == INSTANCE Flash
Body     == INSTANCE Forms
Start    == INSTANCE Bootstrap

\* The segments the registered paths spell out.
Literals ==
    {"users", "permissions", "roles", "create", "edit", "store", "update", "delete",
     "delete_selected", "permission", "assign", "unassign", "assign_selected",
     "unassign_selected", "dashboard", "components", "profile", "setting",
     "fe-preview", "media", "list", "upload", "home", "storage", "auth", "login",
     "signup", "logout", "reset", "req", "request", "proc", "process"}

\* An identifier and a {param} equal no literal segment of a path; what is absent
\* is no method and no name.
ASSUME RouteAssumption ==
    /\ Id # Wild /\ {Id, Wild} \cap Literals = {}
    /\ Null \notin {"PUT", "DELETE", "PATCH"}
    /\ \A t \in Route!Registered("web") : \A e \in t.names : e.name # Null

\* A row without a picture holds no key.
ASSUME KeyAssumption == Null \notin Upload!Keys
ASSUME TickAssumption == MaxTick \in Nat /\ UrlTtl \in Nat

\* Null is no session and no token: a form without one sends nothing.
ASSUME TokenAssumption ==
    Null \notin Sessions \cup ({"csrf"} \X Sessions) \cup ({"login-csrf"} \X Addresses \X Nat)
ASSUME HoursAssumption == MaxHour \in Nat \ {0}

\* A secret that is missing differs from one that is there, a file that is
\* missing from one without secrets.
ASSUME SecretAssumption ==
    Null \notin {<<"given">>, <<"default">>} \cup ({"drawn"} \X Nat)
              \cup [Start!Secrets -> Start!Values]
ASSUME BootAssumption == Migrations \in Nat /\ MaxBoots \in Nat

\* The bounds of the other parts are numbers too.
ASSUME BoundAssumption == Ttl \in Nat /\ MaxCrashes \in Nat /\ MaxFields \in Nat

\* A page has rows; the bounds are numbers.
ASSUME ListAssumption ==
    /\ MinSize \in Nat \ {0} /\ ApiMax \in Nat \ {0}
    /\ Offered \in Nat /\ MaxRows \in Nat /\ MaxItems \in Nat

\* A window lasts.
ASSUME RateAssumption == Limit \in Nat /\ Window \in Nat \ {0}

\* No message is kept under an empty key.
ASSUME MessageAssumption == MaxMessages \in Nat /\ Null \notin Message!Kinds \cup {"any"}

Parts == {"routes", "listing", "uploads", "templates", "rates", "csrf", "flash",
          "forms", "bootstrap"}

routeVars == <<mode, may, gone, req, hops>>
listVars == <<list, table, pin, query, asked, step, total, shown, disturbed, held, form>>
uploadVars == <<driver, store, row, job, now, full, page, forms, used, clash>>
templateVars == <<memo, memoAge, catalogFile, htmlFile, visit, crashes, broken>>
rateVars == <<count, ttl, call, expiring, lost, recent, restarts>>
tokenVars == <<cookie, expired, begun, address, hour, tab>>
messageVars == <<flash_key, flash_message, actor, messages, due>>
bodyVars == <<fields, quoted, body, sent>>
startVars == <<kind, given, tools, pc, file, secrets, config, schema, rows, boots, ranWith, torn>>

vars == <<part, routeVars, listVars, uploadVars, templateVars, rateVars,
          tokenVars, messageVars, bodyVars, startVars>>

\* A part that does not take the steps has one of its initial states.
Resting ==
    /\ part # "csrf" => address = CHOOSE a \in Addresses : TRUE
    /\ part # "forms" => ~quoted
    /\ part # "bootstrap" => kind = "container" /\ given = {} /\ tools

Init ==
    /\ part \in Parts
    /\ Route!Init /\ Lists!Init /\ Upload!Init /\ Template!Init /\ Rate!Init
    /\ Token!Init /\ Message!Init /\ Body!Init /\ Start!Init
    /\ Resting

RouteSteps ==
    /\ part = "routes" /\ Route!Next
    /\ UNCHANGED <<part, listVars, uploadVars, templateVars, rateVars,
                   tokenVars, messageVars, bodyVars, startVars>>

ListsSteps ==
    /\ part = "listing" /\ Lists!Next
    /\ UNCHANGED <<part, routeVars, uploadVars, templateVars, rateVars,
                   tokenVars, messageVars, bodyVars, startVars>>

UploadSteps ==
    /\ part = "uploads" /\ Upload!Next
    /\ UNCHANGED <<part, routeVars, listVars, templateVars, rateVars,
                   tokenVars, messageVars, bodyVars, startVars>>

TemplateSteps ==
    /\ part = "templates" /\ Template!Next
    /\ UNCHANGED <<part, routeVars, listVars, uploadVars, rateVars,
                   tokenVars, messageVars, bodyVars, startVars>>

RateSteps ==
    /\ part = "rates" /\ Rate!Next
    /\ UNCHANGED <<part, routeVars, listVars, uploadVars, templateVars,
                   tokenVars, messageVars, bodyVars, startVars>>

TokenSteps ==
    /\ part = "csrf" /\ Token!Next
    /\ UNCHANGED <<part, routeVars, listVars, uploadVars, templateVars,
                   rateVars, messageVars, bodyVars, startVars>>

MessageSteps ==
    /\ part = "flash" /\ Message!Next
    /\ UNCHANGED <<part, routeVars, listVars, uploadVars, templateVars,
                   rateVars, tokenVars, bodyVars, startVars>>

BodySteps ==
    /\ part = "forms" /\ Body!Next
    /\ UNCHANGED <<part, routeVars, listVars, uploadVars, templateVars,
                   rateVars, tokenVars, messageVars, startVars>>

StartSteps ==
    /\ part = "bootstrap" /\ Start!Next
    /\ UNCHANGED <<part, routeVars, listVars, uploadVars, templateVars,
                   rateVars, tokenVars, messageVars, bodyVars>>

Next == \/ RouteSteps \/ ListsSteps \/ UploadSteps \/ TemplateSteps \/ RateSteps
        \/ TokenSteps \/ MessageSteps \/ BodySteps \/ StartSteps

\* The clock goes on, a request under way goes on (the HTTP client gives up in
\* time), and the settings page is opened again and again.
TemplatesFair ==
    /\ WF_templateVars(Template!Tick)
    /\ \A w \in Visitors :
           /\ WF_templateVars(\/ Template!List(w) \/ Template!Preview(w)
                              \/ Template!Home(w) \/ Template!Return(w))
           /\ SF_templateVars(part = "templates" /\ Template!Arrive(w, "list"))

Spec == Init /\ [][Next]_vars /\ TemplatesFair

-----------------------------------------------------------------------------
\* Every variable keeps its type; only the part that takes the steps can
\* change its own.
TypeOK ==
    /\ part \in Parts
    /\ part = "routes" => Route!TypeOK
    /\ part = "listing" => Lists!TypeOK
    /\ part = "uploads" => Upload!TypeOK
    /\ part = "templates" => Template!TypeOK
    /\ part = "rates" => Rate!TypeOK
    /\ part = "csrf" => Token!TypeOK
    /\ part = "flash" => Message!TypeOK
    /\ part = "forms" => Body!TypeOK
    /\ part = "bootstrap" => Start!TypeOK

\* Routes: a form or a link performs the operation it is meant for, or, through
\* the form of a table, only shows the table again.
FormsReachTheirOperation == Route!FormsReachTheirOperation
\* Routes: the permission asked for is that of the operation performed; the
\* requests that pass unasked are those listed.
GuardNamesTheOperation == Route!GuardNamesTheOperation
\* Routes: redirects lead to pages and come to an end.
RedirectsEnd == Route!RedirectsEnd
\* Lists: a walk along the links shows each row that passes the filter.
WalkShowsEveryRow == Lists!WalkShowsEveryRow
\* Lists: page links are in order, with an ellipsis where pages are left out.
LinksAreInOrder == Lists!LinksAreInOrder
\* Lists: saving a user's form unchanged keeps the user's roles.
EditKeepsRoles == Lists!EditKeepsRoles
\* Uploads: a row names a picture that is there, and a page can load it.
PicturesAreStored == Upload!PicturesAreStored
\* Uploads: no upload replaces the picture of another row.
PicturesAreTheirOwn == Upload!PicturesAreTheirOwn
\* Templates: a file cut short is never taken for a whole one.
AnswersAreWhole == Template!AnswersAreWhole
\* Templates: the fallback list does not outlast a catalog on disk.
CatalogRecovers == Template!CatalogRecovers
\* Rate limit: of the counted requests, two limits' worth pass in any window.
AtMostTwice == Rate!AtMostTwice
\* Csrf: a form sent as it was opened passes.
HonestFormsPass == Token!HonestFormsPass
\* Csrf: a form passes only in the session it was opened in.
SessionsDoNotMix == Token!SessionsDoNotMix
\* Flash: a page shows the message stored last, whole and once.
PageShowsItsMessage == Message!PageShowsItsMessage
\* Forms: both parsers read back what was entered.
FormsReadBack == Body!FormsReadBack
\* Start: servers of one installation share the JWT secret.
SecretIsStable == Start!SecretIsStable
\* Start: a container serves with its secrets and its whole schema only.
StartsAreComplete == Start!StartsAreComplete
\* Start: a start changes no row that exists.
BootKeepsRows == Start!BootKeepsRows
=============================================================================
