------------------------------- MODULE Routes -------------------------------
(***************************************************************************)
(* How a browser's request becomes an operation of the panel: the tables   *)
(* filled by the register*Routes functions, the forms of the views, the    *)
(* filters of a route (MethodOverrideFilter, AuthFilter, RbacFilter with   *)
(* the reverse lookup of RouteRegistry), the dispatch of the POST          *)
(* companions, and the redirect a handler, a refusal or the exception      *)
(* handler answers with, followed by the browser.                          *)
(*                                                                         *)
(* CsrfFilter, between the override and AuthFilter, is left to Csrf.        *)
(*                                                                         *)
(* Drogon picks the handler from the method the browser sent; the override *)
(* changes the method afterwards, and the registry names the changed one.  *)
(* A path is the sequence of its segments, the prefix the pages share left *)
(* out.  A segment Id stands for an identifier, which no literal equals.   *)
(***************************************************************************)
EXTENDS Naturals, Sequences

CONSTANTS Null, Id, Wild     \* an identifier in a path, a {param} in a pattern

VARIABLES
    mode,      \* "down", or the deployment: "web" (the panel) or "api"
    may,       \* the route names granted to the account; Null: signed out
    gone,      \* was the row the browser looks at deleted by another admin?
    req,       \* the request of the browser
    hops       \* redirects followed since the user's click, up to MaxHops

vars == <<mode, may, gone, req, hops>>

MaxHops == 3

-----------------------------------------------------------------------------
(* The tables *)

Entry(name, method, path) == [name |-> name, method |-> method, path |-> path]
Handler(op, method, path, filters) ==
    [op |-> op, method |-> method, path |-> path, filters |-> filters]

Guarded == {"override", "auth", "rbac"}

\* The names of users and of permissions are those of their operations.
ListEntries(r) ==
    {Entry(<<r, "index">>,  "GET",    <<r>>),
     Entry(<<r, "create">>, "GET",    <<r, "create">>),
     Entry(<<r, "store">>,  "POST",   <<r>>),
     Entry(<<r, "show">>,   "GET",    <<r, Wild>>),
     Entry(<<r, "edit">>,   "GET",    <<r, Wild, "edit">>),
     Entry(<<r, "update">>, "PUT",    <<r, Wild>>),
     Entry(<<r, "delete">>, "DELETE", <<r, Wild>>)}

\* webConstraints on every handler.  "companion" dispatches on _method itself;
\* no name is registered for it, nor for delete_selected.
ListHandlers(r) ==
    {Handler(e.name, e.method, e.path, Guarded) : e \in ListEntries(r)} \cup
    {Handler(<<r, "companion">>, "POST", <<r, Wild>>, Guarded),
     Handler(<<r, "delete_selected">>, "POST", <<r, "delete_selected">>, Guarded)}

UserRoutes == [names |-> ListEntries("users"), handlers |-> ListHandlers("users")]
PermissionRoutes ==
    [names |-> ListEntries("permissions"), handlers |-> ListHandlers("permissions")]

\* The operation behind a name: two names of roles are kept for old paths.
Operation(name) ==
    CASE name = <<"roles", "update_path">> -> <<"roles", "update">>
      [] name = <<"roles", "delete_path">> -> <<"roles", "delete">>
      [] OTHER -> name

RoleRoutes ==
    LET r == "roles"
        Names == (ListEntries(r) \ {Entry(<<r, "store">>, "POST", <<r>>)}) \cup
            {Entry(<<r, "store">>, "POST", <<r, "store">>),
             Entry(<<r, "delete_selected">>, "POST", <<r, "delete_selected">>),
             Entry(<<r, "update_path">>, "POST", <<r, Wild, "update">>),
             Entry(<<r, "delete_path">>, "POST", <<r, Wild, "delete">>)}
    IN  [names |-> Names,
         handlers |->
            {Handler(Operation(e.name), e.method, e.path, Guarded) : e \in Names}
            \cup {Handler(<<r, "companion">>, "POST", <<r, Wild>>, Guarded)}]

GrantRoutes ==
    LET Names == {Entry(<<"grants", "index">>, "GET", <<"roles", Wild, "permission">>),
                  Entry(<<"grants", "assign">>, "GET", <<"roles", Wild, "permission", Wild, "assign">>),
                  Entry(<<"grants", "unassign">>, "GET", <<"roles", Wild, "permission", Wild, "unassign">>),
                  Entry(<<"grants", "assign_selected">>, "POST", <<"roles", Wild, "permission", "assign_selected">>),
                  Entry(<<"grants", "unassign_selected">>, "POST", <<"roles", Wild, "permission", "unassign_selected">>)}
    IN  [names |-> Names,
         handlers |-> {Handler(e.name, e.method, e.path, Guarded) : e \in Names}]

DashboardRoutes ==
    [names |-> {Entry(<<"dashboard", "index">>, "GET", <<"dashboard">>)},
     handlers |-> {Handler(<<"dashboard", "index">>, "GET", <<"dashboard">>, Guarded),
                   Handler(<<"admin", "index">>, "GET", <<>>, {})}]

ComponentsRoutes ==
    [names |-> {Entry(<<"components", "index">>, "GET", <<"components">>)},
     handlers |-> {Handler(<<"components", "index">>, "GET", <<"components">>, Guarded)}]

\* Every signed-in user may manage the own profile: no RbacFilter.
ProfileRoutes ==
    LET own == Guarded \ {"rbac"}  save == <<"profile", "update">>
    IN  [names |-> {Entry(<<"profile", "show">>, "GET", <<"profile">>),
                    Entry(save, "PUT", save)},
         handlers |-> {Handler(<<"profile", "show">>, "GET", <<"profile">>, own),
                       Handler(save, "PUT", save, own),
                       Handler(save, "POST", save, own)}]

SettingRoutes ==
    LET s == <<"setting">>  fe == <<"setting", "fe-preview", Wild>>
        edit == <<"setting", "edit">>  save == <<"setting", "update">>
        preview == <<"setting", "fe_preview">>
    IN  [names |-> {Entry(edit, "GET", s), Entry(save, "PUT", s),
                    Entry(preview, "GET", fe)},
         handlers |-> {Handler(edit, "GET", s, Guarded), Handler(save, "PUT", s, Guarded),
                       Handler(save, "POST", s, Guarded),
                       Handler(preview, "GET", fe, Guarded)}]

\* No MethodOverrideFilter: the media dialog calls with the real methods.
MediaRoutes ==
    LET Op(a) == <<"media", a>>  filters == Guarded \ {"override"}
        Names == {Entry(Op("list"), "GET", Op("list"))}
                 \cup {Entry(Op(a), "POST", Op(a)) : a \in {"upload", "delete"}}
    IN  [names |-> Names,
         handlers |-> {Handler(e.name, e.method, e.path, filters) : e \in Names}]

HomeRoutes ==
    [names |-> {},
     handlers |-> {Handler(<<"home", "index">>, "GET", <<"home">>, {})}]

StorageRoutes ==
    [names |-> {},
     handlers |-> {Handler(<<"storage", "serve">>, "GET", <<"storage", Wild>>, {})}]

\* The pages without a session; only logout asks for one.
AuthRoutes ==
    LET Page(a) == <<"auth", a>>
        Names == {Entry(Page("login"), "GET", <<"auth", "login">>),
                  Entry(Page("login.post"), "POST", <<"auth", "login">>),
                  Entry(Page("signup"), "GET", <<"auth", "signup">>),
                  Entry(Page("signup.post"), "POST", <<"auth", "signup">>),
                  Entry(Page("logout"), "POST", <<"auth", "logout">>),
                  Entry(Page("reset.req"), "GET", <<"auth", "reset", "req">>),
                  Entry(Page("reset.request"), "POST", <<"auth", "reset", "request">>),
                  Entry(Page("reset.proc"), "GET", <<"auth", "reset", "proc">>),
                  Entry(Page("reset.process"), "POST", <<"auth", "reset", "process">>)}
    IN  [names |-> Names,
         handlers |-> {Handler(e.name, e.method, e.path,
                               IF e.name = Page("logout") THEN {"auth"} ELSE {})
                       : e \in Names}]

AccessRoutes == {UserRoutes, RoleRoutes, GrantRoutes, PermissionRoutes}

\* What main registers.  registerAccessRoutes brings its pages in every mode;
\* the rest of the panel needs the web UI.
Registered(m) ==
    {AuthRoutes, StorageRoutes} \cup AccessRoutes \cup
    (IF m = "web"
     THEN {DashboardRoutes, ComponentsRoutes, SettingRoutes, ProfileRoutes,
           HomeRoutes, MediaRoutes}
     ELSE {})

Names    == UNION {t.names : t \in Registered(mode)}
Handlers == UNION {t.handlers : t \in Registered(mode)}

-----------------------------------------------------------------------------
(* Matching *)

pathMatches(pattern, path) ==
    /\ Len(pattern) = Len(path)
    /\ \A i \in 1..Len(path) : pattern[i] \in {Wild, path[i]}

\* Mutant: any entry that fits, without the exact lookup.
nameByPattern(method, path) ==
    {e.name : e \in {x \in Names : x.method = method /\ pathMatches(x.path, path)}} \cup
    (IF \E x \in Names : x.method = method /\ pathMatches(x.path, path) THEN {} ELSE {Null})

\* An exact path first, then any pattern: the map is unordered.
nameByMethodAndPath(method, path) ==
    LET exact == {e \in Names : e.method = method /\ e.path = path}
        fits  == {e \in Names : e.method = method /\ pathMatches(e.path, path)}
    IN  IF exact # {} THEN {e.name : e \in exact}
        ELSE IF fits # {} THEN {e.name : e \in fits} ELSE {Null}

\* Drogon's router looks a path up before it tries the patterns.
Router(method, path) ==
    LET exact == {h \in Handlers : h.path = path}
        known == IF exact # {} THEN exact
                 ELSE {h \in Handlers : pathMatches(h.path, path)}
    IN  {h \in known : h.method = method}

\* Mutant: the companion does not look at _method.
DispatchDeletes(h, override) ==
    IF h.op[2] # "companion" THEN h.op ELSE <<h.op[1], "delete">>

\* Which operation a handler performs: the companions read _method again.
Dispatch(h, override) ==
    IF h.op[2] # "companion" THEN h.op
    ELSE <<h.op[1], IF override \in {"PUT", "PATCH"} THEN "update" ELSE "delete">>

-----------------------------------------------------------------------------
(* What a browser sends: GET and POST only, _method in the query *)

Send(want, method, path, override, from) ==
    [pc |-> "sent", want |-> want, method |-> method, path |-> path,
     override |-> override, from |-> from,
     handler |-> Null, name |-> Null, op |-> Null, to |-> Null]

Filled(path) == [i \in 1..Len(path) |-> IF path[i] = Wild THEN Id ELSE path[i]]

\* Every page is reached by a link of the menu or of a row, or typed in.
Links(from) == {Send(h.op, "GET", Filled(h.path), Null, from) :
                   h \in {x \in Handlers : x.method = "GET"}}

\* A script may use every method, and any _method with a POST.
Scripted ==
    {Send(Null, h.method, Filled(h.path), Null, Null) : h \in Handlers} \cup
    UNION {{Send(Null, "POST", Filled(h.path), o, Null) :
                h \in {x \in Handlers : x.method = "POST"}} :
            o \in {"PUT", "DELETE", "PATCH"}}

\* The script of data-confirm submits the form a button belongs to, whatever
\* its formaction and formmethod.  The form around a table has neither an action
\* nor a method: its page is asked for again.
Selection(op, page) == Send(op, "GET", page, Null, page)

\* The form of the first row's Delete opens inside that of the table: browsers
\* ignore its tag, and its button belongs to the table.  Its end tag closes the
\* outer form, and the rows below have forms of their own.
UserForms(r) ==
    {Send(<<r, "store">>, "POST", <<r>>, Null, <<r, "create">>),
     Send(<<r, "update">>, "POST", <<r, Id>>, "PUT", <<r, Id, "edit">>),
     Send(<<r, "delete">>, "POST", <<r, Id>>, "DELETE", <<r>>),
     Selection(<<r, "delete">>, <<r>>), Selection(<<r, "delete_selected">>, <<r>>)}

RoleForms ==
    LET r == "roles"
    IN  {Send(<<r, "store">>, "POST", <<r, "store">>, Null, <<r, "create">>),
         Send(<<r, "update">>, "POST", <<r, Id, "update">>, "PUT", <<r, Id, "edit">>),
         Send(<<r, "delete">>, "POST", <<r, Id, "delete">>, "DELETE", <<r>>),
         Selection(<<r, "delete">>, <<r>>), Selection(<<r, "delete_selected">>, <<r>>)}

GrantForms ==
    {Selection(<<"grants", a>>, <<"roles", Id, "permission">>) :
        a \in {"assign_selected", "unassign_selected"}}

OwnForms ==
    {Send(<<"profile", "update">>, "POST", <<"profile", "update">>, "PUT", <<"profile">>),
     Send(<<"setting", "update">>, "POST", <<"setting">>, "PUT", <<"setting">>)}

AuthForms ==
    LET Form(op, to, from) == Send(<<"auth", op>>, "POST", to, Null, from)
        login == <<"auth", "login">>  signup == <<"auth", "signup">>
    IN  {Form("login.post", login, login), Form("signup.post", signup, signup),
         Form("reset.request", <<"auth", "reset", "request">>, <<"auth", "reset", "req">>),
         Form("reset.process", <<"auth", "reset", "process">>, <<"auth", "reset", "proc">>)}

\* In the top bar of every page of the panel.
LogoutForm == Send(<<"auth", "logout">>, "POST", <<"auth", "logout">>, Null, <<"dashboard">>)

Forms ==
    AuthForms \cup {LogoutForm} \cup UserForms("users") \cup RoleForms \cup GrantForms
    \cup UserForms("permissions") \cup (IF mode = "web" THEN OwnForms ELSE {})

-----------------------------------------------------------------------------
(* Where a handler sends the browser; Null: it renders a page *)

Landing(op) ==
    CASE op[2] \in {"store", "update", "delete", "delete_selected"}
            /\ op[1] \in {"users", "roles", "permissions"} -> <<op[1]>>
      [] op[1] = "grants" /\ op[2] # "index" -> <<"roles", Id, "permission">>
      [] op = <<"profile", "update">> -> <<"dashboard">>
      [] op = <<"setting", "update">> -> <<"setting">>
      [] OTHER -> Null

AuthLanding(op) ==
    CASE op[2] \in {"login.post", "signup.post"} -> <<"dashboard">>
      [] op[2] = "reset.request" -> <<"auth", "reset", "proc">>
      [] op[2] \in {"logout", "reset.process"} -> <<"auth", "login">>
      [] OTHER -> Null

Target(op) ==
    IF op = <<"admin", "index">> THEN <<"dashboard">>
    ELSE IF op[1] = "auth" THEN AuthLanding(op) ELSE Landing(op)

-----------------------------------------------------------------------------
NoRequest == [Send(Null, "GET", <<>>, Null, Null) EXCEPT !.pc = "idle"]

At(p) == req.pc = p

Init == mode = "down" /\ may = Null /\ gone = FALSE /\ req = NoRequest /\ hops = 0

\* What an account may be granted: nothing, the dashboard, everything.
Grants == {{}, {<<"dashboard", "index">>},
           UNION {{e.name : e \in t.names} : t \in Registered("web")}}

\* The routes are registered before the server listens.
Start ==
    /\ mode = "down"
    /\ mode' \in {"web", "api"}
    /\ may' \in Grants \cup {Null}
    /\ UNCHANGED <<gone, req, hops>>

\* The user follows a link, types an address (from Null), submits a form, or a
\* script calls a handler by its own method.
Click ==
    /\ mode # "down" /\ At("idle")
    /\ req' \in Links(Null) \cup Links(<<"dashboard">>) \cup Forms \cup Scripted
    /\ hops' = 0
    /\ UNCHANGED <<mode, may, gone>>

\* Another admin deletes the row, or takes the account's roles.
Meanwhile ==
    /\ ~At("idle")
    /\ \/ ~gone /\ gone' = TRUE /\ UNCHANGED may
       \/ may \notin {Null, {}} /\ may' = {} /\ UNCHANGED gone
    /\ UNCHANGED <<mode, req, hops>>

Route ==
    /\ At("sent")
    /\ LET hs == Router(req.method, req.path)
       IN  \/ hs = {} /\ req' = [req EXCEPT !.pc = "lost"]
          \/ \E h \in hs : req' = [req EXCEPT !.pc = "routed", !.handler = h]
    /\ UNCHANGED <<mode, may, gone, hops>>

Redirect(path) == req' = [req EXCEPT !.pc = "redirected", !.to = path]

\* MethodOverrideFilter, the first filter where a route has it.
Override ==
    /\ At("routed")
    /\ req' = IF "override" \in req.handler.filters /\ req.method = "POST"
                 /\ req.override \in {"PUT", "DELETE", "PATCH"}
              THEN [req EXCEPT !.pc = "overridden", !.method = req.override]
              ELSE [req EXCEPT !.pc = "overridden"]
    /\ UNCHANGED <<mode, may, gone, hops>>

\* AuthFilter: without a valid token, to the login page.
Authenticate ==
    /\ At("overridden")
    /\ IF "auth" \in req.handler.filters /\ may = Null
       THEN Redirect(<<"auth", "login">>)
       ELSE req' = [req EXCEPT !.pc = "authenticated"]
    /\ UNCHANGED <<mode, may, gone, hops>>

\* Mutant: a refusal always goes to the dashboard.
RefusedToDashboard(from) == <<"dashboard">>

RefusedTo(from) == IF from = Null THEN <<"dashboard">> ELSE from

\* RbacFilter: a refusal goes to the Referer, without one to the dashboard.
\* A request the registry has no name for passes, and so does one whose queries
\* fail, granted or not.
Authorize ==
    /\ At("authenticated")
    /\ IF "rbac" \notin req.handler.filters
       THEN req' = [req EXCEPT !.pc = "allowed"]
       ELSE \E n \in nameByMethodAndPath(req.method, req.path) :
                \/ req' = [req EXCEPT !.pc = "allowed", !.name = n]
                \/ n # Null /\ n \notin may /\ Redirect(RefusedTo(req.from))
    /\ UNCHANGED <<mode, may, gone, hops>>

\* findById throws on a row that is gone; a write may be refused besides.
Loads(op) ==
    \/ op[1] \in {"users", "roles", "permissions"} /\ op[2] \in {"show", "edit", "update", "delete"}
    \/ op = <<"grants", "index">>

Done(op) == req' = [req EXCEPT !.pc = "performed", !.op = op]

\* The cookie a login, a sign-up and a logout leave.
SignsIn(op) ==
    may' \in CASE op = <<"auth", "login.post">>  -> Grants
                [] op = <<"auth", "signup.post">> -> {{}}
                [] op = <<"auth", "logout">>      -> {Null}
                [] OTHER                          -> {may}

Perform ==
    /\ At("allowed")
    /\ LET op == Dispatch(req.handler, req.override)
       IN  ~(gone /\ Loads(op)) /\ SignsIn(op) /\ Done(op)
    /\ UNCHANGED <<mode, gone, hops>>

\* The handler throws: the exception handler redirects to the Referer, without
\* one to the login page.  postLogin renders its error itself.
Throw ==
    /\ At("allowed")
    /\ LET op == Dispatch(req.handler, req.override)
       IN  /\ (gone /\ Loads(op)) \/ Target(op) # Null
           /\ op # <<"auth", "login.post">>
    /\ Redirect(IF req.from = Null THEN <<"auth", "login">> ELSE req.from)
    /\ UNCHANGED <<mode, may, gone, hops>>

\* The answer: a page, or a redirect the browser follows; a profile that is not
\* valid goes back to its page.  The Referer of the next request is still the
\* page the chain began on.
Answer ==
    /\ At("performed")
    /\ \/ IF Target(req.op) = Null THEN req' = NoRequest ELSE Redirect(Target(req.op))
       \/ req.op = <<"profile", "update">> /\ Redirect(<<"profile">>)
    /\ UNCHANGED <<mode, may, gone, hops>>

Follow ==
    /\ At("redirected") /\ hops < MaxHops
    /\ req' = Send(Null, "GET", req.to, Null, req.from)
    /\ hops' = hops + 1
    /\ UNCHANGED <<mode, may, gone>>

Next == \/ Start \/ Click \/ Meanwhile \/ Route \/ Override \/ Authenticate
        \/ Authorize \/ Perform \/ Throw \/ Answer \/ Follow

-----------------------------------------------------------------------------
TypeOK ==
    /\ mode \in {"down", "web", "api"}
    /\ may \in Grants \cup {Null}
    /\ gone \in BOOLEAN /\ hops \in 0..MaxHops
    /\ req.method \in {"GET", "POST", "PUT", "DELETE", "PATCH"}

\* The buttons of a table whose form asks for the page again.
Bulk == {<<r, a>> : r \in {"users", "roles", "permissions"}, a \in {"delete", "delete_selected"}}
        \cup {<<"grants", "assign_selected">>, <<"grants", "unassign_selected">>}

Reached(q) == IF q.want \in Bulk /\ q.method = "GET" THEN <<q.want[1], "index">> ELSE q.want

\* A link, or a form that is sent by itself, performs the operation it is meant
\* for: the router finds a handler although Drogon routes before the override,
\* and the companions do not swallow the literal paths next to them.  A button
\* that submits the form of a table shows the table again and changes nothing.
FormsReachTheirOperation ==
    req.want # Null => ~At("lost") /\ (At("performed") => req.op = Reached(req))

\* What the views and the components page say: every button, confirmed or not,
\* performs the operation it names.  (The code: not those that go through the
\* form of a table.)
ButtonsDoWhatTheySay ==
    req.want # Null /\ At("performed") => req.op = req.want

\* The handler reads _method too, or a form of the panel sends this one there.
Expected ==
    \/ req.override = Null \/ req.handler.op[2] = "companion"
    \/ \E f \in Forms : f.path = req.path /\ f.override = req.override

\* The requests whose method has no name at their path, which RbacFilter
\* therefore lets pass: the forms of a role, sent with a _method to addresses
\* that are named for POST alone, and, by scripts, bulk deletions of users and
\* permissions, companions without a PUT or a DELETE, settings without a PUT.
Nameless(h, override) ==
    \/ /\ h.op \in {<<"roles", "update">>, <<"roles", "delete">>} /\ h.method = "POST"
       /\ override \in {"PUT", "DELETE", "PATCH"}
    \/ h.op \in {<<"users", "delete_selected">>, <<"permissions", "delete_selected">>}
    \/ h.op[2] = "companion" /\ override \notin {"PUT", "DELETE"}
    \/ h.op = <<"setting", "update">> /\ h.method = "POST" /\ override # "PUT"

\* RbacFilter looks a name up by a method changed after routing.  What it finds,
\* if the change was expected, is the name of the operation the handler goes on
\* to perform; it finds none, and lets anyone pass, exactly for the requests
\* above.  (The filter makes any other change as well: a _method no form sends
\* to roles/store has the name of an update looked up.)
GuardNamesTheOperation ==
    At("allowed") /\ "rbac" \in req.handler.filters /\ Expected =>
        IF Nameless(req.handler, req.override) THEN req.name = Null
        ELSE req.name # Null /\ Operation(req.name) = Dispatch(req.handler, req.override)

\* RbacFilter lets a request without a name pass as one to an "unregistered/
\* public path": a form of the panel, whose writes need a permission, is none.
FormsAreAskedFor ==
    At("allowed") /\ req.want # Null /\ "rbac" \in req.handler.filters => req.name # Null

\* The page at a path can be shown to the account.
Viewable(path) ==
    \E h \in Router("GET", path) :
        /\ ~(gone /\ Loads(h.op))
        /\ "auth" \in h.filters => may # Null
        /\ "rbac" \in h.filters => nameByMethodAndPath("GET", path) \subseteq may

\* In the panel a redirect leads to a page that exists; and redirects end,
\* unless the page the browser is sent back to (the one it came from, or the
\* dashboard) can itself not be shown any more.
RedirectsEnd ==
    /\ mode = "web" => ~(At("lost") /\ hops > 0)
    /\ At("redirected") /\ hops = MaxHops =>
           ~Viewable(IF req.from = Null THEN <<"dashboard">> ELSE req.from)
=============================================================================
