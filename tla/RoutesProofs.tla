---------------------------- MODULE RoutesProofs ----------------------------
(***************************************************************************)
(* Proofs about Routes: the tables, what the router and RouteRegistry find *)
(* for a path, and from it that forms reach their operation, that the name *)
(* asked for is that of the operation, and that redirects end.             *)
(*                                                                         *)
(* The argument in short: two patterns of one method that fit the same     *)
(* path belong to the same operation, except where a literal stands next   *)
(* to a {param}, and there an exact match comes first (ChoicesAlike).      *)
(***************************************************************************)
EXTENDS MCPanel, SequenceTheorems, TLAPS

-----------------------------------------------------------------------------
(* The tables, row by row *)

Segment == Literals \cup {Wild}

Row(h, op, m) == h.op = op /\ h.method = m

Is0(p) == p = <<>> /\ Len(p) = 0
Is1(p, a) == p = <<a>> /\ Len(p) = 1 /\ p[1] = a
Is2(p, a, b) == p = <<a, b>> /\ Len(p) = 2 /\ p[1] = a /\ p[2] = b
Is3(p, a, b, c) == p = <<a, b, c>> /\ Len(p) = 3 /\ p[1] = a /\ p[2] = b /\ p[3] = c
Is4(p, a, b, c, d) ==
    p = <<a, b, c, d>> /\ Len(p) = 4 /\ p[1] = a /\ p[2] = b /\ p[3] = c /\ p[4] = d
Is5(p, a, b, c, d, e) ==
    /\ p = <<a, b, c, d, e>> /\ Len(p) = 5
    /\ p[1] = a /\ p[2] = b /\ p[3] = c /\ p[4] = d /\ p[5] = e

ListTable(h, r) ==
    /\ \/ Row(h, <<r, "index">>, "GET") /\ Is1(h.path, r)
       \/ Row(h, <<r, "create">>, "GET") /\ Is2(h.path, r, "create")
       \/ Row(h, <<r, "store">>, "POST") /\ Is1(h.path, r)
       \/ Row(h, <<r, "show">>, "GET") /\ Is2(h.path, r, Wild)
       \/ Row(h, <<r, "edit">>, "GET") /\ Is3(h.path, r, Wild, "edit")
       \/ Row(h, <<r, "update">>, "PUT") /\ Is2(h.path, r, Wild)
       \/ Row(h, <<r, "delete">>, "DELETE") /\ Is2(h.path, r, Wild)
       \/ Row(h, <<r, "companion">>, "POST") /\ Is2(h.path, r, Wild)
       \/ Row(h, <<r, "delete_selected">>, "POST") /\ Is2(h.path, r, "delete_selected")
    /\ h.filters = Route!Guarded

LEMMA ListTables == \A r : \A h \in Route!ListHandlers(r) : ListTable(h, r)
BY DEF Route!ListHandlers, Route!ListEntries, Route!Handler, Route!Entry, Row, Is0, Is1, Is2,
    Is3, Is4, Is5, ListTable

RoleTable(h) ==
    LET r == "roles"  g == "grants"  p == "permission"
    IN  /\ \/ Row(h, <<r, "index">>, "GET") /\ Is1(h.path, r)
           \/ Row(h, <<r, "create">>, "GET") /\ Is2(h.path, r, "create")
           \/ Row(h, <<r, "show">>, "GET") /\ Is2(h.path, r, Wild)
           \/ Row(h, <<r, "edit">>, "GET") /\ Is3(h.path, r, Wild, "edit")
           \/ Row(h, <<r, "update">>, "PUT") /\ Is2(h.path, r, Wild)
           \/ Row(h, <<r, "delete">>, "DELETE") /\ Is2(h.path, r, Wild)
           \/ Row(h, <<r, "store">>, "POST") /\ Is2(h.path, r, "store")
           \/ Row(h, <<r, "delete_selected">>, "POST") /\ Is2(h.path, r, "delete_selected")
           \/ Row(h, <<r, "update">>, "POST") /\ Is3(h.path, r, Wild, "update")
           \/ Row(h, <<r, "delete">>, "POST") /\ Is3(h.path, r, Wild, "delete")
           \/ Row(h, <<r, "companion">>, "POST") /\ Is2(h.path, r, Wild)
           \/ Row(h, <<g, "index">>, "GET") /\ Is3(h.path, r, Wild, p)
           \/ Row(h, <<g, "assign">>, "GET") /\ Is5(h.path, r, Wild, p, Wild, "assign")
           \/ Row(h, <<g, "unassign">>, "GET") /\ Is5(h.path, r, Wild, p, Wild, "unassign")
           \/ Row(h, <<g, "assign_selected">>, "POST") /\ Is4(h.path, r, Wild, p, "assign_selected")
           \/ Row(h, <<g, "unassign_selected">>, "POST") /\ Is4(h.path, r, Wild, p, "unassign_selected")
        /\ h.filters = Route!Guarded

LEMMA RoleTables == \A h \in Route!RoleRoutes.handlers \cup Route!GrantRoutes.handlers : RoleTable(h)
<1>1. \A h \in Route!RoleRoutes.handlers : RoleTable(h)
  BY DEF Route!RoleRoutes, Route!ListEntries, Route!Operation, Route!Handler, Route!Entry, Row,
      Is0, Is1, Is2, Is3, Is4, Is5, RoleTable
<1>2. \A h \in Route!GrantRoutes.handlers : RoleTable(h)
  BY DEF Route!GrantRoutes, Route!Handler, Route!Entry, Row, Is0, Is1, Is2, Is3, Is4, Is5,
      RoleTable
<1> QED  BY <1>1, <1>2

AuthTable(h) ==
    LET a == "auth"  reset == "reset"
    IN  \/ /\ \/ Row(h, <<a, "login">>, "GET") /\ Is2(h.path, a, "login")
              \/ Row(h, <<a, "login.post">>, "POST") /\ Is2(h.path, a, "login")
              \/ Row(h, <<a, "signup">>, "GET") /\ Is2(h.path, a, "signup")
              \/ Row(h, <<a, "signup.post">>, "POST") /\ Is2(h.path, a, "signup")
              \/ Row(h, <<a, "reset.req">>, "GET") /\ Is3(h.path, a, reset, "req")
              \/ Row(h, <<a, "reset.request">>, "POST") /\ Is3(h.path, a, reset, "request")
              \/ Row(h, <<a, "reset.proc">>, "GET") /\ Is3(h.path, a, reset, "proc")
              \/ Row(h, <<a, "reset.process">>, "POST") /\ Is3(h.path, a, reset, "process")
           /\ h.filters = {}
        \/ Row(h, <<a, "logout">>, "POST") /\ Is2(h.path, a, "logout") /\ h.filters = {"auth"}

LEMMA AuthTables == \A h \in Route!AuthRoutes.handlers : AuthTable(h)
BY DEF Route!AuthRoutes, Route!Handler, Route!Entry, Row, Is0, Is1, Is2, Is3, Is4, Is5, AuthTable

OtherTable(h) ==
    LET s == "setting"
    IN  \/ /\ \/ Row(h, <<"dashboard", "index">>, "GET") /\ Is1(h.path, "dashboard")
              \/ Row(h, <<"components", "index">>, "GET") /\ Is1(h.path, "components")
              \/ Row(h, <<s, "edit">>, "GET") /\ Is1(h.path, s)
              \/ Row(h, <<s, "update">>, "PUT") /\ Is1(h.path, s)
              \/ Row(h, <<s, "update">>, "POST") /\ Is1(h.path, s)
              \/ Row(h, <<s, "fe_preview">>, "GET") /\ Is3(h.path, s, "fe-preview", Wild)
           /\ h.filters = Route!Guarded
        \/ /\ \/ Row(h, <<"profile", "show">>, "GET") /\ Is1(h.path, "profile")
              \/ Row(h, <<"profile", "update">>, "PUT") /\ Is2(h.path, "profile", "update")
              \/ Row(h, <<"profile", "update">>, "POST") /\ Is2(h.path, "profile", "update")
           /\ h.filters = Route!Guarded \ {"rbac"}
        \/ /\ \/ Row(h, <<"media", "list">>, "GET") /\ Is2(h.path, "media", "list")
              \/ Row(h, <<"media", "upload">>, "POST") /\ Is2(h.path, "media", "upload")
              \/ Row(h, <<"media", "delete">>, "POST") /\ Is2(h.path, "media", "delete")
           /\ h.filters = Route!Guarded \ {"override"}
        \/ /\ \/ Row(h, <<"admin", "index">>, "GET") /\ Is0(h.path)
              \/ Row(h, <<"home", "index">>, "GET") /\ Is1(h.path, "home")
              \/ Row(h, <<"storage", "serve">>, "GET") /\ Is2(h.path, "storage", Wild)
           /\ h.filters = {}

OtherRoutes == {Route!DashboardRoutes, Route!ComponentsRoutes, Route!SettingRoutes,
                Route!ProfileRoutes, Route!HomeRoutes, Route!MediaRoutes, Route!StorageRoutes}

LEMMA OtherTables == \A t \in OtherRoutes : \A h \in t.handlers : OtherTable(h)
<1> DEFINE Tabled(t) == \A h \in t.handlers : OtherTable(h)
<1> USE DEF Route!Handler, Route!Entry, Row, Is0, Is1, Is2, Is3, Is4, Is5, OtherTable
<1>1. Tabled(Route!DashboardRoutes) /\ Tabled(Route!ComponentsRoutes)
  BY DEF Route!DashboardRoutes, Route!ComponentsRoutes
<1>2. Tabled(Route!SettingRoutes)
  BY DEF Route!SettingRoutes
<1>3. Tabled(Route!ProfileRoutes)
  BY DEF Route!ProfileRoutes
<1>4. Tabled(Route!HomeRoutes) /\ Tabled(Route!StorageRoutes)
  BY DEF Route!HomeRoutes, Route!StorageRoutes
<1>5. Tabled(Route!MediaRoutes)
  BY DEF Route!MediaRoutes
<1> HIDE DEF Tabled
<1>6. \A t \in OtherRoutes : Tabled(t)
  BY <1>1, <1>2, <1>3, <1>4, <1>5 DEF OtherRoutes
<1> QED  BY <1>6 DEF Tabled

\* Every handler is a row of one of the tables.
LEMMA HandlerTable ==
    \A h \in Route!Handlers :
        \/ ListTable(h, "users") \/ ListTable(h, "permissions")
        \/ RoleTable(h) \/ AuthTable(h) \/ OtherTable(h)
<1> SUFFICES ASSUME NEW t \in Route!Registered(mode), NEW h \in t.handlers
    PROVE  \/ ListTable(h, "users") \/ ListTable(h, "permissions")
           \/ RoleTable(h) \/ AuthTable(h) \/ OtherTable(h)
  BY DEF Route!Handlers
<1>1. \/ t \in {Route!UserRoutes, Route!RoleRoutes, Route!GrantRoutes, Route!PermissionRoutes}
      \/ t = Route!AuthRoutes \/ t \in OtherRoutes
  BY Zenon DEF Route!Registered, Route!AccessRoutes, OtherRoutes
<1>2. /\ Route!UserRoutes.handlers = Route!ListHandlers("users")
      /\ Route!PermissionRoutes.handlers = Route!ListHandlers("permissions")
  BY DEF Route!UserRoutes, Route!PermissionRoutes
<1> QED  BY <1>1, <1>2, ListTables, RoleTables, AuthTables, OtherTables, Zenon

-----------------------------------------------------------------------------
(* Which patterns overlap *)

\* Where two patterns of a length could fit the same segment.
Meet(x, h, i) ==
    i <= Len(x.path) => h.path[i] = x.path[i] \/ h.path[i] = Wild \/ x.path[i] = Wild

Overlap(x, h) ==
    /\ h.method = x.method /\ Len(h.path) = Len(x.path)
    /\ Meet(x, h, 1) /\ Meet(x, h, 2) /\ Meet(x, h, 3) /\ Meet(x, h, 4) /\ Meet(x, h, 5)

\* The two perform the same operation behind the same filters.
Alike(x, h) == h.op = x.op /\ h.filters = x.filters

\* A literal path x next to the {param} of h: users/create and users/{id}.
Shadows(x, h) ==
    /\ Len(x.path) = 2 /\ x.path[1] # Wild /\ x.path[2] # Wild /\ h.path[2] = Wild
    /\ h.op[2] = "companion" \/ x.op[2] = "create"

Apart(x, h) == Overlap(x, h) => Alike(x, h) \/ Shadows(x, h) \/ Shadows(h, x)

\* The value is no literal segment.
Unspelled(s) ==
    /\ s # "users" /\ s # "permissions" /\ s # "roles" /\ s # "create"
    /\ s # "edit" /\ s # "store" /\ s # "update" /\ s # "delete"
    /\ s # "delete_selected" /\ s # "permission" /\ s # "assign" /\ s # "unassign"
    /\ s # "assign_selected" /\ s # "unassign_selected" /\ s # "dashboard"
    /\ s # "components" /\ s # "profile" /\ s # "setting" /\ s # "fe-preview"
    /\ s # "media" /\ s # "list" /\ s # "upload" /\ s # "home" /\ s # "storage"
    /\ s # "auth" /\ s # "login" /\ s # "signup" /\ s # "logout" /\ s # "reset"
    /\ s # "req" /\ s # "request" /\ s # "proc" /\ s # "process"

LEMMA NoLiteral == Id # Wild /\ Unspelled(Wild) /\ Unspelled(Id)
<1>1. \A s \in Literals : s # Wild /\ s # Id
  BY RouteAssumption
<1>2. Unspelled(Wild)
  BY <1>1, SMTT(60) DEF Literals, Unspelled
<1>3. Unspelled(Id)
  BY <1>1, SMTT(60) DEF Literals, Unspelled
<1> QED  BY <1>2, <1>3, RouteAssumption

LEMMA ListApart ==
  ASSUME NEW r \in {"users", "permissions"}, NEW x, NEW h, ListTable(x, r), ListTable(h, r)
  PROVE  Apart(x, h)
BY NoLiteral, SMTT(60) DEF Unspelled, Apart, Overlap, Meet, Alike, Shadows, ListTable, Row, Is0,
    Is1, Is2, Is3, Is4, Is5

LEMMA RoleApart ==
  ASSUME NEW x, NEW h, RoleTable(x), RoleTable(h)
  PROVE  Apart(x, h)
BY NoLiteral, SMTT(60) DEF Unspelled, Apart, Overlap, Meet, Alike, Shadows, RoleTable, Row, Is0,
    Is1, Is2, Is3, Is4, Is5

LEMMA AuthApart ==
  ASSUME NEW x, NEW h, AuthTable(x), AuthTable(h)
  PROVE  Apart(x, h)
<1> SUFFICES ASSUME Overlap(x, h) PROVE Alike(x, h)
  BY DEF Apart
<1>1. /\ h.method = x.method /\ Len(h.path) = Len(x.path)
      /\ Meet(x, h, 1) /\ Meet(x, h, 2) /\ Meet(x, h, 3)
  BY DEF Overlap
<1>2. h.op = x.op
  BY <1>1, NoLiteral, SMTT(60) DEF Unspelled, Meet, AuthTable, Row, Is2, Is3
<1>3. \A y : AuthTable(y) => y.filters = IF y.op = <<"auth", "logout">> THEN {"auth"} ELSE {}
  BY DEF AuthTable, Row
<1> QED  BY <1>2, <1>3 DEF Alike

LEMMA OtherApart ==
  ASSUME NEW x, NEW h, OtherTable(x), OtherTable(h)
  PROVE  Apart(x, h)
<1> SUFFICES ASSUME Overlap(x, h) PROVE Alike(x, h)
  BY DEF Apart
<1>1. /\ h.method = x.method /\ Len(h.path) = Len(x.path)
      /\ Meet(x, h, 1) /\ Meet(x, h, 2) /\ Meet(x, h, 3)
  BY DEF Overlap
<1>2. h.op = x.op
  BY <1>1, NoLiteral, SMTT(60) DEF Unspelled, Meet, OtherTable, Row, Is0, Is1, Is2, Is3
<1>3. \A y : OtherTable(y) =>
          \/ y.op[1] \in {"home", "storage", "admin"} /\ y.filters = {}
          \/ y.op[1] = "media" /\ y.filters = Route!Guarded \ {"override"}
          \/ y.op[1] = "profile" /\ y.filters = Route!Guarded \ {"rbac"}
          \/ y.op[1] \in {"dashboard", "components", "setting"} /\ y.filters = Route!Guarded
  BY DEF OtherTable, Row
<1>4. x.op[1] = h.op[1]
  BY <1>2
<1>5. x.filters = h.filters
  <2> HIDE DEF Route!Guarded, OtherTable
  <2>1. \/ x.op[1] \in {"home", "storage", "admin"} /\ x.filters = {}
        \/ x.op[1] = "media" /\ x.filters = Route!Guarded \ {"override"}
        \/ x.op[1] = "profile" /\ x.filters = Route!Guarded \ {"rbac"}
        \/ x.op[1] \in {"dashboard", "components", "setting"} /\ x.filters = Route!Guarded
    BY <1>3
  <2>2. \/ h.op[1] \in {"home", "storage", "admin"} /\ h.filters = {}
        \/ h.op[1] = "media" /\ h.filters = Route!Guarded \ {"override"}
        \/ h.op[1] = "profile" /\ h.filters = Route!Guarded \ {"rbac"}
        \/ h.op[1] \in {"dashboard", "components", "setting"} /\ h.filters = Route!Guarded
    BY <1>3
  <2> QED  BY <1>4, <2>1, <2>2
<1> QED  BY <1>2, <1>5 DEF Alike

\* Patterns that overlap are alike, or one is a literal next to a {param}.
LEMMA AllApart == \A x, h \in Route!Handlers : Apart(x, h)
<1> SUFFICES ASSUME NEW x \in Route!Handlers, NEW h \in Route!Handlers, Overlap(x, h) PROVE Apart(x, h)
  BY DEF Apart
<1>1. \A r, y : ListTable(y, r) => Len(y.path) >= 1 /\ y.path[1] = r
  BY DEF ListTable, Row, Is1, Is2, Is3
<1>2. \A y : RoleTable(y) => Len(y.path) >= 1 /\ y.path[1] = "roles"
  BY DEF RoleTable, Row, Is1, Is2, Is3, Is4, Is5
<1>3. \A y : AuthTable(y) => Len(y.path) >= 1 /\ y.path[1] = "auth"
  BY DEF AuthTable, Row, Is2, Is3
<1>4. \A y : OtherTable(y) =>
          \/ Len(y.path) = 0
          \/ /\ Len(y.path) >= 1
             /\ y.path[1] \in {"dashboard", "components", "setting", "profile", "media", "home", "storage"}
  BY DEF OtherTable, Row, Is0, Is1, Is2, Is3
<1>5. /\ Len(x.path) = Len(h.path)
      /\ 1 <= Len(x.path) => h.path[1] = x.path[1] \/ h.path[1] = Wild \/ x.path[1] = Wild
  BY DEF Overlap, Meet
<1>6. \/ ListTable(x, "users") /\ ListTable(h, "users")
      \/ ListTable(x, "permissions") /\ ListTable(h, "permissions")
      \/ RoleTable(x) /\ RoleTable(h)
      \/ AuthTable(x) /\ AuthTable(h)
      \/ OtherTable(x) /\ OtherTable(h)
  BY <1>1, <1>2, <1>3, <1>4, <1>5, HandlerTable, NoLiteral DEF Unspelled
<1> QED  BY <1>6, ListApart, RoleApart, AuthApart, OtherApart

\* The set has every literal segment.
Spelled(S) ==
    /\ "users" \in S /\ "permissions" \in S /\ "roles" \in S /\ "create" \in S
    /\ "edit" \in S /\ "store" \in S /\ "update" \in S /\ "delete" \in S
    /\ "delete_selected" \in S /\ "permission" \in S /\ "assign" \in S
    /\ "unassign" \in S /\ "assign_selected" \in S /\ "unassign_selected" \in S
    /\ "dashboard" \in S /\ "components" \in S /\ "profile" \in S
    /\ "setting" \in S /\ "fe-preview" \in S /\ "media" \in S /\ "list" \in S
    /\ "upload" \in S /\ "home" \in S /\ "storage" \in S /\ "auth" \in S
    /\ "login" \in S /\ "signup" \in S /\ "logout" \in S /\ "reset" \in S
    /\ "req" \in S /\ "request" \in S /\ "proc" \in S /\ "process" \in S

LEMMA PathsAreSequences == \A h \in Route!Handlers : h.path \in Seq(Segment) /\ Len(h.path) <= 5
<1> DEFINE Proper(p) == p \in Seq(Segment) /\ Len(p) <= 5
<1>1. Wild \in Segment /\ Spelled(Segment)
  BY SMTT(60) DEF Segment, Literals, Spelled
<1>2. /\ \A p : Is0(p) => Proper(p)
      /\ \A p : \A a \in Segment : Is1(p, a) => Proper(p)
  <2>1. \A p : Is0(p) => Proper(p)
    BY DEF Is0
  <2>2. \A p : \A a \in Segment : Is1(p, a) => Proper(p)
    BY DEF Is1
  <2> QED  BY <2>1, <2>2
<1>3. \A p : \A a, b \in Segment : Is2(p, a, b) => Proper(p)
  BY DEF Is2
<1>4. \A p : \A a, b, c \in Segment : Is3(p, a, b, c) => Proper(p)
  BY DEF Is3
<1>5. \A p : \A a, b, c, d \in Segment : Is4(p, a, b, c, d) => Proper(p)
  BY DEF Is4
<1>6. \A p : \A a, b, c, d, e \in Segment : Is5(p, a, b, c, d, e) => Proper(p)
  BY DEF Is5
<1> HIDE DEF Proper
<1>7. ASSUME NEW r \in Segment, NEW h, ListTable(h, r) PROVE Proper(h.path)
  BY <1>1, <1>2, <1>3, <1>4, <1>7 DEF Spelled, ListTable
<1>8. ASSUME NEW h, RoleTable(h) PROVE Proper(h.path)
  BY <1>1, <1>2, <1>3, <1>4, <1>5, <1>6, <1>8 DEF Spelled, RoleTable
<1>9. ASSUME NEW h, AuthTable(h) PROVE Proper(h.path)
  BY <1>1, <1>3, <1>4, <1>9 DEF Spelled, AuthTable
<1>10. ASSUME NEW h, OtherTable(h) PROVE Proper(h.path)
  BY <1>1, <1>2, <1>3, <1>4, <1>10 DEF Spelled, OtherTable
<1>11. "users" \in Segment /\ "permissions" \in Segment
  BY <1>1 DEF Spelled
<1>12. \A h \in Route!Handlers : Proper(h.path)
  BY <1>7, <1>8, <1>9, <1>10, <1>11, HandlerTable
<1> QED  BY <1>12 DEF Proper

\* The path of a page or a form fills the {params} of a pattern.
LEMMA FilledPath ==
    ASSUME NEW S, NEW p \in Seq(S)
    PROVE  /\ Route!Filled(p) \in Seq(S \cup {Id}) /\ Len(Route!Filled(p)) = Len(p)
           /\ \A i \in 1..Len(p) : Route!Filled(p)[i] = IF p[i] = Wild THEN Id ELSE p[i]
<1>1. Len(p) \in Nat /\ \A i \in 1..Len(p) : p[i] \in S
  OBVIOUS
<1>2. Route!Filled(p) \in [1..Len(p) -> S \cup {Id}]
  BY <1>1 DEF Route!Filled
<1>3. Route!Filled(p) \in Seq(S \cup {Id}) /\ Len(Route!Filled(p)) = Len(p)
  BY <1>1, <1>2, SeqDef
<1> QED  BY <1>3 DEF Route!Filled

NoWild(p) == \A i \in 1..Len(p) : p[i] # Wild

\* Two patterns that fit one path overlap.
LEMMA FitsOverlap ==
    ASSUME NEW x \in Route!Handlers, NEW h \in Route!Handlers, h.method = x.method,
           NEW path, Route!pathMatches(x.path, path), Route!pathMatches(h.path, path)
    PROVE  Overlap(x, h)
<1>1. /\ Len(x.path) = Len(path) /\ Len(h.path) = Len(path) /\ Len(path) \in Nat
      /\ \A i \in 1..Len(path) : x.path[i] \in {Wild, path[i]} /\ h.path[i] \in {Wild, path[i]}
  BY PathsAreSequences DEF Route!pathMatches
<1>2. \A i \in {1, 2, 3, 4, 5} : Meet(x, h, i)
  BY <1>1 DEF Meet
<1> QED  BY <1>1, <1>2 DEF Overlap

\* A pattern without a {param} fits its own path only.
LEMMA LiteralFits ==
    ASSUME NEW x \in Route!Handlers, NEW path \in Seq(Segment \cup {Id}),
           Route!pathMatches(x.path, path), NoWild(x.path)
    PROVE  x.path = path
<1>1. x.path \in Seq(Segment) /\ Len(x.path) = Len(path) /\ Len(path) \in Nat
  BY PathsAreSequences DEF Route!pathMatches
<1>2. \A i \in 1..Len(path) : x.path[i] = path[i]
  BY <1>1 DEF Route!pathMatches, NoWild
<1>3. x.path \in Seq(Segment \cup {Id})
  BY <1>1
<1> QED  BY <1>1, <1>2, <1>3, SeqEqual

-----------------------------------------------------------------------------
Tables == {Route!UserRoutes, Route!PermissionRoutes, Route!RoleRoutes, Route!GrantRoutes,
           Route!AuthRoutes} \cup OtherRoutes

LEMMA RegisteredTables == Route!Registered(mode) \subseteq Tables
BY Zenon DEF Route!Registered, Route!AccessRoutes, OtherRoutes, Tables

Answers(x, e) ==
    /\ x.path = e.path /\ x.method = e.method /\ x.op = Route!Operation(e.name)
    /\ x.op[2] # "companion"

\* Every name is that of a handler.
LEMMA NamesAnswered == \A e \in Route!Names : \E x \in Route!Handlers : Answers(x, e)
<1> DEFINE Made(e, f) == Route!Handler(Route!Operation(e.name), e.method, e.path, f)
           Plain(e) == Route!Operation(e.name) = e.name /\ e.name[2] # "companion"
           Answered(t) == \A e \in t.names : \E x \in t.handlers : Answers(x, e)
<1>1. \A e, f : Route!Operation(e.name)[2] # "companion" => Answers(Made(e, f), e)
  BY DEF Answers, Route!Handler
<1>2. \A t : (\A e \in t.names : /\ Route!Operation(e.name)[2] # "companion"
                                 /\ \E f : Made(e, f) \in t.handlers)
           => Answered(t)
  BY <1>1, Zenon
<1>3. \A t : (\A e \in t.names : /\ Plain(e)
                                 /\ \E f : Route!Handler(e.name, e.method, e.path, f) \in t.handlers)
           => Answered(t)
  BY <1>2, Zenon
<1> HIDE DEF Made, Answered
<1>4. Answered(Route!UserRoutes) /\ Answered(Route!PermissionRoutes)
  <2> DEFINE Of(r) == [names |-> Route!ListEntries(r), handlers |-> Route!ListHandlers(r)]
  <2>1. ASSUME NEW r \in {"users", "permissions"}, NEW e \in Route!ListEntries(r) PROVE Plain(e)
    BY DEF Route!ListEntries, Route!Operation, Route!Entry
  <2>2. \A r : \A e \in Route!ListEntries(r) :
           Route!Handler(e.name, e.method, e.path, Route!Guarded) \in Route!ListHandlers(r)
    BY Zenon DEF Route!ListHandlers
  <2>3. \A r : Of(r).names = Route!ListEntries(r) /\ Of(r).handlers = Route!ListHandlers(r)
    OBVIOUS
  <2> HIDE DEF Of, Plain
  <2>4. \A r \in {"users", "permissions"} : Answered(Of(r))
    BY <1>3, <2>1, <2>2, <2>3, Zenon
  <2>5. Route!UserRoutes = Of("users") /\ Route!PermissionRoutes = Of("permissions")
    BY DEF Of, Route!UserRoutes, Route!PermissionRoutes
  <2> QED  BY <2>4, <2>5
<1>5. Answered(Route!RoleRoutes)
  <2>1. ASSUME NEW e \in Route!RoleRoutes.names
        PROVE  Route!Operation(e.name)[2] # "companion"
    BY DEF Route!RoleRoutes, Route!ListEntries, Route!Operation, Route!Entry
  <2>2. \A e \in Route!RoleRoutes.names : Made(e, Route!Guarded) \in Route!RoleRoutes.handlers
    BY DEF Made, Route!RoleRoutes
  <2> QED  BY <1>2, <2>1, <2>2, Zenon
<1>6. Answered(Route!GrantRoutes)
  <2>1. \A e \in Route!GrantRoutes.names : Plain(e)
    BY DEF Route!GrantRoutes, Route!Operation, Route!Entry
  <2>2. \A e \in Route!GrantRoutes.names :
            Route!Handler(e.name, e.method, e.path, Route!Guarded) \in Route!GrantRoutes.handlers
    BY DEF Route!GrantRoutes
  <2> HIDE DEF Plain
  <2> QED  BY <1>3, <2>1, <2>2, Zenon
<1>7. Answered(Route!AuthRoutes)
  <2>1. \A e \in Route!AuthRoutes.names : Plain(e)
    BY DEF Route!AuthRoutes, Route!Operation, Route!Entry
  <2>2. \A e \in Route!AuthRoutes.names :
            \E f : Route!Handler(e.name, e.method, e.path, f) \in Route!AuthRoutes.handlers
    <3> SUFFICES ASSUME NEW e \in Route!AuthRoutes.names
                 PROVE  \E f : Route!Handler(e.name, e.method, e.path, f) \in Route!AuthRoutes.handlers
      OBVIOUS
    <3> WITNESS IF e.name = <<"auth", "logout">> THEN {"auth"} ELSE {}
    <3> QED  BY DEF Route!AuthRoutes
  <2> HIDE DEF Plain
  <2> QED  BY <1>3, <2>1, <2>2, Zenon
<1>8. Answered(Route!MediaRoutes)
  <2>1. \A e \in Route!MediaRoutes.names : Plain(e)
    BY DEF Route!MediaRoutes, Route!Operation, Route!Entry
  <2>2. \A e \in Route!MediaRoutes.names :
            Route!Handler(e.name, e.method, e.path, Route!Guarded \ {"override"}) \in Route!MediaRoutes.handlers
    BY DEF Route!MediaRoutes
  <2> HIDE DEF Plain
  <2> QED  BY <1>3, <2>1, <2>2, Zenon
<1>9. Answered(Route!DashboardRoutes) /\ Answered(Route!ComponentsRoutes) /\ Answered(Route!SettingRoutes)
  <2>1. ASSUME NEW t \in {Route!DashboardRoutes, Route!ComponentsRoutes, Route!SettingRoutes}, NEW e \in t.names
        PROVE  Plain(e)
    BY DEF Route!DashboardRoutes, Route!ComponentsRoutes, Route!SettingRoutes, Route!Operation,
        Route!Entry
  <2>2. ASSUME NEW t \in {Route!DashboardRoutes, Route!ComponentsRoutes, Route!SettingRoutes}, NEW e \in t.names
        PROVE  Route!Handler(e.name, e.method, e.path, Route!Guarded) \in t.handlers
    BY DEF Route!DashboardRoutes, Route!ComponentsRoutes, Route!SettingRoutes, Route!Entry
  <2> HIDE DEF Plain
  <2> QED  BY <1>3, <2>1, <2>2, Zenon
<1>10. Answered(Route!ProfileRoutes)
  <2>1. ASSUME NEW e \in Route!ProfileRoutes.names PROVE Plain(e)
    BY DEF Route!ProfileRoutes, Route!Operation, Route!Entry
  <2>2. ASSUME NEW e \in Route!ProfileRoutes.names
        PROVE  Route!Handler(e.name, e.method, e.path, Route!Guarded \ {"rbac"}) \in Route!ProfileRoutes.handlers
    BY DEF Route!ProfileRoutes, Route!Entry
  <2> HIDE DEF Plain
  <2> QED  BY <1>3, <2>1, <2>2, Zenon
<1>11. Answered(Route!HomeRoutes) /\ Answered(Route!StorageRoutes)
  <2>1. Route!HomeRoutes.names = {} /\ Route!StorageRoutes.names = {}
    BY DEF Route!HomeRoutes, Route!StorageRoutes
  <2> QED  BY <2>1 DEF Answered
<1>12. \A t \in Tables : Answered(t)
  BY <1>4, <1>5, <1>6, <1>7, <1>8, <1>9, <1>10, <1>11 DEF Tables, OtherRoutes
<1>13. \A t \in Route!Registered(mode) : Answered(t)
  BY <1>12, RegisteredTables
<1> QED  BY <1>13 DEF Answered, Route!Names, Route!Handlers

\* A literal page next to a {param} has its own name.
LEMMA CreateNamed ==
    \A h \in Route!Handlers : h.op[2] = "create" =>
        \E e \in Route!Names : e.path = h.path /\ e.method = h.method
<1> DEFINE Named(t) == \A h \in t.handlers : h.op[2] = "create" =>
                           \E e \in t.names : e.path = h.path /\ e.method = h.method
<1> USE DEF Route!Handler, Route!Entry
<1>1. ASSUME NEW r
      PROVE  \A h \in Route!ListHandlers(r) : h.op[2] = "create" =>
                 \E e \in Route!ListEntries(r) : e.path = h.path /\ e.method = h.method
  BY DEF Route!ListHandlers, Route!ListEntries
<1>2. Named(Route!UserRoutes) /\ Named(Route!PermissionRoutes)
  BY <1>1, Zenon DEF Route!UserRoutes, Route!PermissionRoutes
<1>3. Named(Route!RoleRoutes)
  BY DEF Route!RoleRoutes, Route!ListEntries, Route!Operation
<1>4. ASSUME NEW t \in {Route!GrantRoutes, Route!AuthRoutes} \cup OtherRoutes PROVE Named(t)
  <2>1. \A h : AuthTable(h) \/ OtherTable(h) => h.op[2] # "create"
    BY DEF AuthTable, OtherTable, Row
  <2>2. \A h \in Route!GrantRoutes.handlers : h.op[2] # "create"
    BY DEF Route!GrantRoutes
  <2> QED  BY <2>1, <2>2, AuthTables, OtherTables, Zenon
<1> HIDE DEF Named
<1>5. \A t \in Route!Registered(mode) : Named(t)
  BY <1>2, <1>3, <1>4, RegisteredTables, Zenon DEF Tables
<1> QED  BY <1>5 DEF Named, Route!Names, Route!Handlers

-----------------------------------------------------------------------------
\* What the router chooses fits the path, and is at the path if any handler is.
LEMMA RouterFits ==
    ASSUME NEW m, NEW path, NEW h \in Route!Router(m, path)
    PROVE  /\ h \in Route!Handlers /\ h.method = m
           /\ Len(path) \in Nat => Route!pathMatches(h.path, path)
           /\ h.path = path \/ \A g \in Route!Handlers : g.path # path
<1>1. CASE \A g \in Route!Handlers : g.path # path
  BY <1>1 DEF Route!Router
<1>2. CASE \E g \in Route!Handlers : g.path = path
  <2>1. h \in Route!Handlers /\ h.method = m /\ h.path = path
    BY <1>2 DEF Route!Router
  <2> QED  BY <2>1 DEF Route!pathMatches
<1> QED  BY <1>1, <1>2

\* Two handlers the router may choose for one path are just alike.
LEMMA ChoicesAlike ==
    ASSUME NEW x \in Route!Handlers, NEW h \in Route!Handlers, h.method = x.method,
           NEW path \in Seq(Segment \cup {Id}),
           Route!pathMatches(x.path, path), Route!pathMatches(h.path, path),
           x.path = path \/ \A g \in Route!Handlers : g.path # path,
           h.path = path \/ \A g \in Route!Handlers : g.path # path
    PROVE  Alike(x, h)
<1>1. Overlap(x, h)
  BY FitsOverlap
<1>2. ASSUME NEW y \in Route!Handlers, NEW z \in Route!Handlers, Shadows(y, z),
             Route!pathMatches(y.path, path),
             z.path = path \/ \A g \in Route!Handlers : g.path # path
      PROVE  FALSE
  <2>1. NoWild(y.path)
    <3> SUFFICES ASSUME NEW i \in 1..Len(y.path) PROVE y.path[i] # Wild
      BY DEF NoWild
    <3>1. i = 1 \/ i = 2
      BY <1>2 DEF Shadows
    <3> QED  BY <1>2, <3>1 DEF Shadows
  <2>2. y.path = path
    BY <1>2, <2>1, LiteralFits
  <2>3. z.path = path
    BY <1>2, <2>2
  <2> QED  BY <1>2, <2>2, <2>3 DEF Shadows
<1> QED  BY <1>1, <1>2, AllApart DEF Apart

\* A filled path reaches the handler of its pattern, or one just like it.
LEMMA Reached ==
    ASSUME NEW x \in Route!Handlers
    PROVE  LET path == Route!Filled(x.path)
           IN  /\ path \in Seq(Segment \cup {Id}) /\ x \in Route!Router(x.method, path)
               /\ \A h \in Route!Router(x.method, path) : Alike(x, h)
<1> DEFINE path == Route!Filled(x.path)
<1>1. /\ x.path \in Seq(Segment) /\ path \in Seq(Segment \cup {Id}) /\ Len(path) = Len(x.path)
      /\ Len(path) \in Nat
      /\ \A i \in 1..Len(path) : path[i] = IF x.path[i] = Wild THEN Id ELSE x.path[i]
  <2>1. x.path \in Seq(Segment)
    BY PathsAreSequences
  <2>2. Len(x.path) \in Nat
    BY <2>1
  <2> QED  BY <2>1, <2>2, FilledPath
<1> HIDE DEF path
<1>2. Route!pathMatches(x.path, path)
  BY <1>1 DEF Route!pathMatches
<1>3. Id \notin Segment
  BY RouteAssumption DEF Segment
<1>4. \A g \in Route!Handlers : \A i \in 1..Len(g.path) : g.path[i] # Id
  BY <1>3, PathsAreSequences
<1>5. NoWild(x.path) => x.path = path
  BY <1>1, <1>2, LiteralFits
<1>6. ASSUME ~NoWild(x.path) PROVE \A g \in Route!Handlers : g.path # path
  <2>1. PICK i \in 1..Len(path) : path[i] = Id
    BY <1>1, <1>6 DEF NoWild
  <2> QED  BY <2>1, <1>4
<1>7. x \in Route!Router(x.method, path)
  BY <1>2, <1>5, <1>6 DEF Route!Router
<1>8. ASSUME NEW h \in Route!Router(x.method, path) PROVE Alike(x, h)
  <2>1. /\ h \in Route!Handlers /\ h.method = x.method /\ Route!pathMatches(h.path, path)
        /\ h.path = path \/ \A g \in Route!Handlers : g.path # path
    BY <1>1, <1>8, RouterFits
  <2>2. x.path = path \/ \A g \in Route!Handlers : g.path # path
    BY <1>5, <1>6
  <2> QED  BY <1>1, <1>2, <2>1, <2>2, ChoicesAlike
<1> QED  BY <1>1, <1>7, <1>8 DEF path

\* A name the registry finds is that of an entry, exact if there is one.
LEMMA LookedUp ==
    ASSUME NEW m, NEW path, NEW n \in Route!nameByMethodAndPath(m, path), n # Null, Len(path) \in Nat
    PROVE  \E e \in Route!Names :
              /\ e.name = n /\ e.method = m /\ Route!pathMatches(e.path, path)
              /\ e.path = path \/ \A d \in Route!Names : ~(d.method = m /\ d.path = path)
BY DEF Route!nameByMethodAndPath, Route!pathMatches

\* Looked up by the method it was routed by, a name is the operation of the handler.
LEMMA GuardSame ==
    ASSUME NEW h \in Route!Handlers, NEW path \in Seq(Segment \cup {Id}),
           Route!pathMatches(h.path, path),
           h.path = path \/ \A g \in Route!Handlers : g.path # path,
           NEW n \in Route!nameByMethodAndPath(h.method, path), n # Null
    PROVE  Route!Operation(n) = h.op /\ h.op[2] # "companion"
<1>1. PICK e \in Route!Names :
          /\ e.name = n /\ e.method = h.method /\ Route!pathMatches(e.path, path)
          /\ e.path = path \/ \A d \in Route!Names : ~(d.method = h.method /\ d.path = path)
  BY LookedUp
<1>2. PICK x \in Route!Handlers : Answers(x, e)
  BY NamesAnswered
<1>3. Route!pathMatches(x.path, path) /\ x.method = h.method /\ x.op = Route!Operation(n)
      /\ x.op[2] # "companion" /\ x.path = e.path
  BY <1>1, <1>2 DEF Answers
<1>4. Overlap(x, h)
  BY <1>3, FitsOverlap
<1>5. \A y, z \in Route!Handlers : Shadows(y, z) => NoWild(y.path)
  <2> SUFFICES ASSUME NEW y, NEW z, Shadows(y, z), NEW i \in 1..Len(y.path) PROVE y.path[i] # Wild
    BY DEF NoWild
  <2>1. i = 1 \/ i = 2
    BY DEF Shadows
  <2> QED  BY <2>1 DEF Shadows
<1>6. ASSUME Shadows(x, h) PROVE FALSE
  <2>1. x.path = path
    BY <1>3, <1>5, <1>6, LiteralFits
  <2>2. h.path = path
    BY <2>1
  <2> QED  BY <1>6, <2>1, <2>2 DEF Shadows
<1>7. ASSUME Shadows(h, x) PROVE FALSE
  <2>1. h.path = path
    BY <1>5, <1>7, LiteralFits
  <2>2. x.path # path /\ h.op[2] = "create"
    BY <1>3, <1>7, <2>1 DEF Shadows
  <2>3. PICK d \in Route!Names : d.path = h.path /\ d.method = h.method
    BY <2>2, CreateNamed
  <2> QED  BY <1>1, <1>3, <2>1, <2>2, <2>3
<1> QED  BY <1>3, <1>4, <1>6, <1>7, AllApart DEF Apart, Alike

\* No pattern begins with a {param}.
LEMMA FirstIsLiteral == \A h \in Route!Handlers : Len(h.path) >= 1 => h.path[1] # Wild
<1>1. \A r \in {"users", "permissions"} : \A h : ListTable(h, r) => h.path[1] # Wild
  BY NoLiteral DEF ListTable, Is1, Is2, Is3, Unspelled
<1>2. \A h : RoleTable(h) => h.path[1] # Wild
  BY NoLiteral DEF RoleTable, Is1, Is2, Is3, Is4, Is5, Unspelled
<1>3. \A h : AuthTable(h) => h.path[1] # Wild
  BY NoLiteral DEF AuthTable, Is2, Is3, Unspelled
<1>4. \A h : OtherTable(h) => Len(h.path) = 0 \/ h.path[1] # Wild
  BY NoLiteral DEF OtherTable, Is0, Is1, Is2, Is3, Unspelled
<1> QED  BY <1>1, <1>2, <1>3, <1>4, HandlerTable

ListNames == {"users", "permissions", "roles"}

\* The handlers for the methods a browser cannot send, and the companions.
LEMMA Changing ==
    \A x \in Route!Handlers : x.method \in {"PUT", "DELETE", "PATCH"} =>
        \/ \E r \in ListNames : /\ Is2(x.path, r, Wild)
                               /\ x.op = <<r, IF x.method = "PUT" THEN "update" ELSE "delete">>
                               /\ x.method # "PATCH"
        \/ Is2(x.path, "profile", "update") /\ x.op = <<"profile", "update">> /\ x.method = "PUT"
        \/ Is1(x.path, "setting") /\ x.op = <<"setting", "update">> /\ x.method = "PUT"
<1>1. \A r, x : ListTable(x, r) /\ x.method \in {"PUT", "DELETE", "PATCH"} =>
          Is2(x.path, r, Wild) /\ x.op = <<r, IF x.method = "PUT" THEN "update" ELSE "delete">>
          /\ x.method # "PATCH"
  BY DEF ListTable, Row
<1>2. \A x : RoleTable(x) /\ x.method \in {"PUT", "DELETE", "PATCH"} =>
          Is2(x.path, "roles", Wild) /\ x.op = <<"roles", IF x.method = "PUT" THEN "update" ELSE "delete">>
          /\ x.method # "PATCH"
  BY DEF RoleTable, Row
<1>3. \A x : AuthTable(x) => x.method \notin {"PUT", "DELETE", "PATCH"}
  BY DEF AuthTable, Row
<1>4. \A x : OtherTable(x) /\ x.method \in {"PUT", "DELETE", "PATCH"} =>
        \/ Is2(x.path, "profile", "update") /\ x.op = <<"profile", "update">> /\ x.method = "PUT"
        \/ Is1(x.path, "setting") /\ x.op = <<"setting", "update">> /\ x.method = "PUT"
  BY DEF OtherTable, Row
<1> QED  BY <1>1, <1>2, <1>3, <1>4, HandlerTable, Zenon DEF ListNames

Companion(h) ==
    /\ h.op[2] = "companion" => \E r \in ListNames : Is2(h.path, r, Wild) /\ h.op = <<r, "companion">>
    /\ h.method = "POST" /\ Len(h.path) = 2 =>
           /\ h.path[2] = Wild => h.op[2] = "companion"
           /\ h.path[1] = "profile" => h.op = <<"profile", "update">>
    /\ h.method = "POST" /\ Len(h.path) = 1 /\ h.path[1] = "setting" => h.op = <<"setting", "update">>

LEMMA Companions == \A h \in Route!Handlers : Companion(h)
<1>1. ASSUME NEW r \in ListNames, NEW h, ListTable(h, r) PROVE Companion(h)
  <2>1. h.op[2] = "companion" => Is2(h.path, r, Wild) /\ h.op = <<r, "companion">>
    BY <1>1 DEF ListTable, Row
  <2>2. r # "profile" /\ r # "setting"
    BY DEF ListNames
  <2>3. Len(h.path) >= 1 /\ h.path[1] = r
    BY <1>1 DEF ListTable, Is1, Is2, Is3
  <2>4. h.method = "POST" /\ Len(h.path) = 2 /\ h.path[2] = Wild => h.op[2] = "companion"
    BY <1>1, NoLiteral DEF ListTable, Row, Is1, Is2, Is3, Unspelled
  <2> QED  BY <2>1, <2>2, <2>3, <2>4 DEF Companion
<1>2. ASSUME NEW h, RoleTable(h) PROVE Companion(h)
  <2>1. h.op[2] = "companion" => Is2(h.path, "roles", Wild) /\ h.op = <<"roles", "companion">>
    BY <1>2 DEF RoleTable, Row
  <2>3. Len(h.path) >= 1 /\ h.path[1] = "roles"
    BY <1>2 DEF RoleTable, Is1, Is2, Is3, Is4, Is5
  <2>4. h.method = "POST" /\ Len(h.path) = 2 /\ h.path[2] = Wild => h.op[2] = "companion"
    BY <1>2, NoLiteral DEF RoleTable, Row, Is1, Is2, Is3, Is4, Is5, Unspelled
  <2> QED  BY <2>1, <2>3, <2>4 DEF Companion, ListNames
<1>3. ASSUME NEW h, AuthTable(h) PROVE Companion(h)
  BY <1>3, NoLiteral DEF AuthTable, Row, Is2, Is3, Companion, Unspelled
<1>4. ASSUME NEW h, OtherTable(h) PROVE Companion(h)
  BY <1>4, NoLiteral DEF OtherTable, Row, Is0, Is1, Is2, Is3, Companion, Unspelled
<1> QED  BY <1>1, <1>2, <1>3, <1>4, HandlerTable DEF ListNames

\* The pages and the links: what a GET performs, and where it leads.
GetOperation(h) ==
    h.method = "GET" =>
        /\ h.op[2] # "companion" /\ h.op # <<"profile", "update">> /\ h.op \notin Route!Bulk
        /\ Len(h.path) \in {1, 2, 3} => Route!Target(h.op) = Null
        /\ Len(h.path) = 2 /\ h.path[1] = "auth" /\ h.path[2] \in {Wild, "login"} =>
               h.op = <<"auth", "login">> /\ h.filters = {}

LEMMA NotBulk ==
    \A op : op[2] \notin {"delete", "delete_selected", "assign_selected", "unassign_selected"} =>
               op \notin Route!Bulk
BY DEF Route!Bulk

LEMMA GetOperations == \A h \in Route!Handlers : GetOperation(h)
<1>1. ASSUME NEW r \in {"users", "permissions"}, NEW h, ListTable(h, r) PROVE GetOperation(h)
  <2>1. h.method = "GET" =>
            h.op \in {<<r, "index">>, <<r, "create">>, <<r, "show">>, <<r, "edit">>}
    BY <1>1 DEF ListTable, Row
  <2>2. Len(h.path) >= 1 /\ h.path[1] # "auth"
    BY <1>1 DEF ListTable, Is1, Is2, Is3
  <2>3. \A op \in {<<r, "index">>, <<r, "create">>, <<r, "show">>, <<r, "edit">>} :
            op[1] = r /\ op[2] \in {"index", "create", "show", "edit"}
    OBVIOUS
  <2>4. \A op : op[1] = r /\ op[2] \in {"index", "create", "show", "edit"} =>
            /\ op[2] # "companion" /\ op # <<"profile", "update">> /\ Route!Target(op) = Null
            /\ op \notin Route!Bulk
    BY NotBulk DEF Route!Target, Route!Landing
  <2> QED  BY <2>1, <2>2, <2>3, <2>4 DEF GetOperation
<1>2. ASSUME NEW h, RoleTable(h) PROVE GetOperation(h)
  <2>1. h.method = "GET" =>
            \/ h.op[1] = "roles" /\ h.op[2] \in {"index", "create", "show", "edit"}
            \/ h.op = <<"grants", "index">>
            \/ h.op \in {<<"grants", "assign">>, <<"grants", "unassign">>} /\ Len(h.path) = 5
    BY <1>2 DEF RoleTable, Row, Is5
  <2>2. Len(h.path) >= 1 /\ h.path[1] # "auth"
    BY <1>2 DEF RoleTable, Is1, Is2, Is3, Is4, Is5
  <2>3. \A op : op[1] = "roles" /\ op[2] \in {"index", "create", "show", "edit"} =>
            /\ op[2] # "companion" /\ op # <<"profile", "update">> /\ Route!Target(op) = Null
            /\ op \notin Route!Bulk
    BY NotBulk DEF Route!Target, Route!Landing
  <2>4. Route!Target(<<"grants", "index">>) = Null
    BY DEF Route!Target, Route!Landing
  <2>5. \A op \in {<<"grants", "index">>, <<"grants", "assign">>, <<"grants", "unassign">>} :
            op[2] # "companion" /\ op # <<"profile", "update">> /\ op \notin Route!Bulk
    BY NotBulk
  <2>6. h.method = "GET" =>
            h.op[2] # "companion" /\ h.op # <<"profile", "update">> /\ h.op \notin Route!Bulk
    BY <2>1, <2>3, <2>5
  <2>7. h.method = "GET" /\ Len(h.path) \in {1, 2, 3} => Route!Target(h.op) = Null
    BY <2>1, <2>3, <2>4
  <2> QED  BY <2>2, <2>6, <2>7 DEF GetOperation
<1>3. ASSUME NEW h, AuthTable(h) PROVE GetOperation(h)
  <2>1. h.method = "GET" =>
            h.op[1] = "auth" /\ h.op[2] \in {"login", "signup", "reset.req", "reset.proc"}
    BY <1>3 DEF AuthTable, Row
  <2>2. \A op : op[1] = "auth" /\ op[2] \in {"login", "signup", "reset.req", "reset.proc"} =>
            /\ op[2] # "companion" /\ op # <<"profile", "update">> /\ Route!Target(op) = Null
            /\ op \notin Route!Bulk
    BY NotBulk DEF Route!Target, Route!AuthLanding
  <2>3. h.method = "GET" /\ Len(h.path) = 2 /\ h.path[2] \in {Wild, "login"} =>
               h.op = <<"auth", "login">> /\ h.filters = {}
    BY <1>3, NoLiteral DEF AuthTable, Row, Is2, Is3, Unspelled
  <2> QED  BY <2>1, <2>2, <2>3 DEF GetOperation
<1>4. ASSUME NEW h, OtherTable(h) PROVE GetOperation(h)
  <2>1. h.method = "GET" =>
            \/ h.op \in {<<"dashboard", "index">>, <<"components", "index">>, <<"setting", "edit">>,
                         <<"setting", "fe_preview">>, <<"profile", "show">>, <<"media", "list">>,
                         <<"home", "index">>, <<"storage", "serve">>}
            \/ h.op = <<"admin", "index">> /\ Len(h.path) = 0
    BY <1>4 DEF OtherTable, Row, Is0
  <2>2. Len(h.path) >= 1 => h.path[1] # "auth"
    BY <1>4 DEF OtherTable, Is0, Is1, Is2, Is3
  <2>3. \A op \in {<<"dashboard", "index">>, <<"components", "index">>, <<"setting", "edit">>,
                   <<"setting", "fe_preview">>, <<"profile", "show">>, <<"media", "list">>,
                   <<"home", "index">>, <<"storage", "serve">>} :
            /\ op[2] # "companion" /\ op # <<"profile", "update">> /\ Route!Target(op) = Null
    BY DEF Route!Target, Route!Landing
  <2>4. \A op \in {<<"dashboard", "index">>, <<"components", "index">>, <<"setting", "edit">>,
                   <<"setting", "fe_preview">>, <<"profile", "show">>, <<"media", "list">>,
                   <<"home", "index">>, <<"storage", "serve">>, <<"admin", "index">>} :
            op \notin Route!Bulk
    BY NotBulk
  <2>5. h.method = "GET" => h.op \notin Route!Bulk
    BY <2>1, <2>4
  <2>6. h.method = "GET" => h.op[2] # "companion" /\ h.op # <<"profile", "update">>
    BY <2>1, <2>3
  <2>7. h.method = "GET" /\ Len(h.path) \in {1, 2, 3} => Route!Target(h.op) = Null
    BY <2>1, <2>3
  <2> QED  BY <2>2, <2>5, <2>6, <2>7 DEF GetOperation
<1> QED  BY <1>1, <1>2, <1>3, <1>4, HandlerTable

\* The forms that change their method: _method, and where it is sent.
LEMMA ChangingForms ==
    \A f \in Route!Forms : f.override \in {"PUT", "DELETE", "PATCH"} =>
        \/ \E r \in ListNames : f.path = <<r, Id>>
        \/ \E a \in {"update", "delete"} : f.path = <<"roles", Id, a>>
        \/ f.path = <<"profile", "update">> \/ f.path = <<"setting">>
<1> DEFINE Proper(f) == f.override \in {"PUT", "DELETE", "PATCH"} =>
        \/ \E r \in ListNames : f.path = <<r, Id>>
        \/ \E a \in {"update", "delete"} : f.path = <<"roles", Id, a>>
        \/ f.path = <<"profile", "update">> \/ f.path = <<"setting">>
<1>1. \A w, m, p, o, f : /\ Route!Send(w, m, p, o, f).override = o
                          /\ Route!Send(w, m, p, o, f).path = p
  BY DEF Route!Send
<1>2. \A w, m, p, f : Proper(Route!Send(w, m, p, Null, f))
  BY <1>1, RouteAssumption
<1>3. /\ \A r \in ListNames : \A w, m, o, f : Proper(Route!Send(w, m, <<r, Id>>, o, f))
      /\ \A a \in {"update", "delete"} : \A w, m, o, f : Proper(Route!Send(w, m, <<"roles", Id, a>>, o, f))
      /\ \A w, m, o, f : Proper(Route!Send(w, m, <<"profile", "update">>, o, f))
      /\ \A w, m, o, f : Proper(Route!Send(w, m, <<"setting">>, o, f))
  BY <1>1
<1> HIDE DEF Proper
<1>4. \A r \in ListNames : \A q \in Route!UserForms(r) : Proper(q)
  BY <1>2, <1>3, Zenon DEF Route!UserForms, Route!Selection
<1>5. \A q \in Route!RoleForms \cup Route!GrantForms \cup Route!OwnForms : Proper(q)
  <2>1. "update" \in {"update", "delete"} /\ "delete" \in {"update", "delete"}
    OBVIOUS
  <2> QED  BY <1>2, <1>3, <2>1, Zenon DEF Route!RoleForms, Route!GrantForms,
            Route!OwnForms, Route!Selection
<1>6. \A q \in Route!AuthForms \cup {Route!LogoutForm} : Proper(q)
  BY <1>2, Zenon DEF Route!AuthForms, Route!LogoutForm
<1>7. "users" \in ListNames /\ "permissions" \in ListNames
  BY DEF ListNames
<1>8. \A q \in Route!Forms : Proper(q)
  BY <1>4, <1>5, <1>6, <1>7, Zenon DEF Route!Forms
<1> QED  BY <1>8 DEF Proper

\* Looked up by the method of _method, it is what the handler makes of _method.
LEMMA GuardChanged ==
    ASSUME NEW h \in Route!Handlers, h.method = "POST",
           NEW path \in Seq(Segment \cup {Id}), Route!pathMatches(h.path, path),
           NEW m \in {"PUT", "DELETE", "PATCH"},
           h.op[2] = "companion" \/ \E f \in Route!Forms : f.path = path /\ f.override = m,
           NEW n \in Route!nameByMethodAndPath(m, path), n # Null
    PROVE  Route!Operation(n) = Route!Dispatch(h, m)
<1>1. PICK e \in Route!Names : e.name = n /\ e.method = m /\ Route!pathMatches(e.path, path)
  BY LookedUp
<1>2. PICK x \in Route!Handlers : Answers(x, e)
  BY NamesAnswered
<1>3. Route!pathMatches(x.path, path) /\ x.method = m /\ x.op = Route!Operation(n)
  BY <1>1, <1>2 DEF Answers
<1>4. /\ Len(x.path) = Len(path) /\ Len(h.path) = Len(path) /\ Len(path) \in Nat
      /\ \A i \in 1..Len(path) : x.path[i] \in {Wild, path[i]} /\ h.path[i] \in {Wild, path[i]}
  BY <1>3 DEF Route!pathMatches
<1>5. \/ \E r \in ListNames : /\ Is2(x.path, r, Wild) /\ m # "PATCH"
                             /\ x.op = <<r, IF m = "PUT" THEN "update" ELSE "delete">>
      \/ Is2(x.path, "profile", "update") /\ x.op = <<"profile", "update">>
      \/ Is1(x.path, "setting") /\ x.op = <<"setting", "update">>
  BY <1>3, Changing
<1>6. \A r \in ListNames : r # Wild /\ r # "profile" /\ r # "setting"
  BY NoLiteral DEF Unspelled, ListNames
<1>7. Companion(h)
  BY Companions
<1>8. CASE h.op[2] = "companion"
  <2>1. PICK r \in ListNames : Is2(h.path, r, Wild) /\ h.op = <<r, "companion">>
    BY <1>7, <1>8 DEF Companion
  <2>2. Len(path) = 2 /\ path[1] = r
    BY <1>4, <1>6, <2>1 DEF Is2
  <2>3. Len(x.path) = 2 /\ x.path[1] \in {Wild, r}
    BY <1>4, <2>2
  <2>4. m # "PATCH" /\ x.op = <<r, IF m = "PUT" THEN "update" ELSE "delete">>
    BY <1>5, <1>6, <2>3, NoLiteral DEF Is1, Is2, Unspelled
  <2>5. Route!Dispatch(h, m) = <<r, IF m = "PUT" THEN "update" ELSE "delete">>
    BY <2>1, <2>4 DEF Route!Dispatch
  <2> QED  BY <1>3, <2>4, <2>5
<1>9. CASE h.op[2] # "companion"
  <2>1. PICK f \in Route!Forms : f.path = path /\ f.override = m
    BY <1>9
  <2>2. Route!Dispatch(h, m) = h.op
    BY <1>9 DEF Route!Dispatch
  <2>3. ASSUME NEW r \in ListNames, path = <<r, Id>> PROVE FALSE
    <3>1. Len(path) = 2 /\ path[2] = Id
      BY <2>3
    <3>2. h.path[2] \in {Wild, Id} /\ h.path[2] # Id
      BY <1>4, <3>1, PathsAreSequences, RouteAssumption DEF Segment
    <3> QED  BY <1>4, <1>7, <1>9, <3>1, <3>2 DEF Companion
  <2>4. ASSUME NEW a, path = <<"roles", Id, a>> PROVE FALSE
    <3>1. Len(path) = 3
      BY <2>4
    <3> QED  BY <1>4, <1>5, <3>1 DEF Is1, Is2
  <2>5. CASE path = <<"profile", "update">>
    <3>1. Len(path) = 2 /\ path[1] = "profile" /\ path[2] = "update"
      BY <2>5
    <3>2. x.path[1] \in {Wild, "profile"} /\ h.path[1] \in {Wild, "profile"} /\ Len(x.path) = 2
      BY <1>4, <3>1
    <3>3. x.op = <<"profile", "update">>
      BY <1>5, <1>6, <3>2 DEF Is1, Is2
    <3>4. h.path[1] # Wild
      BY <1>4, <3>1, FirstIsLiteral
    <3> QED  BY <1>3, <1>4, <1>7, <2>2, <3>1, <3>2, <3>3, <3>4 DEF Companion
  <2>6. CASE path = <<"setting">>
    <3>1. Len(path) = 1 /\ path[1] = "setting"
      BY <2>6
    <3>2. x.path[1] \in {Wild, "setting"} /\ h.path[1] \in {Wild, "setting"} /\ Len(x.path) = 1
      BY <1>4, <3>1
    <3>3. x.op = <<"setting", "update">>
      BY <1>5, <1>6, <3>2 DEF Is1, Is2
    <3>4. h.path[1] # Wild
      BY <1>4, <3>1, FirstIsLiteral
    <3> QED  BY <1>3, <1>4, <1>7, <2>2, <3>1, <3>2, <3>3, <3>4 DEF Companion
  <2> QED  BY <2>1, <2>3, <2>4, <2>5, <2>6, ChangingForms
<1> QED  BY <1>8, <1>9

-----------------------------------------------------------------------------
(* Which methods have a name *)

\* The operations that have no name, by any method a browser sends.
Bare(op, m) ==
    \/ op \in {<<"users", "delete_selected">>, <<"permissions", "delete_selected">>}
    \/ op = <<"setting", "update">> /\ m = "POST"

LEMMA NamesLack == \A e \in Route!Names : ~Bare(Route!Operation(e.name), e.method)
<1> DEFINE Lacks(t) == \A e \in t.names : ~Bare(Route!Operation(e.name), e.method)
<1> USE DEF Route!Entry, Route!Operation, Bare
<1>1. ASSUME NEW r PROVE \A e \in Route!ListEntries(r) : ~Bare(Route!Operation(e.name), e.method)
  BY DEF Route!ListEntries
<1>2. Lacks(Route!UserRoutes) /\ Lacks(Route!PermissionRoutes)
  BY <1>1, Zenon DEF Route!UserRoutes, Route!PermissionRoutes
<1>3. Lacks(Route!RoleRoutes)
  BY DEF Route!RoleRoutes, Route!ListEntries
<1>4. Lacks(Route!GrantRoutes)
  BY DEF Route!GrantRoutes
<1>5. Lacks(Route!AuthRoutes)
  BY DEF Route!AuthRoutes
<1>6. Lacks(Route!DashboardRoutes) /\ Lacks(Route!ComponentsRoutes) /\ Lacks(Route!ProfileRoutes)
  BY DEF Route!DashboardRoutes, Route!ComponentsRoutes, Route!ProfileRoutes
<1>7. Lacks(Route!SettingRoutes)
  BY DEF Route!SettingRoutes
<1>8. Lacks(Route!MediaRoutes)
  BY DEF Route!MediaRoutes
<1>9. Lacks(Route!HomeRoutes) /\ Lacks(Route!StorageRoutes)
  BY DEF Route!HomeRoutes, Route!StorageRoutes
<1> HIDE DEF Lacks
<1>10. \A t \in Route!Registered(mode) : Lacks(t)
  BY <1>2, <1>3, <1>4, <1>5, <1>6, <1>7, <1>8, <1>9, RegisteredTables DEF Tables, OtherRoutes
<1> QED  BY <1>10 DEF Lacks, Route!Names

\* Every other guarded handler has a name for its own method, and what a form
\* changes has one for the method it is changed to.
NameFor(h, m) == \E e \in Route!Names : e.path = h.path /\ e.method = m

LEMMA HandlersNamed ==
    \A h \in Route!Handlers : "rbac" \in h.filters =>
        /\ h.op[2] = "companion" \/ Bare(h.op, h.method) \/ NameFor(h, h.method)
        /\ h.op[2] = "companion" => NameFor(h, "PUT") /\ NameFor(h, "DELETE")
        /\ h.op = <<"setting", "update">> => NameFor(h, "PUT")
<1> DEFINE For(t, p, m) == \E e \in t.names : e.path = p /\ e.method = m
           Good(t, h) == "rbac" \in h.filters =>
                /\ h.op[2] = "companion" \/ Bare(h.op, h.method) \/ For(t, h.path, h.method)
                /\ h.op[2] = "companion" => For(t, h.path, "PUT") /\ For(t, h.path, "DELETE")
                /\ h.op = <<"setting", "update">> => For(t, h.path, "PUT")
           Named(t) == \A h \in t.handlers : Good(t, h)
<1>0. /\ \A n, m, p : /\ Route!Entry(n, m, p).name = n /\ Route!Entry(n, m, p).method = m
                      /\ Route!Entry(n, m, p).path = p
      /\ \A o, m, p, f : /\ Route!Handler(o, m, p, f).op = o /\ Route!Handler(o, m, p, f).method = m
                         /\ Route!Handler(o, m, p, f).path = p /\ Route!Handler(o, m, p, f).filters = f
  BY DEF Route!Entry, Route!Handler
<1>1. \A t, n, m, p : Route!Entry(n, m, p) \in t.names => For(t, p, m)
  BY <1>0
<1>2. ASSUME NEW t, NEW h, For(t, h.path, h.method), h.op[2] # "companion",
             h.op # <<"setting", "update">> \/ h.method = "PUT"
      PROVE  Good(t, h)
  BY <1>2
<1>3. ASSUME NEW t, NEW h, h.op[2] = "companion", For(t, h.path, "PUT"), For(t, h.path, "DELETE")
      PROVE  Good(t, h)
  BY <1>3
<1>4. ASSUME NEW t, NEW h, Bare(h.op, h.method), h.op[2] # "companion",
             h.op = <<"setting", "update">> => For(t, h.path, "PUT")
      PROVE  Good(t, h)
  BY <1>4
<1>5. \A t, h : "rbac" \notin h.filters => Good(t, h)
  OBVIOUS
<1> HIDE DEF For, Good
<1>6. ASSUME NEW r \in {"users", "permissions"}, NEW t, t.names = Route!ListEntries(r),
             NEW h \in Route!ListHandlers(r)
      PROVE  Good(t, h)
  <2>1. CASE \E e \in Route!ListEntries(r) : h = Route!Handler(e.name, e.method, e.path, Route!Guarded)
    <3>1. PICK e \in Route!ListEntries(r) : h = Route!Handler(e.name, e.method, e.path, Route!Guarded)
      BY <2>1
    <3>2. e = Route!Entry(e.name, e.method, e.path) /\ e.name[1] = r /\ e.name[2] # "companion"
      BY DEF Route!ListEntries, Route!Entry
    <3>3. h.op = e.name /\ h.method = e.method /\ h.path = e.path
      BY <1>0, <3>1
    <3>4. For(t, h.path, h.method)
      BY <1>1, <1>6, <3>2, <3>3
    <3>5. h.op # <<"setting", "update">>
      BY <3>2, <3>3
    <3> QED  BY <1>2, <3>2, <3>3, <3>4, <3>5
  <2>2. CASE h = Route!Handler(<<r, "companion">>, "POST", <<r, Wild>>, Route!Guarded)
    <3>1. h.op[2] = "companion" /\ h.path = <<r, Wild>>
      BY <1>0, <2>2
    <3>2. /\ Route!Entry(<<r, "update">>, "PUT", <<r, Wild>>) \in t.names
          /\ Route!Entry(<<r, "delete">>, "DELETE", <<r, Wild>>) \in t.names
      BY <1>6, Zenon DEF Route!ListEntries
    <3> QED  BY <1>1, <1>3, <3>1, <3>2
  <2>3. CASE h = Route!Handler(<<r, "delete_selected">>, "POST", <<r, "delete_selected">>, Route!Guarded)
    <3>1. h.op = <<r, "delete_selected">>
      BY <1>0, <2>3
    <3>2. Bare(h.op, h.method) /\ h.op[2] # "companion" /\ h.op # <<"setting", "update">>
      BY <3>1 DEF Bare
    <3> QED  BY <1>4, <3>2
  <2> QED  BY <2>1, <2>2, <2>3, Zenon DEF Route!ListHandlers
<1>7. Named(Route!UserRoutes) /\ Named(Route!PermissionRoutes)
  <2>1. /\ Route!UserRoutes.names = Route!ListEntries("users")
        /\ Route!UserRoutes.handlers = Route!ListHandlers("users")
        /\ Route!PermissionRoutes.names = Route!ListEntries("permissions")
        /\ Route!PermissionRoutes.handlers = Route!ListHandlers("permissions")
    BY DEF Route!UserRoutes, Route!PermissionRoutes
  <2> QED  BY <1>6, <2>1
<1>8. Named(Route!RoleRoutes)
  <2> SUFFICES ASSUME NEW h \in Route!RoleRoutes.handlers PROVE Good(Route!RoleRoutes, h)
    OBVIOUS
  <2>1. CASE \E e \in Route!RoleRoutes.names :
                 h = Route!Handler(Route!Operation(e.name), e.method, e.path, Route!Guarded)
    <3>1. PICK e \in Route!RoleRoutes.names :
              h = Route!Handler(Route!Operation(e.name), e.method, e.path, Route!Guarded)
      BY <2>1
    <3>2. e = Route!Entry(e.name, e.method, e.path)
          /\ Route!Operation(e.name)[1] = "roles" /\ Route!Operation(e.name)[2] # "companion"
      BY DEF Route!RoleRoutes, Route!ListEntries, Route!Entry, Route!Operation
    <3>3. h.op = Route!Operation(e.name) /\ h.method = e.method /\ h.path = e.path
      BY <1>0, <3>1
    <3>4. For(Route!RoleRoutes, h.path, h.method)
      BY <1>1, <3>2, <3>3
    <3>5. h.op # <<"setting", "update">>
      BY <3>2, <3>3
    <3> QED  BY <1>2, <3>2, <3>3, <3>4, <3>5
  <2>2. CASE h = Route!Handler(<<"roles", "companion">>, "POST", <<"roles", Wild>>, Route!Guarded)
    <3>1. h.op[2] = "companion" /\ h.path = <<"roles", Wild>>
      BY <1>0, <2>2
    <3>2. /\ Route!Entry(<<"roles", "update">>, "PUT", <<"roles", Wild>>) \in Route!RoleRoutes.names
          /\ Route!Entry(<<"roles", "delete">>, "DELETE", <<"roles", Wild>>) \in Route!RoleRoutes.names
      BY DEF Route!RoleRoutes, Route!ListEntries, Route!Entry
    <3> QED  BY <1>1, <1>3, <3>1, <3>2
  <2>3. h \in {Route!Handler(Route!Operation(e.name), e.method, e.path, Route!Guarded) : e \in Route!RoleRoutes.names}
            \cup {Route!Handler(<<"roles", "companion">>, "POST", <<"roles", Wild>>, Route!Guarded)}
    BY DEF Route!RoleRoutes
  <2> QED  BY <2>1, <2>2, <2>3, Zenon
<1>9. \A t, n, m, p, f : Route!Entry(n, m, p) \in t.names /\ n[2] # "companion" /\ n[1] # "setting" =>
          Good(t, Route!Handler(n, m, p, f))
  <2> SUFFICES ASSUME NEW t, NEW n, NEW m, NEW p, NEW f, Route!Entry(n, m, p) \in t.names,
                      n[2] # "companion", n[1] # "setting"
               PROVE  Good(t, Route!Handler(n, m, p, f))
    BY Zenon
  <2> DEFINE h == Route!Handler(n, m, p, f)
  <2>1. h.op = n /\ h.method = m /\ h.path = p
    BY <1>0
  <2> HIDE DEF h
  <2>2. For(t, h.path, h.method) /\ h.op # <<"setting", "update">>
    BY <1>1, <2>1
  <2>3. Good(t, h)
    BY <1>2, <2>1, <2>2
  <2> QED  BY <2>3 DEF h
<1>10. Named(Route!GrantRoutes)
  <2>1. \A e \in Route!GrantRoutes.names :
            /\ e = Route!Entry(e.name, e.method, e.path) /\ e.name[2] # "companion" /\ e.name[1] # "setting"
    BY DEF Route!GrantRoutes, Route!Entry
  <2>2. Route!GrantRoutes.handlers =
            {Route!Handler(e.name, e.method, e.path, Route!Guarded) : e \in Route!GrantRoutes.names}
    BY DEF Route!GrantRoutes
  <2> QED  BY <1>9, <2>1, <2>2
<1>11. Named(Route!MediaRoutes)
  <2>1. \A e \in Route!MediaRoutes.names :
            /\ e = Route!Entry(e.name, e.method, e.path) /\ e.name[2] # "companion" /\ e.name[1] # "setting"
    BY DEF Route!MediaRoutes, Route!Entry
  <2>2. Route!MediaRoutes.handlers =
            {Route!Handler(e.name, e.method, e.path, Route!Guarded \ {"override"}) : e \in Route!MediaRoutes.names}
    BY DEF Route!MediaRoutes
  <2> QED  BY <1>9, <2>1, <2>2
<1>12. \A t \in {Route!AuthRoutes, Route!HomeRoutes, Route!StorageRoutes, Route!ProfileRoutes} :
           \A h \in t.handlers : "rbac" \notin h.filters
  BY <1>0 DEF Route!AuthRoutes, Route!HomeRoutes, Route!StorageRoutes, Route!ProfileRoutes
<1>13. Named(Route!DashboardRoutes) /\ Named(Route!ComponentsRoutes)
  <2>1. /\ Route!Entry(<<"dashboard", "index">>, "GET", <<"dashboard">>) \in Route!DashboardRoutes.names
        /\ Route!Entry(<<"components", "index">>, "GET", <<"components">>) \in Route!ComponentsRoutes.names
    BY Zenon DEF Route!DashboardRoutes, Route!ComponentsRoutes
  <2>2. \A h \in Route!DashboardRoutes.handlers :
            \/ h = Route!Handler(<<"dashboard", "index">>, "GET", <<"dashboard">>, Route!Guarded)
            \/ h = Route!Handler(<<"admin", "index">>, "GET", <<>>, {})
    BY DEF Route!DashboardRoutes
  <2>3. \A h \in Route!ComponentsRoutes.handlers :
            h = Route!Handler(<<"components", "index">>, "GET", <<"components">>, Route!Guarded)
    BY DEF Route!ComponentsRoutes
  <2>4. <<"dashboard", "index">>[2] # "companion" /\ <<"dashboard", "index">>[1] # "setting"
        /\ <<"components", "index">>[2] # "companion" /\ <<"components", "index">>[1] # "setting"
    OBVIOUS
  <2>5. "rbac" \notin Route!Handler(<<"admin", "index">>, "GET", <<>>, {}).filters
    BY <1>0
  <2> QED  BY <1>5, <1>9, <2>1, <2>2, <2>3, <2>4, <2>5
<1>14. Named(Route!SettingRoutes)
  <2> DEFINE s == <<"setting">>
             save == <<"setting", "update">>
             t == Route!SettingRoutes
  <2>1. /\ Route!Entry(<<"setting", "edit">>, "GET", s) \in t.names
        /\ Route!Entry(save, "PUT", s) \in t.names
        /\ Route!Entry(<<"setting", "fe_preview">>, "GET", <<"setting", "fe-preview", Wild>>) \in t.names
    BY DEF Route!SettingRoutes
  <2>2. \A h \in t.handlers :
            \/ h = Route!Handler(<<"setting", "edit">>, "GET", s, Route!Guarded)
            \/ h = Route!Handler(<<"setting", "fe_preview">>, "GET", <<"setting", "fe-preview", Wild>>, Route!Guarded)
            \/ \E m \in {"PUT", "POST"} : h = Route!Handler(save, m, s, Route!Guarded)
    BY DEF Route!SettingRoutes
  <2> HIDE DEF t
  <2>3. For(t, s, "GET") /\ For(t, s, "PUT") /\ For(t, <<"setting", "fe-preview", Wild>>, "GET")
    BY <1>1, <2>1
  <2>4. ASSUME NEW h, h = Route!Handler(<<"setting", "edit">>, "GET", s, Route!Guarded) PROVE Good(t, h)
    <3>1. h.op = <<"setting", "edit">> /\ h.method = "GET" /\ h.path = s
      BY <1>0, <2>4
    <3> QED  BY <1>2, <2>3, <3>1
  <2>5. ASSUME NEW h, h = Route!Handler(<<"setting", "fe_preview">>, "GET", <<"setting", "fe-preview", Wild>>, Route!Guarded)
        PROVE  Good(t, h)
    <3>1. h.op = <<"setting", "fe_preview">> /\ h.method = "GET" /\ h.path = <<"setting", "fe-preview", Wild>>
      BY <1>0, <2>5
    <3> QED  BY <1>2, <2>3, <3>1
  <2>6. ASSUME NEW h, NEW m \in {"PUT", "POST"}, h = Route!Handler(save, m, s, Route!Guarded)
        PROVE  Good(t, h)
    <3>1. h.op = save /\ h.method = m /\ h.path = s
      BY <1>0, <2>6
    <3>2. save[2] # "companion" /\ (m = "POST" => Bare(save, m))
      BY DEF Bare
    <3> QED  BY <1>2, <1>4, <2>3, <3>1, <3>2
  <2> QED  BY <2>2, <2>4, <2>5, <2>6 DEF t
<1>15. \A t \in Tables : Named(t)
  BY <1>5, <1>7, <1>8, <1>10, <1>11, <1>12, <1>13, <1>14 DEF Tables, OtherRoutes
<1>16. ASSUME NEW h \in Route!Handlers PROVE \E t \in Route!Registered(mode) : Good(t, h)
  BY <1>15, RegisteredTables DEF Route!Handlers
<1>17. \A t \in Route!Registered(mode) : \A h, m : For(t, h.path, m) => NameFor(h, m)
  BY DEF For, NameFor, Route!Names
<1> QED  BY <1>16, <1>17 DEF Good

LEMMA NameNotNull == \A e \in Route!Names : e.name # Null
<1>1. Route!Registered(mode) \subseteq Route!Registered("web")
  BY DEF Route!Registered
<1> QED  BY <1>1, RouteAssumption DEF Route!Names

\* A name at the pattern of a handler is found for every path the pattern fits.
LEMMA NameFound ==
    ASSUME NEW h \in Route!Handlers, NEW path, Route!pathMatches(h.path, path), NEW m, NameFor(h, m),
           NEW n \in Route!nameByMethodAndPath(m, path)
    PROVE  n # Null
<1>1. PICK e \in Route!Names : e.path = h.path /\ e.method = m
  BY DEF NameFor
<1>2. Route!pathMatches(e.path, path)
  BY <1>1
<1>3. \A d \in Route!Names : d.name # Null
  BY NameNotNull
<1> QED  BY <1>1, <1>2, <1>3 DEF Route!nameByMethodAndPath

\* The operation of a name is never one that has none.
LEMMA NameUnbare ==
    ASSUME NEW m, NEW path, NEW n \in Route!nameByMethodAndPath(m, path), n # Null, Len(path) \in Nat
    PROVE  ~Bare(Route!Operation(n), m)
BY LookedUp, NamesLack

\* The handlers without a name of their own are called by POST.
LEMMA BareGuarded ==
    \A h \in Route!Handlers : h.op[2] = "companion" \/ Bare(h.op, h.method) =>
        h.filters = Route!Guarded /\ h.method = "POST"
<1>1. \A r \in {"users", "permissions"} : \A h : ListTable(h, r) =>
          (h.op[2] = "companion" \/ Bare(h.op, h.method) => h.filters = Route!Guarded /\ h.method = "POST")
  BY DEF ListTable, Row, Bare
<1>2. \A h : RoleTable(h) =>
          (h.op[2] = "companion" \/ Bare(h.op, h.method) => h.filters = Route!Guarded /\ h.method = "POST")
  BY DEF RoleTable, Row, Bare
<1>3. \A h : AuthTable(h) => ~(h.op[2] = "companion" \/ Bare(h.op, h.method))
  BY DEF AuthTable, Row, Bare
<1>4. \A h : OtherTable(h) =>
          (h.op[2] = "companion" \/ Bare(h.op, h.method) => h.filters = Route!Guarded /\ h.method = "POST")
  BY DEF OtherTable, Row, Bare
<1> QED  BY <1>1, <1>2, <1>3, <1>4, HandlerTable

\* The addresses of a role's forms: the handlers of a path of three segments.
RoleForm(h) == h.op \in {<<"roles", "update">>, <<"roles", "delete">>} /\ h.method = "POST"

LEMMA RoleFormGuarded ==
    \A h \in Route!Handlers :
        /\ RoleForm(h) => h.filters = Route!Guarded /\ Len(h.path) = 3
        /\ /\ h.method = "POST" /\ Len(h.path) = 3 /\ h.path[1] = "roles"
           => RoleForm(h)
<1> DEFINE Formed(h) ==
        /\ RoleForm(h) => h.filters = Route!Guarded /\ Len(h.path) = 3
        /\ /\ h.method = "POST" /\ Len(h.path) = 3 /\ h.path[1] = "roles"
           => RoleForm(h)
<1>1. \A r \in {"users", "permissions"} : \A h : ListTable(h, r) => Formed(h)
  BY DEF ListTable, Row, RoleForm, Is1, Is2, Is3
<1>2. \A h : RoleTable(h) => Formed(h)
  BY DEF RoleTable, Row, RoleForm, Is1, Is2, Is3, Is4, Is5
<1>3. \A h : AuthTable(h) => Formed(h)
  BY DEF AuthTable, Row, RoleForm, Is2, Is3
<1>4. \A h : OtherTable(h) => Formed(h)
  BY DEF OtherTable, Row, RoleForm, Is0, Is1, Is2, Is3
<1> HIDE DEF Formed
<1>5. \A h \in Route!Handlers : Formed(h)
  BY <1>1, <1>2, <1>3, <1>4, HandlerTable
<1> QED  BY <1>5 DEF Formed

LEMMA ProfileUnasked ==
    \A h \in Route!Handlers : h.op = <<"profile", "update">> => "rbac" \notin h.filters
<1>1. \A r \in {"users", "permissions"} : \A h : ListTable(h, r) => h.op # <<"profile", "update">>
  BY DEF ListTable, Row
<1>2. \A h : RoleTable(h) \/ AuthTable(h) => h.op # <<"profile", "update">>
  BY DEF RoleTable, AuthTable, Row
<1>3. \A h : OtherTable(h) /\ h.op = <<"profile", "update">> => "rbac" \notin h.filters
  BY DEF OtherTable, Row
<1> QED  BY <1>1, <1>2, <1>3, HandlerTable

\* Where a form changes the method, the registry has no name exactly for the
\* requests of the list.
LEMMA ChangedNames ==
    ASSUME NEW h \in Route!Handlers, h.method = "POST", "rbac" \in h.filters,
           NEW path \in Seq(Segment \cup {Id}), Route!pathMatches(h.path, path),
           NEW m \in {"PUT", "DELETE", "PATCH"},
           h.op[2] = "companion" \/ \E f \in Route!Forms : f.path = path /\ f.override = m,
           NEW n \in Route!nameByMethodAndPath(m, path)
    PROVE  n = Null <=> Route!Nameless(h, m)
<1>1. ASSUME n # Null
      PROVE  \E x \in Route!Handlers :
                /\ Len(x.path) = Len(path) /\ x.method = m
                /\ \/ \E r \in ListNames : Is2(x.path, r, Wild) /\ m # "PATCH"
                   \/ Is2(x.path, "profile", "update") /\ m = "PUT"
                   \/ Is1(x.path, "setting") /\ m = "PUT"
  <2>1. PICK e \in Route!Names : e.name = n /\ e.method = m /\ Route!pathMatches(e.path, path)
    BY <1>1, LookedUp
  <2>2. PICK x \in Route!Handlers : Answers(x, e)
    BY NamesAnswered
  <2>3. Len(x.path) = Len(path) /\ x.method = m
    BY <2>1, <2>2 DEF Answers, Route!pathMatches
  <2>4. \/ \E r \in ListNames : Is2(x.path, r, Wild) /\ m # "PATCH"
        \/ Is2(x.path, "profile", "update") /\ m = "PUT"
        \/ Is1(x.path, "setting") /\ m = "PUT"
    BY <2>3, Changing, Zenon
  <2> QED  BY <2>3, <2>4
<1>2. Companion(h)
  BY Companions
<1>3. /\ Len(h.path) = Len(path) /\ Len(path) \in Nat
      /\ \A i \in 1..Len(path) : h.path[i] \in {Wild, path[i]}
      /\ Len(path) >= 1 => h.path[1] = path[1]
  BY FirstIsLiteral DEF Route!pathMatches
<1>4. CASE h.op[2] = "companion"
  <2>1. PICK r \in ListNames : Is2(h.path, r, Wild) /\ h.op = <<r, "companion">>
    BY <1>2, <1>4 DEF Companion
  <2>2. m \in {"PUT", "DELETE"} => n # Null
    BY <1>4, HandlersNamed, NameFound
  <2>3. m = "PATCH" => n = Null
    BY <1>1
  <2>4. Route!Nameless(h, m) <=> m \notin {"PUT", "DELETE"}
    BY <2>1 DEF Route!Nameless
  <2> QED  BY <2>2, <2>3, <2>4
<1>5. CASE h.op[2] # "companion"
  <2>1. PICK f \in Route!Forms : f.path = path /\ f.override = m
    BY <1>5
  <2>2. ASSUME NEW r \in ListNames, path = <<r, Id>> PROVE FALSE
    <3>1. Len(path) = 2 /\ path[2] = Id
      BY <2>2
    <3>2. h.path[2] \in {Wild, Id} /\ h.path[2] # Id
      BY <1>3, <3>1, PathsAreSequences, RouteAssumption DEF Segment
    <3> QED  BY <1>2, <1>3, <1>5, <3>1, <3>2 DEF Companion
  <2>3. ASSUME NEW a, path = <<"roles", Id, a>> PROVE n = Null /\ Route!Nameless(h, m)
    <3>1. Len(path) = 3 /\ path[1] = "roles"
      BY <2>3
    <3>2. RoleForm(h)
      BY <1>3, <3>1, RoleFormGuarded
    <3>3. n = Null
      <4>1. SUFFICES ASSUME n # Null PROVE FALSE
        OBVIOUS
      <4>2. PICK x \in Route!Handlers :
               /\ Len(x.path) = Len(path)
               /\ \/ \E r \in ListNames : Is2(x.path, r, Wild) /\ m # "PATCH"
                  \/ Is2(x.path, "profile", "update") /\ m = "PUT"
                  \/ Is1(x.path, "setting") /\ m = "PUT"
        BY <1>1, <4>1
      <4>3. Len(x.path) \in {1, 2}
        BY <4>2 DEF Is1, Is2
      <4> QED  BY <3>1, <4>2, <4>3
    <3>4. Route!Nameless(h, m)
      BY <3>2 DEF Route!Nameless, RoleForm
    <3> QED  BY <3>3, <3>4
  <2>4. CASE path = <<"profile", "update">>
    <3>1. Len(path) = 2 /\ path[1] = "profile"
      BY <2>4
    <3> QED  BY <1>2, <1>3, <3>1, ProfileUnasked DEF Companion
  <2>5. CASE path = <<"setting">>
    <3>1. Len(path) = 1 /\ path[1] = "setting"
      BY <2>5
    <3>2. h.op = <<"setting", "update">>
      BY <1>2, <1>3, <3>1 DEF Companion
    <3>3. m = "PUT" => n # Null
      BY <3>2, HandlersNamed, NameFound
    <3>4. m # "PUT" => n = Null
      BY <1>1, <3>1 DEF Is1, Is2
    <3>5. Route!Nameless(h, m) <=> m # "PUT"
      BY <3>2 DEF Route!Nameless
    <3> QED  BY <3>3, <3>4, <3>5
  <2> QED  BY <2>1, <2>2, <2>3, <2>4, <2>5, ChangingForms
<1> QED  BY <1>4, <1>5

-----------------------------------------------------------------------------
\* What a request of the browser aims at: a handler, and by it the operation.
Aims(q) ==
    \E x \in Route!Handlers :
        /\ x.method = q.method /\ q.path = Route!Filled(x.path)
        /\ q.want # Null => Route!Dispatch(x, q.override) = Route!Reached(q)

As(a) == IF a = Wild THEN Id ELSE a

LEMMA FilledTuples ==
    /\ \A a : Route!Filled(<<a>>) = <<As(a)>>
    /\ \A a, b : Route!Filled(<<a, b>>) = <<As(a), As(b)>>
    /\ \A a, b, c : Route!Filled(<<a, b, c>>) = <<As(a), As(b), As(c)>>
    /\ \A a, b, c, d : Route!Filled(<<a, b, c, d>>) = <<As(a), As(b), As(c), As(d)>>
<1>1. ASSUME NEW a PROVE Route!Filled(<<a>>) = <<As(a)>>
  <2> DEFINE p == <<a>>  f == Route!Filled(p)
  <2>1. p \in Seq({a}) /\ Len(p) = 1 /\ p[1] = a
    OBVIOUS
  <2> HIDE DEF p
  <2>2. /\ f \in Seq({a} \cup {Id}) /\ Len(f) = 1
        /\ \A i \in 1..1 : f[i] = As(p[i])
    BY <2>1, FilledPath DEF As
  <2> HIDE DEF f
  <2>3. f = <<As(a)>>
    BY <2>1, <2>2
  <2> QED  BY <2>3 DEF f, p
<1>2. ASSUME NEW a, NEW b PROVE Route!Filled(<<a, b>>) = <<As(a), As(b)>>
  <2> DEFINE p == <<a, b>>  f == Route!Filled(p)
  <2>1. p \in Seq({a, b}) /\ Len(p) = 2 /\ p[1] = a /\ p[2] = b
    OBVIOUS
  <2> HIDE DEF p
  <2>2. /\ f \in Seq({a, b} \cup {Id}) /\ Len(f) = 2
        /\ \A i \in 1..2 : f[i] = As(p[i])
    BY <2>1, FilledPath DEF As
  <2> HIDE DEF f
  <2>3. f = <<As(a), As(b)>>
    BY <2>1, <2>2
  <2> QED  BY <2>3 DEF f, p
<1>3. ASSUME NEW a, NEW b, NEW c PROVE Route!Filled(<<a, b, c>>) = <<As(a), As(b), As(c)>>
  <2> DEFINE p == <<a, b, c>>  f == Route!Filled(p)
  <2>1. p \in Seq({a, b, c}) /\ Len(p) = 3 /\ p[1] = a /\ p[2] = b /\ p[3] = c
    OBVIOUS
  <2> HIDE DEF p
  <2>2. /\ f \in Seq({a, b, c} \cup {Id}) /\ Len(f) = 3
        /\ \A i \in 1..3 : f[i] = As(p[i])
    BY <2>1, FilledPath DEF As
  <2> HIDE DEF f
  <2>3. f = <<As(a), As(b), As(c)>>
    BY <2>1, <2>2
  <2> QED  BY <2>3 DEF f, p
<1>4. ASSUME NEW a, NEW b, NEW c, NEW d PROVE Route!Filled(<<a, b, c, d>>) = <<As(a), As(b), As(c), As(d)>>
  <2> DEFINE p == <<a, b, c, d>>  f == Route!Filled(p)
  <2>1. p \in Seq({a, b, c, d}) /\ Len(p) = 4 /\ p[1] = a /\ p[2] = b /\ p[3] = c /\ p[4] = d
    OBVIOUS
  <2> HIDE DEF p
  <2>2. /\ f \in Seq({a, b, c, d} \cup {Id}) /\ Len(f) = 4
        /\ \A i \in 1..4 : f[i] = As(p[i])
    BY <2>1, FilledPath DEF As
  <2> HIDE DEF f
  <2>3. f = <<As(a), As(b), As(c), As(d)>>
    BY <2>1, <2>2
  <2> QED  BY <2>3 DEF f, p
<1> QED  BY <1>1, <1>2, <1>3, <1>4, Zenon

\* A handler is registered at a path.
Has(op, m, p) == \E x \in Route!Handlers : x.op = op /\ x.method = m /\ x.path = p

\* A request to a registered path aims at its handler.
LEMMA AimsAt ==
    ASSUME NEW op, NEW m, NEW p, Has(op, m, p), NEW want, NEW o, NEW from,
           op[2] # "companion" => op = want,
           op[2] = "companion" => want = <<op[1], IF o \in {"PUT", "PATCH"} THEN "update" ELSE "delete">>,
           m # "GET" \/ want \notin Route!Bulk
    PROVE  Aims(Route!Send(want, m, Route!Filled(p), o, from))
<1> DEFINE q == Route!Send(want, m, Route!Filled(p), o, from)
<1>1. q.method = m /\ q.path = Route!Filled(p) /\ q.want = want /\ q.override = o
      /\ Route!Reached(q) = want
  BY DEF Route!Send, Route!Reached
<1> HIDE DEF q
<1>2. PICK x \in Route!Handlers : x.op = op /\ x.method = m /\ x.path = p
  BY DEF Has
<1>3. Route!Dispatch(x, o) = want
  BY <1>2 DEF Route!Dispatch
<1>4. Aims(q)
  BY <1>1, <1>2, <1>3 DEF Aims
<1> QED  BY <1>4 DEF q

\* The form of a table asks for the page it is on.
LEMMA SelectionAims ==
    ASSUME NEW want \in Route!Bulk, NEW p, Has(<<want[1], "index">>, "GET", p)
    PROVE  Aims(Route!Selection(want, Route!Filled(p)))
<1> DEFINE q == Route!Selection(want, Route!Filled(p))
<1>1. q.method = "GET" /\ q.path = Route!Filled(p) /\ Route!Reached(q) = <<want[1], "index">>
  BY DEF Route!Selection, Route!Send, Route!Reached
<1> HIDE DEF q
<1>2. PICK x \in Route!Handlers : x.op = <<want[1], "index">> /\ x.method = "GET" /\ x.path = p
  BY DEF Has
<1>3. Route!Dispatch(x, q.override) = <<want[1], "index">>
  BY <1>2 DEF Route!Dispatch
<1>4. Aims(q)
  BY <1>1, <1>2, <1>3 DEF Aims
<1> QED  BY <1>4 DEF q

LEMMA Registers ==
    ASSUME NEW t \in Route!Registered(mode), NEW op, NEW m, NEW p, NEW f,
           Route!Handler(op, m, p, f) \in t.handlers
    PROVE  Has(op, m, p)
<1>1. Route!Handler(op, m, p, f) \in Route!Handlers
  BY DEF Route!Handlers
<1>2. /\ Route!Handler(op, m, p, f).op = op /\ Route!Handler(op, m, p, f).method = m
      /\ Route!Handler(op, m, p, f).path = p
  BY DEF Route!Handler
<1> QED  BY <1>1, <1>2 DEF Has

\* A name of an ordinary table is registered with a handler of its own.
LEMMA RegistersEntry ==
    ASSUME NEW t \in Route!Registered(mode), NEW n, NEW m, NEW p, NEW f,
           Route!Entry(n, m, p) \in t.names,
           \A e \in t.names : Route!Handler(e.name, e.method, e.path, f) \in t.handlers
    PROVE  Has(n, m, p)
<1>1. /\ Route!Entry(n, m, p).name = n /\ Route!Entry(n, m, p).method = m
      /\ Route!Entry(n, m, p).path = p
  BY DEF Route!Entry
<1> QED  BY <1>1, Registers

LEMMA ListsHave ==
    ASSUME NEW r \in {"users", "permissions"}
    PROVE  /\ Has(<<r, "store">>, "POST", <<r>>) /\ Has(<<r, "companion">>, "POST", <<r, Wild>>)
           /\ Has(<<r, "delete_selected">>, "POST", <<r, "delete_selected">>)
           /\ Has(<<r, "index">>, "GET", <<r>>) /\ Has(<<r, "create">>, "GET", <<r, "create">>)
           /\ Has(<<r, "edit">>, "GET", <<r, Wild, "edit">>)
<1>1. PICK t \in Route!Registered(mode) :
          t.names = Route!ListEntries(r) /\ t.handlers = Route!ListHandlers(r)
  <2>1. Route!UserRoutes \in Route!Registered(mode) /\ Route!PermissionRoutes \in Route!Registered(mode)
    BY Zenon DEF Route!Registered, Route!AccessRoutes
  <2>2. /\ Route!UserRoutes.names = Route!ListEntries("users")
        /\ Route!UserRoutes.handlers = Route!ListHandlers("users")
        /\ Route!PermissionRoutes.names = Route!ListEntries("permissions")
        /\ Route!PermissionRoutes.handlers = Route!ListHandlers("permissions")
    BY DEF Route!UserRoutes, Route!PermissionRoutes
  <2> QED  BY <2>1, <2>2
<1>2. /\ Route!Handler(<<r, "companion">>, "POST", <<r, Wild>>, Route!Guarded) \in Route!ListHandlers(r)
      /\ Route!Handler(<<r, "delete_selected">>, "POST", <<r, "delete_selected">>, Route!Guarded)
            \in Route!ListHandlers(r)
  BY Zenon DEF Route!ListHandlers
<1>3. \A e \in Route!ListEntries(r) :
          Route!Handler(e.name, e.method, e.path, Route!Guarded) \in Route!ListHandlers(r)
  BY Zenon DEF Route!ListHandlers
<1>4. /\ Route!Entry(<<r, "store">>, "POST", <<r>>) \in Route!ListEntries(r)
      /\ Route!Entry(<<r, "index">>, "GET", <<r>>) \in Route!ListEntries(r)
      /\ Route!Entry(<<r, "create">>, "GET", <<r, "create">>) \in Route!ListEntries(r)
      /\ Route!Entry(<<r, "edit">>, "GET", <<r, Wild, "edit">>) \in Route!ListEntries(r)
  BY Zenon DEF Route!ListEntries
<1>5. Has(<<r, "companion">>, "POST", <<r, Wild>>)
      /\ Has(<<r, "delete_selected">>, "POST", <<r, "delete_selected">>)
  BY <1>1, <1>2, Registers
<1>6. \A n, m, p : Route!Entry(n, m, p) \in Route!ListEntries(r) => Has(n, m, p)
  BY <1>1, <1>3, RegistersEntry
<1> QED  BY <1>4, <1>5, <1>6

LEMMA RolesHave ==
    LET r == "roles"
    IN  /\ Has(<<r, "store">>, "POST", <<r, "store">>)
        /\ Has(<<r, "update">>, "POST", <<r, Wild, "update">>)
        /\ Has(<<r, "delete">>, "POST", <<r, Wild, "delete">>)
        /\ Has(<<r, "delete_selected">>, "POST", <<r, "delete_selected">>)
        /\ Has(<<r, "index">>, "GET", <<r>>) /\ Has(<<r, "create">>, "GET", <<r, "create">>)
        /\ Has(<<r, "edit">>, "GET", <<r, Wild, "edit">>)
<1> DEFINE t == Route!RoleRoutes
<1>1. t \in Route!Registered(mode)
  BY Zenon DEF Route!Registered, Route!AccessRoutes
<1>2. \A e \in t.names :
          Route!Handler(Route!Operation(e.name), e.method, e.path, Route!Guarded) \in t.handlers
  BY DEF Route!RoleRoutes
<1>3. ASSUME NEW n, NEW m, NEW p, Route!Entry(n, m, p) \in t.names PROVE Has(Route!Operation(n), m, p)
  <2>1. /\ Route!Entry(n, m, p).name = n /\ Route!Entry(n, m, p).method = m
        /\ Route!Entry(n, m, p).path = p
    BY DEF Route!Entry
  <2> HIDE DEF t
  <2> QED  BY <1>1, <1>2, <1>3, <2>1, Registers
<1>4. LET r == "roles"
      IN  /\ Route!Entry(<<r, "store">>, "POST", <<r, "store">>) \in t.names
          /\ Route!Entry(<<r, "update_path">>, "POST", <<r, Wild, "update">>) \in t.names
          /\ Route!Entry(<<r, "delete_path">>, "POST", <<r, Wild, "delete">>) \in t.names
          /\ Route!Entry(<<r, "delete_selected">>, "POST", <<r, "delete_selected">>) \in t.names
          /\ Route!Entry(<<r, "index">>, "GET", <<r>>) \in t.names
          /\ Route!Entry(<<r, "create">>, "GET", <<r, "create">>) \in t.names
          /\ Route!Entry(<<r, "edit">>, "GET", <<r, Wild, "edit">>) \in t.names
  BY DEF Route!RoleRoutes, Route!ListEntries, Route!Entry
<1>5. LET r == "roles"
      IN  /\ Route!Operation(<<r, "store">>) = <<r, "store">>
          /\ Route!Operation(<<r, "update_path">>) = <<r, "update">>
          /\ Route!Operation(<<r, "delete_path">>) = <<r, "delete">>
          /\ Route!Operation(<<r, "delete_selected">>) = <<r, "delete_selected">>
          /\ Route!Operation(<<r, "index">>) = <<r, "index">>
          /\ Route!Operation(<<r, "create">>) = <<r, "create">>
          /\ Route!Operation(<<r, "edit">>) = <<r, "edit">>
  BY DEF Route!Operation
<1> HIDE DEF t
<1> QED  BY <1>3, <1>4, <1>5

LEMMA GrantsHave ==
    /\ Has(<<"grants", "index">>, "GET", <<"roles", Wild, "permission">>)
    /\ \A a \in {"assign_selected", "unassign_selected"} :
            Has(<<"grants", a>>, "POST", <<"roles", Wild, "permission", a>>)
<1> DEFINE t == Route!GrantRoutes
<1>1. t \in Route!Registered(mode)
  BY Zenon DEF Route!Registered, Route!AccessRoutes
<1>2. \A e \in t.names : Route!Handler(e.name, e.method, e.path, Route!Guarded) \in t.handlers
  BY DEF Route!GrantRoutes
<1>3. /\ Route!Entry(<<"grants", "index">>, "GET", <<"roles", Wild, "permission">>) \in t.names
      /\ \A a \in {"assign_selected", "unassign_selected"} :
            Route!Entry(<<"grants", a>>, "POST", <<"roles", Wild, "permission", a>>) \in t.names
  BY DEF Route!GrantRoutes
<1> HIDE DEF t
<1> QED  BY <1>1, <1>2, <1>3, RegistersEntry

LEMMA AuthHas ==
    LET a == "auth"
    IN  /\ Has(<<a, "login">>, "GET", <<a, "login">>)
        /\ Has(<<a, "login.post">>, "POST", <<a, "login">>)
        /\ Has(<<a, "signup">>, "GET", <<a, "signup">>)
        /\ Has(<<a, "signup.post">>, "POST", <<a, "signup">>)
        /\ Has(<<a, "reset.req">>, "GET", <<a, "reset", "req">>)
        /\ Has(<<a, "reset.request">>, "POST", <<a, "reset", "request">>)
        /\ Has(<<a, "reset.proc">>, "GET", <<a, "reset", "proc">>)
        /\ Has(<<a, "reset.process">>, "POST", <<a, "reset", "process">>)
        /\ Has(<<a, "logout">>, "POST", <<a, "logout">>)
<1> DEFINE t == Route!AuthRoutes
<1>1. t \in Route!Registered(mode)
  BY Zenon DEF Route!Registered
<1>2. \A e \in t.names :
          Route!Handler(e.name, e.method, e.path,
                        IF e.name = <<"auth", "logout">> THEN {"auth"} ELSE {}) \in t.handlers
  BY DEF Route!AuthRoutes
<1>3. ASSUME NEW n, NEW m, NEW p, Route!Entry(n, m, p) \in t.names PROVE Has(n, m, p)
  <2>1. /\ Route!Entry(n, m, p).name = n /\ Route!Entry(n, m, p).method = m
        /\ Route!Entry(n, m, p).path = p
    BY DEF Route!Entry
  <2> HIDE DEF t
  <2>2. PICK f : Route!Handler(n, m, p, f) \in t.handlers
    BY <1>2, <1>3, <2>1
  <2> QED  BY <1>1, <2>2, Registers
<1>4. LET a == "auth"
      IN  /\ Route!Entry(<<a, "login">>, "GET", <<a, "login">>) \in t.names
          /\ Route!Entry(<<a, "login.post">>, "POST", <<a, "login">>) \in t.names
          /\ Route!Entry(<<a, "signup">>, "GET", <<a, "signup">>) \in t.names
          /\ Route!Entry(<<a, "signup.post">>, "POST", <<a, "signup">>) \in t.names
          /\ Route!Entry(<<a, "reset.req">>, "GET", <<a, "reset", "req">>) \in t.names
          /\ Route!Entry(<<a, "reset.request">>, "POST", <<a, "reset", "request">>) \in t.names
          /\ Route!Entry(<<a, "reset.proc">>, "GET", <<a, "reset", "proc">>) \in t.names
          /\ Route!Entry(<<a, "reset.process">>, "POST", <<a, "reset", "process">>) \in t.names
          /\ Route!Entry(<<a, "logout">>, "POST", <<a, "logout">>) \in t.names
  BY DEF Route!AuthRoutes
<1> HIDE DEF t
<1> QED  BY <1>3, <1>4, Zenon

LEMMA OwnHave ==
    mode = "web" =>
        /\ Has(<<"dashboard", "index">>, "GET", <<"dashboard">>)
        /\ Has(<<"profile", "show">>, "GET", <<"profile">>)
        /\ Has(<<"profile", "update">>, "POST", <<"profile", "update">>)
        /\ Has(<<"setting", "edit">>, "GET", <<"setting">>)
        /\ Has(<<"setting", "update">>, "POST", <<"setting">>)
<1> SUFFICES ASSUME mode = "web"
    PROVE  /\ Has(<<"dashboard", "index">>, "GET", <<"dashboard">>)
           /\ Has(<<"profile", "show">>, "GET", <<"profile">>)
           /\ Has(<<"profile", "update">>, "POST", <<"profile", "update">>)
           /\ Has(<<"setting", "edit">>, "GET", <<"setting">>)
           /\ Has(<<"setting", "update">>, "POST", <<"setting">>)
  OBVIOUS
<1>1. {Route!DashboardRoutes, Route!SettingRoutes, Route!ProfileRoutes} \subseteq Route!Registered(mode)
  BY Zenon DEF Route!Registered
<1>2. Has(<<"dashboard", "index">>, "GET", <<"dashboard">>)
  <2>1. Route!Handler(<<"dashboard", "index">>, "GET", <<"dashboard">>, Route!Guarded)
            \in Route!DashboardRoutes.handlers
    BY DEF Route!DashboardRoutes
  <2> QED  BY <1>1, <2>1, Registers
<1>3. /\ Has(<<"profile", "show">>, "GET", <<"profile">>)
      /\ Has(<<"profile", "update">>, "POST", <<"profile", "update">>)
  <2>1. /\ Route!Handler(<<"profile", "show">>, "GET", <<"profile">>, Route!Guarded \ {"rbac"})
               \in Route!ProfileRoutes.handlers
        /\ Route!Handler(<<"profile", "update">>, "POST", <<"profile", "update">>, Route!Guarded \ {"rbac"})
               \in Route!ProfileRoutes.handlers
    BY DEF Route!ProfileRoutes
  <2> QED  BY <1>1, <2>1, Registers
<1>4. /\ Has(<<"setting", "edit">>, "GET", <<"setting">>)
      /\ Has(<<"setting", "update">>, "POST", <<"setting">>)
  <2>1. /\ Route!Handler(<<"setting", "edit">>, "GET", <<"setting">>, Route!Guarded)
               \in Route!SettingRoutes.handlers
        /\ Route!Handler(<<"setting", "update">>, "POST", <<"setting">>, Route!Guarded)
               \in Route!SettingRoutes.handlers
    BY DEF Route!SettingRoutes
  <2> QED  BY <1>1, <2>1, Registers
<1> QED  BY <1>2, <1>3, <1>4

-----------------------------------------------------------------------------
\* The pages a redirect leads to, and those a form or a link is on.
PanelPages ==
    {<<r>> : r \in ListNames} \cup {<<r, "create">> : r \in ListNames}
    \cup {<<r, Id, "edit">> : r \in ListNames}
    \cup {<<"roles", Id, "permission">>, <<"dashboard">>, <<"profile">>, <<"setting">>,
          <<"auth", "login">>, <<"auth", "signup">>, <<"auth", "reset", "req">>,
          <<"auth", "reset", "proc">>}

Fields == {"pc", "want", "method", "path", "override", "from", "handler", "name", "op", "to"}

\* What the user or a script sends.
Clicked(q) ==
    /\ Aims(q) /\ q.from \in PanelPages \cup {Null}
    /\ q.pc = "sent" /\ q.name = Null /\ DOMAIN q = Fields

LEMMA SendsFrom ==
    ASSUME NEW w, NEW m, NEW p, NEW o, NEW f \in PanelPages \cup {Null}, Aims(Route!Send(w, m, p, o, f))
    PROVE  Clicked(Route!Send(w, m, p, o, f))
<1>1. /\ Route!Send(w, m, p, o, f).from = f /\ Route!Send(w, m, p, o, f).pc = "sent"
      /\ Route!Send(w, m, p, o, f).name = Null
      /\ DOMAIN Route!Send(w, m, p, o, f) = Fields
  BY DEF Route!Send, Fields
<1> QED  BY <1>1 DEF Clicked

LEMMA LinksClicked ==
    ASSUME NEW f \in PanelPages \cup {Null}, NEW q \in Route!Links(f) PROVE Clicked(q)
<1>1. PICK h \in Route!Handlers :
          h.method = "GET" /\ q = Route!Send(h.op, "GET", Route!Filled(h.path), Null, f)
  BY Zenon DEF Route!Links
<1>2. Has(h.op, "GET", h.path)
  BY <1>1 DEF Has
<1>3. h.op[2] # "companion" /\ h.op \notin Route!Bulk
  BY <1>1, GetOperations DEF GetOperation
<1> QED  BY <1>1, <1>2, <1>3, AimsAt, SendsFrom

LEMMA ScriptedClicked == \A q \in Route!Scripted : Clicked(q)
<1> DEFINE Plain == {Route!Send(Null, h.method, Route!Filled(h.path), Null, Null) : h \in Route!Handlers}
           Overriding(o) == {Route!Send(Null, "POST", Route!Filled(h.path), o, Null) :
                                h \in {x \in Route!Handlers : x.method = "POST"}}
<1>1. ASSUME NEW h \in Route!Handlers, NEW o
      PROVE  Clicked(Route!Send(Null, h.method, Route!Filled(h.path), o, Null))
  <2>1. /\ Route!Send(Null, h.method, Route!Filled(h.path), o, Null).method = h.method
        /\ Route!Send(Null, h.method, Route!Filled(h.path), o, Null).path = Route!Filled(h.path)
        /\ Route!Send(Null, h.method, Route!Filled(h.path), o, Null).want = Null
    BY DEF Route!Send
  <2>2. Aims(Route!Send(Null, h.method, Route!Filled(h.path), o, Null))
    BY <2>1 DEF Aims
  <2> QED  BY <2>2, SendsFrom
<1>2. \A q \in Plain : Clicked(q)
  BY <1>1, Zenon
<1>3. \A o : \A q \in Overriding(o) : Clicked(q)
  <2> SUFFICES ASSUME NEW o, NEW q \in Overriding(o) PROVE Clicked(q)
    BY Zenon
  <2>1. PICK h \in Route!Handlers :
            h.method = "POST" /\ q = Route!Send(Null, "POST", Route!Filled(h.path), o, Null)
    BY Zenon
  <2> QED  BY <1>1, <2>1
<1>4. Route!Scripted = Plain \cup UNION {Overriding(o) : o \in {"PUT", "DELETE", "PATCH"}}
  BY Zenon DEF Route!Scripted
<1> HIDE DEF Plain, Overriding
<1> QED  BY <1>2, <1>3, <1>4, SMT

LEMMA FormsClicked == \A q \in Route!Forms : Clicked(q)
<1>1. /\ \A r \in ListNames : <<r>> \in PanelPages /\ <<r, "create">> \in PanelPages /\ <<r, Id, "edit">> \in PanelPages
      /\ <<"roles", Id, "permission">> \in PanelPages /\ <<"dashboard">> \in PanelPages
      /\ <<"profile">> \in PanelPages /\ <<"setting">> \in PanelPages
      /\ <<"auth", "login">> \in PanelPages /\ <<"auth", "signup">> \in PanelPages
      /\ <<"auth", "reset", "req">> \in PanelPages /\ <<"auth", "reset", "proc">> \in PanelPages
  BY Zenon DEF PanelPages
<1>2. As(Wild) = Id /\ \A a : a # Wild => As(a) = a
  BY DEF As
<1>3. ASSUME NEW op, NEW m, NEW p, Has(op, m, p), op[2] # "companion", m # "GET",
             NEW from \in PanelPages, NEW o
      PROVE  Clicked(Route!Send(op, m, Route!Filled(p), o, from))
  BY <1>3, AimsAt, SendsFrom
<1>9. ASSUME NEW want \in Route!Bulk, NEW p, Has(<<want[1], "index">>, "GET", p),
             NEW at \in PanelPages, Route!Filled(p) = at
      PROVE  Clicked(Route!Selection(want, at))
  BY <1>9, SelectionAims, SendsFrom DEF Route!Selection
<1>10. \A r \in ListNames, a \in {"delete", "delete_selected"} :
           <<r, a>> \in Route!Bulk /\ <<r, a>>[1] = r
  BY DEF Route!Bulk, ListNames
<1>4. ASSUME NEW r \in {"users", "permissions"}, NEW q \in Route!UserForms(r) PROVE Clicked(q)
  <2>1. /\ Route!Filled(<<r>>) = <<r>> /\ Route!Filled(<<r, Wild>>) = <<r, Id>>
    BY <1>2, FilledTuples, NoLiteral DEF Unspelled
  <2>2. r \in ListNames
    BY DEF ListNames
  <2>3. Clicked(Route!Send(<<r, "store">>, "POST", <<r>>, Null, <<r, "create">>))
    BY <1>1, <1>3, <2>1, <2>2, ListsHave
  <2>4. Clicked(Route!Send(<<r, "update">>, "POST", <<r, Id>>, "PUT", <<r, Id, "edit">>))
    <3>1. Aims(Route!Send(<<r, "update">>, "POST", <<r, Id>>, "PUT", <<r, Id, "edit">>))
      BY <2>1, ListsHave, AimsAt
    <3> QED  BY <1>1, <2>2, <3>1, SendsFrom
  <2>5. Clicked(Route!Send(<<r, "delete">>, "POST", <<r, Id>>, "DELETE", <<r>>))
    <3>1. Aims(Route!Send(<<r, "delete">>, "POST", <<r, Id>>, "DELETE", <<r>>))
      BY <2>1, ListsHave, AimsAt
    <3> QED  BY <1>1, <2>2, <3>1, SendsFrom
  <2>6. Clicked(Route!Selection(<<r, "delete">>, <<r>>)) /\ Clicked(Route!Selection(<<r, "delete_selected">>, <<r>>))
    <3>1. Has(<<r, "index">>, "GET", <<r>>) /\ <<r>> \in PanelPages
      BY <1>1, <2>2, ListsHave
    <3>2. ASSUME NEW a \in {"delete", "delete_selected"} PROVE Clicked(Route!Selection(<<r, a>>, <<r>>))
      <4>1. <<r, a>> \in Route!Bulk /\ <<r, a>>[1] = r
        BY <1>10, <2>2
      <4> QED  BY <1>9, <2>1, <3>1, <4>1
    <3> QED  BY <3>2
  <2> QED  BY <2>3, <2>4, <2>5, <2>6, Zenon DEF Route!UserForms
<1>5. ASSUME NEW q \in Route!RoleForms PROVE Clicked(q)
  <2>1. /\ Route!Filled(<<"roles", "store">>) = <<"roles", "store">>
        /\ Route!Filled(<<"roles", Wild, "update">>) = <<"roles", Id, "update">>
        /\ Route!Filled(<<"roles", Wild, "delete">>) = <<"roles", Id, "delete">>
        /\ Route!Filled(<<"roles">>) = <<"roles">>
    BY <1>2, FilledTuples, NoLiteral DEF Unspelled
  <2>2. /\ <<"roles">> \in PanelPages /\ <<"roles", "create">> \in PanelPages
        /\ <<"roles", Id, "edit">> \in PanelPages
    BY <1>1 DEF ListNames
  <2>3. Clicked(Route!Send(<<"roles", "store">>, "POST", <<"roles", "store">>, Null, <<"roles", "create">>))
    BY <1>3, <2>1, <2>2, RolesHave
  <2>4. Clicked(Route!Send(<<"roles", "update">>, "POST", <<"roles", Id, "update">>, "PUT", <<"roles", Id, "edit">>))
    BY <1>3, <2>1, <2>2, RolesHave
  <2>5. Clicked(Route!Send(<<"roles", "delete">>, "POST", <<"roles", Id, "delete">>, "DELETE", <<"roles">>))
    BY <1>3, <2>1, <2>2, RolesHave
  <2>6. /\ Clicked(Route!Selection(<<"roles", "delete">>, <<"roles">>))
        /\ Clicked(Route!Selection(<<"roles", "delete_selected">>, <<"roles">>))
    <3>1. Has(<<"roles", "index">>, "GET", <<"roles">>)
      BY RolesHave
    <3>2. ASSUME NEW a \in {"delete", "delete_selected"} PROVE Clicked(Route!Selection(<<"roles", a>>, <<"roles">>))
      <4>1. <<"roles", a>> \in Route!Bulk /\ <<"roles", a>>[1] = "roles"
        BY <1>10 DEF ListNames
      <4> QED  BY <1>9, <2>1, <2>2, <3>1, <4>1
    <3> QED  BY <3>2
  <2> QED  BY <2>3, <2>4, <2>5, <2>6, Zenon DEF Route!RoleForms
<1>6. ASSUME NEW q \in Route!GrantForms PROVE Clicked(q)
  <2>1. PICK a \in {"assign_selected", "unassign_selected"} :
            q = Route!Selection(<<"grants", a>>, <<"roles", Id, "permission">>)
    BY Zenon DEF Route!GrantForms
  <2>2. <<"grants", a>> \in Route!Bulk /\ <<"grants", a>>[1] = "grants"
    BY DEF Route!Bulk
  <2>3. Route!Filled(<<"roles", Wild, "permission">>) = <<"roles", Id, "permission">>
    BY <1>2, FilledTuples, NoLiteral DEF Unspelled
  <2> QED  BY <1>1, <1>9, <2>1, <2>2, <2>3, GrantsHave
<1>7. ASSUME mode = "web", NEW q \in Route!OwnForms PROVE Clicked(q)
  <2>1. /\ Route!Filled(<<"profile", "update">>) = <<"profile", "update">>
        /\ Route!Filled(<<"setting">>) = <<"setting">>
    BY <1>2, FilledTuples, NoLiteral DEF Unspelled
  <2>2. /\ Clicked(Route!Send(<<"profile", "update">>, "POST", <<"profile", "update">>, "PUT", <<"profile">>))
        /\ Clicked(Route!Send(<<"setting", "update">>, "POST", <<"setting">>, "PUT", <<"setting">>))
    BY <1>1, <1>3, <1>7, <2>1, OwnHave
  <2> QED  BY <1>7, <2>2, Zenon DEF Route!OwnForms
<1>8. ASSUME NEW q \in Route!AuthForms PROVE Clicked(q)
  <2>1. /\ Route!Filled(<<"auth", "login">>) = <<"auth", "login">>
        /\ Route!Filled(<<"auth", "signup">>) = <<"auth", "signup">>
        /\ Route!Filled(<<"auth", "reset", "request">>) = <<"auth", "reset", "request">>
        /\ Route!Filled(<<"auth", "reset", "process">>) = <<"auth", "reset", "process">>
    BY <1>2, FilledTuples, NoLiteral DEF Unspelled
  <2>2. Clicked(Route!Send(<<"auth", "login.post">>, "POST", <<"auth", "login">>, Null, <<"auth", "login">>))
    BY <1>1, <1>3, <2>1, AuthHas
  <2>3. Clicked(Route!Send(<<"auth", "signup.post">>, "POST", <<"auth", "signup">>, Null, <<"auth", "signup">>))
    BY <1>1, <1>3, <2>1, AuthHas
  <2>4. Clicked(Route!Send(<<"auth", "reset.request">>, "POST", <<"auth", "reset", "request">>, Null,
                           <<"auth", "reset", "req">>))
    BY <1>1, <1>3, <2>1, AuthHas
  <2>5. Clicked(Route!Send(<<"auth", "reset.process">>, "POST", <<"auth", "reset", "process">>, Null,
                           <<"auth", "reset", "proc">>))
    BY <1>1, <1>3, <2>1, AuthHas
  <2> QED  BY <2>2, <2>3, <2>4, <2>5, Zenon DEF Route!AuthForms
<1>11. Clicked(Route!LogoutForm)
  <2>1. Route!Filled(<<"auth", "logout">>) = <<"auth", "logout">>
    BY <1>2, FilledTuples, NoLiteral DEF Unspelled
  <2> QED  BY <1>1, <1>3, <2>1, AuthHas DEF Route!LogoutForm
<1> QED  BY <1>4, <1>5, <1>6, <1>7, <1>8, <1>11, Zenon DEF Route!Forms

LEMMA ClicksClicked ==
    \A q \in Route!Links(Null) \cup Route!Links(<<"dashboard">>) \cup Route!Forms \cup Route!Scripted :
        Clicked(q)
<1>1. <<"dashboard">> \in PanelPages
  BY Zenon DEF PanelPages
<1> QED  BY <1>1, LinksClicked, ScriptedClicked, FormsClicked

-----------------------------------------------------------------------------
\* The invariant.  A request under way carries a handler the router chose for
\* its path, and its method is the one it was sent with or the one of _method.
Chosen == {"routed", "overridden", "authenticated", "allowed"}

SentSound == req.pc = "sent" => (hops = 0 => Aims(req)) /\ (hops > 0 => req.want = Null)

LostSound == req.pc = "lost" => req.want = Null /\ (hops > 0 => mode # "web")

\* MethodOverrideFilter changes the method of this request.
Changed ==
    /\ "override" \in req.handler.filters /\ req.handler.method = "POST"
    /\ req.override \in {"PUT", "DELETE", "PATCH"}

ChosenSound ==
    req.pc \in Chosen =>
        /\ req.handler \in Route!Handlers /\ Route!pathMatches(req.handler.path, req.path)
        /\ req.handler.path = req.path \/ \A g \in Route!Handlers : g.path # req.path
        /\ req.want # Null => Route!Dispatch(req.handler, req.override) = Route!Reached(req)
        /\ req.method = IF req.pc # "routed" /\ Changed THEN req.override ELSE req.handler.method

NameSound ==
    /\ req.pc \in {"sent", "routed", "overridden", "authenticated"} => req.name = Null
    /\ req.pc = "allowed" /\ "rbac" \in req.handler.filters =>
           req.name \in Route!nameByMethodAndPath(req.method, req.path)

DoneSound ==
    /\ req.pc = "performed" /\ req.want # Null => req.op = Route!Reached(req)
    /\ req.pc = "redirected" => req.to \in PanelPages

\* The page a refusal and an error send the browser back to.
Back == IF req.from = Null THEN <<"dashboard">> ELSE req.from
Login == <<"auth", "login">>

\* The page asked for cannot be shown.
Barred == ~Route!Viewable(req.path)

\* A request that follows a redirect is a GET of a page; the page it is sent on
\* to is the login page or the page to go back to, because it cannot be shown
\* itself.
ChainSound ==
    hops > 0 /\ req.pc # "idle" =>
        /\ req.method = "GET" /\ req.path \in PanelPages
        /\ hops > 1 => req.path \in {Login, Back}
        /\ req.pc = "performed" => Route!Target(req.op) = Null /\ req.op # <<"profile", "update">>
        /\ req.pc = "redirected" =>
              /\ req.to \in {Login, Back} /\ req.path # Login
              /\ Barred

RequestInv ==
    /\ DOMAIN req = Fields /\ req.path \in Seq(Segment \cup {Id}) /\ req.from \in PanelPages \cup {Null}
    /\ hops \in Nat /\ (mode = "down" => req.pc = "idle")
    /\ SentSound /\ LostSound /\ ChosenSound /\ NameSound /\ DoneSound /\ ChainSound

LEMMA PageType ==
    /\ \A p \in PanelPages : p \in Seq(Segment \cup {Id}) /\ Len(p) \in {1, 2, 3}
    /\ Login \in PanelPages /\ <<"dashboard">> \in PanelPages /\ <<"profile">> \in PanelPages
<1>1. Spelled(Segment)
  BY SMTT(60) DEF Segment, Literals, Spelled
<1>2. \A r \in ListNames : r \in Segment
  BY <1>1 DEF Spelled, ListNames
<1>3. /\ \A r \in ListNames : <<r>> \in Seq(Segment \cup {Id})
      /\ \A r \in ListNames : <<r, "create">> \in Seq(Segment \cup {Id})
      /\ \A r \in ListNames : <<r, Id, "edit">> \in Seq(Segment \cup {Id})
  BY <1>1, <1>2 DEF Spelled
<1>4. /\ <<"roles", Id, "permission">> \in Seq(Segment \cup {Id})
      /\ <<"dashboard">> \in Seq(Segment \cup {Id})
      /\ <<"profile">> \in Seq(Segment \cup {Id})
      /\ <<"setting">> \in Seq(Segment \cup {Id})
      /\ <<"auth", "login">> \in Seq(Segment \cup {Id})
      /\ <<"auth", "signup">> \in Seq(Segment \cup {Id})
      /\ <<"auth", "reset", "req">> \in Seq(Segment \cup {Id})
      /\ <<"auth", "reset", "proc">> \in Seq(Segment \cup {Id})
  BY <1>1 DEF Spelled
<1>5. \A p \in PanelPages : p \in Seq(Segment \cup {Id})
  BY <1>3, <1>4, Zenon DEF PanelPages
<1>6. \A p \in PanelPages : Len(p) \in {1, 2, 3}
  BY DEF PanelPages
<1>7. Login \in PanelPages /\ <<"dashboard">> \in PanelPages /\ <<"profile">> \in PanelPages
  BY Zenon DEF PanelPages, Login
<1> QED  BY <1>5, <1>6, <1>7

\* In the panel every page is there.
LEMMA PageReached == ASSUME mode = "web", NEW p \in PanelPages PROVE Route!Router("GET", p) # {}
<1>1. ASSUME NEW op, NEW q, Has(op, "GET", q) PROVE Route!Router("GET", Route!Filled(q)) # {}
  BY <1>1, Reached DEF Has
<1>2. As(Wild) = Id /\ \A a : a # Wild => As(a) = a
  BY DEF As
<1>3. ASSUME NEW r \in ListNames
      PROVE  /\ Route!Router("GET", <<r>>) # {} /\ Route!Router("GET", <<r, "create">>) # {}
             /\ Route!Router("GET", <<r, Id, "edit">>) # {}
  <2>1. /\ Has(<<r, "index">>, "GET", <<r>>) /\ Has(<<r, "create">>, "GET", <<r, "create">>)
        /\ Has(<<r, "edit">>, "GET", <<r, Wild, "edit">>)
    BY ListsHave, RolesHave DEF ListNames
  <2>2. r # Wild
    BY NoLiteral DEF Unspelled, ListNames
  <2>3. /\ Route!Filled(<<r>>) = <<r>> /\ Route!Filled(<<r, "create">>) = <<r, "create">>
        /\ Route!Filled(<<r, Wild, "edit">>) = <<r, Id, "edit">>
    BY <1>2, <2>2, FilledTuples, NoLiteral DEF Unspelled
  <2> QED  BY <1>1, <2>1, <2>3
<1>4. Route!Router("GET", <<"roles", Id, "permission">>) # {}
  <2>1. Route!Filled(<<"roles", Wild, "permission">>) = <<"roles", Id, "permission">>
    BY <1>2, FilledTuples, NoLiteral DEF Unspelled
  <2> QED  BY <1>1, <2>1, GrantsHave
<1>5. /\ Route!Router("GET", <<"dashboard">>) # {} /\ Route!Router("GET", <<"profile">>) # {}
      /\ Route!Router("GET", <<"setting">>) # {}
  <2>1. /\ Route!Filled(<<"dashboard">>) = <<"dashboard">> /\ Route!Filled(<<"profile">>) = <<"profile">>
        /\ Route!Filled(<<"setting">>) = <<"setting">>
    BY <1>2, FilledTuples, NoLiteral DEF Unspelled
  <2> QED  BY <1>1, <2>1, OwnHave
<1>6. /\ Route!Router("GET", <<"auth", "login">>) # {} /\ Route!Router("GET", <<"auth", "signup">>) # {}
      /\ Route!Router("GET", <<"auth", "reset", "req">>) # {}
      /\ Route!Router("GET", <<"auth", "reset", "proc">>) # {}
  <2>1. /\ Route!Filled(<<"auth", "login">>) = <<"auth", "login">>
        /\ Route!Filled(<<"auth", "signup">>) = <<"auth", "signup">>
        /\ Route!Filled(<<"auth", "reset", "req">>) = <<"auth", "reset", "req">>
        /\ Route!Filled(<<"auth", "reset", "proc">>) = <<"auth", "reset", "proc">>
    BY <1>2, FilledTuples, NoLiteral DEF Unspelled
  <2> QED  BY <1>1, <2>1, AuthHas
<1> QED  BY <1>3, <1>4, <1>5, <1>6, Zenon DEF PanelPages

\* A handler sends the browser to a page.
LEMMA TargetIsPage == \A op : Route!Target(op) \in PanelPages \cup {Null}
<1>1. \A r \in ListNames : <<r>> \in PanelPages
  BY Zenon DEF PanelPages
<1>2. /\ <<"roles", Id, "permission">> \in PanelPages /\ <<"dashboard">> \in PanelPages /\ <<"setting">> \in PanelPages
      /\ <<"auth", "login">> \in PanelPages /\ <<"auth", "reset", "proc">> \in PanelPages
  BY Zenon DEF PanelPages
<1> HIDE DEF PanelPages
<1>3. \A op : Route!Landing(op) \in PanelPages \cup {Null}
  BY <1>1, <1>2 DEF Route!Landing, ListNames
<1>4. \A op : Route!AuthLanding(op) \in PanelPages \cup {Null}
  BY <1>2 DEF Route!AuthLanding
<1> QED  BY <1>2, <1>3, <1>4 DEF Route!Target

\* The router's choice for a page, once a redirect is followed.
LEMMA PageChosen ==
    ASSUME RequestInv, hops > 0, req.pc \in Chosen
    PROVE  /\ req.handler.method = "GET" /\ req.handler.op[2] # "companion"
           /\ req.handler.op # <<"profile", "update">> /\ Route!Target(req.handler.op) = Null
           /\ req.path = Login => req.handler.op = Login /\ req.handler.filters = {}
           /\ \A h \in Route!Router("GET", req.path) : Alike(req.handler, h)
<1>1. /\ req.method = "GET" /\ req.path \in PanelPages /\ req.handler \in Route!Handlers
      /\ Route!pathMatches(req.handler.path, req.path)
      /\ req.handler.path = req.path \/ \A g \in Route!Handlers : g.path # req.path
      /\ req.handler.method = "GET"
  BY DEF RequestInv, ChosenSound, Changed, ChainSound, Chosen
<1>2. Len(req.handler.path) = Len(req.path) /\ Len(req.path) \in {1, 2, 3}
      /\ req.path \in Seq(Segment \cup {Id})
  BY <1>1, PageType DEF Route!pathMatches
<1>3. GetOperation(req.handler)
  BY <1>1, GetOperations
<1>4. ASSUME req.path = Login PROVE req.handler.op = Login /\ req.handler.filters = {}
  <2>1. Len(req.path) = 2 /\ req.path[1] = "auth" /\ req.path[2] = "login"
    BY <1>4 DEF Login
  <2>2. req.handler.path[1] \in {Wild, "auth"} /\ req.handler.path[2] \in {Wild, "login"}
    BY <1>1, <2>1 DEF Route!pathMatches
  <2>3. req.handler.path[1] # Wild
    BY <1>1, <1>2, FirstIsLiteral
  <2> QED  BY <1>1, <1>2, <1>3, <2>1, <2>2, <2>3 DEF GetOperation, Login
<1>5. ASSUME NEW h \in Route!Router("GET", req.path) PROVE Alike(req.handler, h)
  <2>1. /\ h \in Route!Handlers /\ h.method = "GET" /\ Route!pathMatches(h.path, req.path)
        /\ h.path = req.path \/ \A g \in Route!Handlers : g.path # req.path
    BY <1>2, <1>5, RouterFits
  <2> QED  BY <1>1, <1>2, <2>1, ChoicesAlike
<1> QED  BY <1>1, <1>2, <1>3, <1>4, <1>5 DEF GetOperation

-----------------------------------------------------------------------------
\* Each step keeps the invariant.
LEMMA SameTables ==
    ASSUME mode' = mode
    PROVE  Route!Handlers' = Route!Handlers /\ Route!Names' = Route!Names
BY DEF Route!Handlers, Route!Names

LEMMA StartKeeps == ASSUME RequestInv, Route!Start PROVE RequestInv'
<1>1. req.pc = "idle" /\ UNCHANGED <<req, hops>> /\ mode' # "down"
  BY DEF RequestInv, Route!Start
<1> QED  BY <1>1 DEF RequestInv, SentSound, LostSound, ChosenSound, Changed, NameSound, DoneSound,
                     ChainSound, Chosen

LEMMA ClickKeeps == ASSUME RequestInv, Route!Click PROVE RequestInv'
<1>1. Clicked(req') /\ hops' = 0 /\ mode' = mode /\ mode # "down"
  BY ClicksClicked DEF Route!Click
<1>2. Route!Handlers' = Route!Handlers
  BY <1>1, SameTables
<1>3. DOMAIN req' = Fields /\ req'.pc = "sent" /\ req'.name = Null /\ req'.from \in PanelPages \cup {Null}
  BY <1>1 DEF Clicked
<1>4. PICK x \in Route!Handlers :
          /\ x.method = req'.method /\ req'.path = Route!Filled(x.path)
          /\ req'.want # Null => Route!Dispatch(x, req'.override) = Route!Reached(req')
  BY <1>1 DEF Clicked, Aims
<1>5. req'.path \in Seq(Segment \cup {Id})
  BY <1>4, Reached
<1>6. Aims(req)'
  BY <1>2, <1>4 DEF Aims
<1> QED  BY <1>1, <1>3, <1>5, <1>6 DEF RequestInv, SentSound, LostSound, ChosenSound, Changed, NameSound,
            DoneSound, ChainSound, Chosen

\* What changes under a request only takes pages away.
LEMMA ViewableShrinks ==
    ASSUME mode' = mode, req' = req, gone' = gone \/ gone' = TRUE, may' = may \/ (may # Null /\ may' = {})
    PROVE  Barred => Barred'
<1> SUFFICES ASSUME Route!Viewable(req.path)' PROVE Route!Viewable(req.path)
  BY DEF Barred
<1>1. Route!Handlers' = Route!Handlers /\ Route!Names' = Route!Names
  BY SameTables
<1>2. /\ Route!Router("GET", req.path)' = Route!Router("GET", req.path)
      /\ Route!nameByMethodAndPath("GET", req.path)' = Route!nameByMethodAndPath("GET", req.path)
  BY <1>1 DEF Route!Router, Route!nameByMethodAndPath
<1>3. PICK h \in Route!Router("GET", req.path) :
          /\ ~(gone' /\ Route!Loads(h.op))
          /\ "auth" \in h.filters => may' # Null
          /\ "rbac" \in h.filters => Route!nameByMethodAndPath("GET", req.path) \subseteq may'
  BY <1>2 DEF Route!Viewable
<1>4. /\ ~(gone /\ Route!Loads(h.op))
      /\ "auth" \in h.filters => may # Null
      /\ "rbac" \in h.filters => Route!nameByMethodAndPath("GET", req.path) \subseteq may
  BY <1>3
<1> QED  BY <1>4 DEF Route!Viewable

LEMMA MeanwhileKeeps == ASSUME RequestInv, Route!Meanwhile PROVE RequestInv'
<1>1. /\ mode' = mode /\ UNCHANGED <<req, hops>>
      /\ gone' = gone \/ gone' = TRUE
      /\ may' = may \/ (may # Null /\ may' = {})
  BY DEF Route!Meanwhile
<1>2. Route!Handlers' = Route!Handlers /\ Route!Names' = Route!Names
  BY <1>1, SameTables
<1>3. SentSound' /\ LostSound' /\ ChosenSound' /\ DoneSound'
  BY <1>1, <1>2 DEF RequestInv, SentSound, LostSound, ChosenSound, Changed, DoneSound, Aims
<1>4. NameSound'
  BY <1>1, <1>2 DEF RequestInv, NameSound, Route!nameByMethodAndPath
<1>5. ChainSound'
  <2>1. req' = req
    BY <1>1
  <2>2. Barred => Barred'
    BY <1>1, <2>1, ViewableShrinks
  <2> QED  BY <1>1, <2>2 DEF RequestInv, ChainSound, Back
<1> QED  BY <1>1, <1>3, <1>4, <1>5 DEF RequestInv

\* A step of the request leaves the rest of it alone.
Onward(at) ==
    /\ UNCHANGED <<mode, hops>> /\ mode # "down"
    /\ DOMAIN req' = Fields /\ req'.pc = at /\ req'.path = req.path /\ req'.from = req.from
    /\ req'.want = req.want /\ req'.override = req.override
    /\ Route!Reached(req') = Route!Reached(req)
    /\ Route!Handlers' = Route!Handlers /\ Route!Names' = Route!Names

LEMMA RouteKeeps == ASSUME RequestInv, Route!Route PROVE RequestInv'
<1>1. req.pc = "sent" /\ UNCHANGED <<mode, may, gone, hops>> /\ DOMAIN req = Fields
      /\ mode # "down" /\ Route!Handlers' = Route!Handlers /\ Route!Names' = Route!Names
  BY SameTables DEF Route!Route, Route!At, RequestInv
<1>2. ASSUME hops = 0
      PROVE  /\ Route!Router(req.method, req.path) # {}
             /\ \A h \in Route!Router(req.method, req.path) :
                    req.want # Null => Route!Dispatch(h, req.override) = Route!Reached(req)
  <2>1. PICK x \in Route!Handlers :
            /\ x.method = req.method /\ req.path = Route!Filled(x.path)
            /\ req.want # Null => Route!Dispatch(x, req.override) = Route!Reached(req)
    BY <1>1, <1>2 DEF RequestInv, SentSound, Aims
  <2>2. /\ x \in Route!Router(req.method, req.path)
        /\ \A h \in Route!Router(req.method, req.path) : h.op = x.op
    BY <2>1, Reached DEF Alike
  <2>3. \A h \in Route!Router(req.method, req.path) :
            Route!Dispatch(h, req.override) = Route!Dispatch(x, req.override)
    BY <2>2 DEF Route!Dispatch
  <2> QED  BY <2>1, <2>2, <2>3
<1>3. hops > 0 => req.want = Null /\ req.method = "GET" /\ req.path \in PanelPages
  BY <1>1 DEF RequestInv, SentSound, ChainSound
<1>4. CASE Route!Router(req.method, req.path) = {} /\ req' = [req EXCEPT !.pc = "lost"]
  <2>1. Onward("lost") /\ req'.method = req.method
    BY <1>1, <1>4 DEF Onward, Fields, Route!Reached
  <2>2. hops > 0
    BY <1>2, <1>4 DEF RequestInv
  <2>3. mode # "web"
    BY <1>3, <1>4, <2>2, PageReached
  <2> QED  BY <1>1, <1>3, <2>1, <2>2, <2>3 DEF RequestInv, Onward, SentSound, LostSound,
      ChosenSound, Changed, NameSound,
              DoneSound, ChainSound, Chosen, Back
<1>5. CASE \E h \in Route!Router(req.method, req.path) :
               req' = [req EXCEPT !.pc = "routed", !.handler = h]
  <2>1. PICK h \in Route!Router(req.method, req.path) :
            req' = [req EXCEPT !.pc = "routed", !.handler = h]
    BY <1>5
  <2>2. Onward("routed") /\ req'.method = req.method /\ req'.handler = h /\ req'.name = req.name
    BY <1>1, <2>1 DEF Onward, Fields, Route!Reached
  <2>3. /\ h \in Route!Handlers /\ h.method = req.method /\ Route!pathMatches(h.path, req.path)
        /\ h.path = req.path \/ \A g \in Route!Handlers : g.path # req.path
    BY RouterFits DEF RequestInv
  <2>4. req.want # Null => Route!Dispatch(h, req.override) = Route!Reached(req)
    BY <1>2, <1>3 DEF RequestInv
  <2>5. ChosenSound'
    BY <2>2, <2>3, <2>4 DEF Onward, ChosenSound, Changed
  <2> QED  BY <1>1, <1>3, <2>2, <2>5 DEF RequestInv, Onward, SentSound, LostSound, NameSound,
              DoneSound, ChainSound, Back
<1> QED  BY <1>4, <1>5 DEF Route!Route

LEMMA OverrideKeeps == ASSUME RequestInv, Route!Override PROVE RequestInv'
<1>1. req.pc = "routed" /\ UNCHANGED <<mode, may, gone, hops>> /\ DOMAIN req = Fields
      /\ mode # "down" /\ Route!Handlers' = Route!Handlers /\ Route!Names' = Route!Names
  BY SameTables DEF Route!Override, Route!At, RequestInv
<1>2. ChosenSound /\ ChainSound
  BY DEF RequestInv
<1>3. CASE ~Changed /\ req' = [req EXCEPT !.pc = "overridden"]
  <2>1. Onward("overridden") /\ req'.method = req.method /\ req'.handler = req.handler /\ req'.name = req.name
    BY <1>1, <1>3 DEF Onward, Fields, Route!Reached
  <2>2. ChosenSound'
    BY <1>1, <1>2, <1>3, <2>1 DEF Onward, ChosenSound, Changed, Chosen
  <2> QED  BY <1>1, <1>2, <2>1, <2>2 DEF RequestInv, Onward, SentSound, LostSound, NameSound,
              DoneSound, ChainSound, Back
<1>4. CASE /\ req.method = "POST" /\ Changed
           /\ req' = [req EXCEPT !.pc = "overridden", !.method = req.override]
  <2>1. Onward("overridden") /\ req'.method = req.override /\ req'.handler = req.handler /\ req'.name = req.name
    BY <1>1, <1>4 DEF Onward, Fields, Route!Reached, Changed
  <2>2. req.handler.method = "POST"
    BY <1>1, <1>2, <1>4 DEF ChosenSound, Changed, Chosen
  <2>3. ChosenSound'
    BY <1>1, <1>2, <1>4, <2>1, <2>2 DEF Onward, ChosenSound, Changed, Chosen
  <2>4. hops = 0
    BY <1>1, <1>2, <1>4 DEF ChainSound, RequestInv
  <2> QED  BY <1>1, <2>1, <2>3, <2>4 DEF RequestInv, Onward, SentSound, LostSound, NameSound,
              DoneSound, ChainSound
<1>5. req.method = req.handler.method
  BY <1>1, <1>2 DEF ChosenSound, Chosen
<1> QED  BY <1>3, <1>4, <1>5 DEF Route!Override, Changed

\* A step that sends the browser elsewhere.
LEMMA RedirectKeeps ==
    ASSUME RequestInv, req.pc \in Chosen, UNCHANGED <<mode, may, gone, hops>>,
           NEW to \in PanelPages, Route!Redirect(to),
           hops > 0 => to \in {Login, Back} /\ req.path # Login /\ Barred
    PROVE  RequestInv'
<1>1. DOMAIN req = Fields /\ mode # "down" /\ req.pc # "idle"
      /\ Route!Handlers' = Route!Handlers /\ Route!Names' = Route!Names
  BY SameTables DEF RequestInv, Chosen
<1>2. Onward("redirected") /\ req'.method = req.method /\ req'.to = to
  BY <1>1 DEF Onward, Fields, Route!Reached, Route!Redirect
<1>3. hops > 0 => Barred'
  BY <1>1, <1>2 DEF Onward, Barred, Route!Viewable, Route!Router, Route!nameByMethodAndPath
<1> QED  BY <1>1, <1>2, <1>3 DEF RequestInv, Onward, SentSound, LostSound, ChosenSound, Changed, NameSound,
            DoneSound, ChainSound, Chosen, Back

LEMMA AuthenticateKeeps == ASSUME RequestInv, Route!Authenticate PROVE RequestInv'
<1>1. req.pc = "overridden" /\ UNCHANGED <<mode, may, gone, hops>> /\ DOMAIN req = Fields
      /\ mode # "down" /\ Route!Handlers' = Route!Handlers /\ Route!Names' = Route!Names
  BY SameTables DEF Route!Authenticate, Route!At, RequestInv
<1>2. CASE "auth" \in req.handler.filters /\ may = Null /\ Route!Redirect(Login)
  <2>1. req.pc \in Chosen
    BY <1>1 DEF Chosen
  <2>2. ASSUME hops > 0 PROVE req.path # Login /\ Barred
    <3>1. \A h \in Route!Router("GET", req.path) : "auth" \in h.filters
      BY <1>2, <2>1, <2>2, PageChosen DEF Alike
    <3> QED  BY <1>2, <2>1, <2>2, <3>1, PageChosen DEF Barred, Route!Viewable
  <2> QED  BY <1>1, <1>2, <2>1, <2>2, RedirectKeeps, PageType
<1>3. CASE req' = [req EXCEPT !.pc = "authenticated"]
  <2>1. Onward("authenticated") /\ req'.method = req.method /\ req'.handler = req.handler
        /\ req'.name = req.name
    BY <1>1, <1>3 DEF Onward, Fields, Route!Reached
  <2> QED  BY <1>1, <2>1 DEF RequestInv, Onward, SentSound, LostSound, ChosenSound, Changed, NameSound,
              DoneSound, ChainSound, Chosen, Back
<1> QED  BY <1>2, <1>3 DEF Route!Authenticate, Login

LEMMA AuthorizeKeeps == ASSUME RequestInv, Route!Authorize PROVE RequestInv'
<1>1. req.pc = "authenticated" /\ UNCHANGED <<mode, may, gone, hops>> /\ DOMAIN req = Fields
      /\ mode # "down" /\ Route!Handlers' = Route!Handlers /\ Route!Names' = Route!Names
  BY SameTables DEF Route!Authorize, Route!At, RequestInv
<1>2. CASE "rbac" \notin req.handler.filters /\ req' = [req EXCEPT !.pc = "allowed"]
  <2>1. Onward("allowed") /\ req'.method = req.method /\ req'.handler = req.handler /\ req'.name = req.name
    BY <1>1, <1>2 DEF Onward, Fields, Route!Reached
  <2> QED  BY <1>1, <1>2, <2>1 DEF RequestInv, Onward, SentSound, LostSound, ChosenSound, Changed,
      NameSound,
              DoneSound, ChainSound, Chosen, Back
<1>3. ASSUME NEW n \in Route!nameByMethodAndPath(req.method, req.path),
             req' = [req EXCEPT !.pc = "allowed", !.name = n]
      PROVE  RequestInv'
  <2>1. Onward("allowed") /\ req'.method = req.method /\ req'.handler = req.handler /\ req'.name = n
    BY <1>1, <1>3 DEF Onward, Fields, Route!Reached
  <2>2. NameSound'
    BY <1>3, <2>1 DEF Onward, NameSound, Route!nameByMethodAndPath
  <2> QED  BY <1>1, <2>1, <2>2 DEF RequestInv, Onward, SentSound, LostSound, ChosenSound, Changed,
              DoneSound, ChainSound, Chosen, Back
<1>4. ASSUME NEW n \in Route!nameByMethodAndPath(req.method, req.path), "rbac" \in req.handler.filters,
             n # Null, n \notin may, Route!Redirect(Route!RefusedTo(req.from))
      PROVE  RequestInv'
  <2>1. req.pc \in Chosen /\ Route!RefusedTo(req.from) = Back /\ Back \in PanelPages
    BY <1>1, PageType DEF Chosen, RequestInv, Route!RefusedTo, Back
  <2>2. ASSUME hops > 0 PROVE req.path # Login /\ Barred
    <3>1. req.method = "GET"
      BY <1>1, <2>2 DEF RequestInv, ChainSound
    <3>2. \A h \in Route!Router("GET", req.path) : "rbac" \in h.filters
      BY <1>4, <2>1, <2>2, PageChosen DEF Alike
    <3> QED  BY <1>4, <2>1, <2>2, <3>1, <3>2, PageChosen DEF Barred, Route!Viewable
  <2> QED  BY <1>1, <1>4, <2>1, <2>2, RedirectKeeps
<1> QED  BY <1>2, <1>3, <1>4 DEF Route!Authorize

LEMMA PerformKeeps == ASSUME RequestInv, Route!Perform PROVE RequestInv'
<1> DEFINE op == Route!Dispatch(req.handler, req.override)
<1>1. req.pc = "allowed" /\ UNCHANGED <<mode, gone, hops>> /\ DOMAIN req = Fields
      /\ mode # "down" /\ Route!Handlers' = Route!Handlers /\ Route!Names' = Route!Names
      /\ req' = [req EXCEPT !.pc = "performed", !.op = op]
  BY SameTables DEF Route!Perform, Route!At, Route!Done, RequestInv
<1>2. Onward("performed") /\ req'.method = req.method /\ req'.op = op
  BY <1>1 DEF Onward, Fields, Route!Reached
<1>3. req.want # Null => op = Route!Reached(req)
  BY <1>1 DEF RequestInv, ChosenSound, Changed, Chosen
<1>4. hops > 0 => Route!Target(op) = Null /\ op # <<"profile", "update">>
  BY <1>1, PageChosen DEF Chosen, Route!Dispatch
<1> QED  BY <1>1, <1>2, <1>3, <1>4 DEF RequestInv, Onward, SentSound, LostSound, ChosenSound,
    NameSound,
            DoneSound, ChainSound, Chosen, Back

LEMMA ThrowKeeps == ASSUME RequestInv, Route!Throw PROVE RequestInv'
<1> DEFINE op == Route!Dispatch(req.handler, req.override)
           to == IF req.from = Null THEN Login ELSE req.from
<1>1. /\ req.pc = "allowed" /\ UNCHANGED <<mode, may, gone, hops>> /\ Route!Redirect(to)
      /\ (gone /\ Route!Loads(op)) \/ Route!Target(op) # Null
  BY DEF Route!Throw, Route!At, Login
<1>2. req.pc \in Chosen /\ to \in PanelPages /\ to \in {Login, Back}
  BY <1>1, PageType DEF Chosen, RequestInv, Back
<1>3. ASSUME hops > 0 PROVE req.path # Login /\ Barred
  <2>1. op = req.handler.op /\ Route!Target(op) = Null
    BY <1>2, <1>3, PageChosen DEF Route!Dispatch
  <2>2. gone /\ Route!Loads(req.handler.op)
    BY <1>1, <2>1
  <2>3. ~Route!Loads(Login)
    BY DEF Route!Loads, Login
  <2>4. \A h \in Route!Router("GET", req.path) : h.op = req.handler.op
    BY <1>2, <1>3, PageChosen DEF Alike
  <2>5. req.path # Login
    BY <1>2, <1>3, <2>2, <2>3, PageChosen
  <2> QED  BY <2>2, <2>4, <2>5 DEF Barred, Route!Viewable
<1> HIDE DEF to
<1> QED  BY <1>1, <1>2, <1>3, RedirectKeeps

LEMMA AnswerKeeps == ASSUME RequestInv, Route!Answer PROVE RequestInv'
<1>1. req.pc = "performed" /\ UNCHANGED <<mode, may, gone, hops>> /\ DOMAIN req = Fields
      /\ mode # "down" /\ Route!Handlers' = Route!Handlers /\ Route!Names' = Route!Names
  BY SameTables DEF Route!Answer, Route!At, RequestInv
<1>2. CASE req' = Route!NoRequest
  <2>1. /\ DOMAIN req' = Fields /\ req'.pc = "idle" /\ req'.path = <<>> /\ req'.from = Null
    BY <1>2 DEF Route!NoRequest, Route!Send, Fields
  <2>2. <<>> \in Seq(Segment \cup {Id})
    OBVIOUS
  <2> QED  BY <1>1, <2>1, <2>2 DEF RequestInv, SentSound, LostSound, ChosenSound, Changed, NameSound,
              DoneSound, ChainSound, Chosen
<1>3. CASE \E to \in PanelPages : Route!Redirect(to) /\ hops = 0
  <2>1. PICK to \in PanelPages : Route!Redirect(to)
    BY <1>3
  <2>2. Onward("redirected") /\ req'.to = to
    BY <1>1, <2>1 DEF Onward, Fields, Route!Reached, Route!Redirect
  <2> QED  BY <1>1, <1>3, <2>2 DEF RequestInv, Onward, SentSound, LostSound, ChosenSound,
      NameSound,
              DoneSound, ChainSound, Chosen
<1>4. hops > 0 => Route!Target(req.op) = Null /\ req.op # <<"profile", "update">>
  BY <1>1 DEF RequestInv, ChainSound
<1>5. Route!Target(req.op) \in PanelPages \cup {Null} /\ <<"profile">> \in PanelPages /\ hops \in Nat
  BY TargetIsPage, PageType DEF RequestInv
<1> QED  BY <1>2, <1>3, <1>4, <1>5 DEF Route!Answer

LEMMA FollowKeeps == ASSUME RequestInv, Route!Follow PROVE RequestInv'
<1>1. /\ req.pc = "redirected" /\ hops' = hops + 1 /\ UNCHANGED <<mode, may, gone>>
      /\ req' = Route!Send(Null, "GET", req.to, Null, req.from) /\ mode # "down"
  BY DEF Route!Follow, Route!At, RequestInv
<1>2. /\ DOMAIN req' = Fields /\ req'.pc = "sent" /\ req'.want = Null /\ req'.method = "GET"
      /\ req'.name = Null
      /\ req'.path = req.to /\ req'.from = req.from
  BY <1>1 DEF Route!Send, Fields
<1>3. req.to \in PanelPages /\ (hops > 0 => req.to \in {Login, Back}) /\ hops \in Nat
  BY <1>1 DEF RequestInv, DoneSound, ChainSound
<1>4. req.to \in Seq(Segment \cup {Id}) /\ Back' = Back
  BY <1>2, <1>3, PageType DEF Back
<1>5. hops' \in Nat /\ hops' > 0 /\ (hops' > 1 => hops > 0)
  BY <1>1, <1>3
<1> QED  BY <1>1, <1>2, <1>3, <1>4, <1>5 DEF RequestInv, SentSound, LostSound, ChosenSound,
    NameSound,
            DoneSound, ChainSound, Chosen

-----------------------------------------------------------------------------
\* Every reachable state of the routes.

LEMMA RoutePart == [Next]_vars => [Route!Next]_routeVars
<1>1. CASE UNCHANGED vars
  BY <1>1 DEF vars
<1>2. CASE RouteSteps
  BY <1>2 DEF RouteSteps
<1>3. CASE Next /\ ~RouteSteps
  BY <1>3 DEF Next, ListsSteps, UploadSteps, TemplateSteps, RateSteps,
              TokenSteps, MessageSteps, BodySteps, StartSteps
<1> QED  BY <1>1, <1>2, <1>3

Methods == {"GET", "POST", "PUT", "DELETE", "PATCH"}

RouteInv ==
    /\ mode \in {"down", "web", "api"} /\ may \in Route!Grants \cup {Null}
    /\ gone \in BOOLEAN /\ hops \in 0..Route!MaxHops /\ req.method \in Methods
    /\ RequestInv

\* Every handler is registered for a method of HTTP.
LEMMA HandlerMethods == \A h \in Route!Handlers : h.method \in Methods
<1>1. \A r, h : ListTable(h, r) => h.method \in Methods
  BY DEF ListTable, Row, Methods
<1>2. \A h : RoleTable(h) \/ AuthTable(h) => h.method \in Methods
  BY DEF RoleTable, AuthTable, Row, Methods
<1>3. \A h : OtherTable(h) => h.method \in Methods
  BY DEF OtherTable, Row, Methods
<1> QED  BY <1>1, <1>2, <1>3, HandlerTable

LEMMA RouteNext == ASSUME RouteInv, Route!Next PROVE RouteInv'
<1>0. req.method \in Methods /\ DOMAIN req = Fields
  BY DEF RouteInv, RequestInv
<1>1. req'.method \in Methods
  <2>1. CASE Route!Start \/ Route!Meanwhile
    BY <1>0, <2>1 DEF Route!Start, Route!Meanwhile
  <2>2. CASE Route!Click
    <3>1. Clicked(req')
      BY <2>2, ClicksClicked DEF Route!Click
    <3> QED  BY <3>1, HandlerMethods DEF Clicked, Aims
  <2>3. CASE Route!Route \/ Route!Authenticate \/ Route!Authorize \/ Route!Perform \/ Route!Throw
    BY <1>0, <2>3 DEF Fields, Route!Route, Route!Authenticate, Route!Authorize, Route!Perform,
          Route!Throw, Route!Redirect, Route!Done
  <2>4. CASE Route!Override
    BY <1>0, <2>4 DEF Route!Override, Methods, Fields
  <2>5. CASE Route!Answer
    <3>1. Route!NoRequest.method \in Methods
      BY DEF Route!NoRequest, Route!Send, Methods
    <3> QED  BY <1>0, <2>5, <3>1 DEF Route!Answer, Route!Redirect, Fields
  <2>6. CASE Route!Follow
    BY <2>6 DEF Route!Follow, Route!Send, Methods
  <2> QED  BY <2>1, <2>2, <2>3, <2>4, <2>5, <2>6 DEF Route!Next
<1>2. mode' \in {"down", "web", "api"}
  BY DEF RouteInv, Route!Next, Route!Start, Route!Click, Route!Meanwhile, Route!Route,
         Route!Override, Route!Authenticate, Route!Authorize, Route!Perform, Route!Throw,
         Route!Answer, Route!Follow
<1>3. hops' \in 0..Route!MaxHops
  <2>1. UNCHANGED hops \/ hops' = 0 \/ (hops < Route!MaxHops /\ hops' = hops + 1)
    BY Zenon DEF Route!Next, Route!Start, Route!Click, Route!Meanwhile, Route!Route,
           Route!Override, Route!Authenticate, Route!Authorize, Route!Perform, Route!Throw,
           Route!Answer, Route!Follow
  <2> QED  BY <2>1 DEF RouteInv, Route!MaxHops
<1>4. may' \in Route!Grants \cup {Null}
  <2>1. {} \in Route!Grants
    BY DEF Route!Grants
  <2>2. CASE Route!Perform
    <3>1. PICK op : Route!SignsIn(op)
      BY <2>2 DEF Route!Perform
    <3> HIDE DEF Route!Grants
    <3> QED  BY <2>1, <3>1 DEF Route!SignsIn, RouteInv
  <2>3. CASE Route!Start \/ Route!Meanwhile
    BY <2>1, <2>3 DEF Route!Start, Route!Meanwhile, RouteInv
  <2>4. CASE UNCHANGED may
    BY <2>4 DEF RouteInv
  <2> QED  BY <2>2, <2>3, <2>4 DEF Route!Next, Route!Click, Route!Route, Route!Override,
              Route!Authenticate, Route!Authorize, Route!Throw, Route!Answer, Route!Follow
<1>5. gone' \in BOOLEAN
  <2>1. UNCHANGED gone \/ gone' = TRUE
    BY Zenon DEF Route!Next, Route!Start, Route!Click, Route!Meanwhile, Route!Route,
           Route!Override, Route!Authenticate, Route!Authorize, Route!Perform, Route!Throw,
           Route!Answer, Route!Follow
  <2> QED  BY <2>1 DEF RouteInv
<1>6. RequestInv'
  <2>1. RequestInv
    BY DEF RouteInv
  <2> QED  BY <2>1, StartKeeps, ClickKeeps, MeanwhileKeeps, RouteKeeps, OverrideKeeps, AuthenticateKeeps,
              AuthorizeKeeps, PerformKeeps, ThrowKeeps, AnswerKeeps, FollowKeeps DEF Route!Next
<1> QED  BY <1>1, <1>2, <1>3, <1>4, <1>5, <1>6 DEF RouteInv

LEMMA RouteInit == Route!Init => RouteInv
<1> SUFFICES ASSUME Route!Init PROVE RouteInv
  OBVIOUS
<1>1. /\ DOMAIN Route!NoRequest = Fields /\ Route!NoRequest.pc = "idle"
      /\ Route!NoRequest.method = "GET" /\ Route!NoRequest.path = <<>> /\ Route!NoRequest.from = Null
  BY DEF Route!NoRequest, Route!Send, Fields
<1>2. 0 \in 0..Route!MaxHops /\ 0 \in Nat /\ "GET" \in Methods /\ <<>> \in Seq(Segment \cup {Id})
  BY DEF Route!MaxHops, Methods
<1>3. req = Route!NoRequest /\ hops = 0 /\ mode = "down" /\ may = Null /\ gone = FALSE
  BY DEF Route!Init
<1>4. RequestInv
  BY <1>1, <1>2, <1>3 DEF RequestInv, SentSound, LostSound, ChosenSound, Changed, NameSound, DoneSound,
     ChainSound, Chosen
<1> QED  BY <1>1, <1>2, <1>3, <1>4 DEF RouteInv

LEMMA RouteStutters == ASSUME RouteInv, UNCHANGED routeVars PROVE RouteInv'
<1>1. UNCHANGED <<mode, may, gone, req, hops>>
  BY DEF routeVars
<1>2. RequestInv'
  BY <1>1 DEF RouteInv, RequestInv, SentSound, LostSound, ChosenSound, Changed, NameSound, DoneSound,
      ChainSound,
     Aims, Back, Barred, Route!Handlers, Route!Names, Route!Router, Route!nameByMethodAndPath,
     Route!Viewable
<1> QED  BY <1>1, <1>2 DEF RouteInv, Route!Grants

LEMMA RouteAlways == Spec => []RouteInv
<1>1. Init => RouteInv
  BY RouteInit DEF Init
<1>2. RouteInv /\ [Next]_vars => RouteInv'
  BY RoutePart, RouteNext, RouteStutters
<1> QED  BY <1>1, <1>2, PTL DEF Spec

-----------------------------------------------------------------------------
\* A link and a form of the panel perform the operation they are meant for:
\* the router finds a handler, exact path first, before the override changes the
\* method, and no companion swallows a literal path.
THEOREM FormsReach == Spec => []FormsReachTheirOperation
<1>1. RouteInv => FormsReachTheirOperation
  BY DEF RouteInv, RequestInv, LostSound, DoneSound, FormsReachTheirOperation,
         Route!FormsReachTheirOperation, Route!At
<1> QED  BY <1>1, RouteAlways, PTL

\* What RbacFilter looks up by the overridden method, where the override is
\* expected, is the name of the operation the handler goes on to perform; it
\* finds none exactly for the requests listed in Nameless, and lets them pass.
THEOREM GuardNames == Spec => []GuardNamesTheOperation
<1>1. ASSUME RouteInv, req.pc = "allowed", "rbac" \in req.handler.filters, Route!Expected
      PROVE  IF Route!Nameless(req.handler, req.override) THEN req.name = Null
             ELSE /\ req.name # Null
                  /\ Route!Operation(req.name) = Route!Dispatch(req.handler, req.override)
  <2> DEFINE h == req.handler  o == req.override  n == req.name
  <2>1. /\ h \in Route!Handlers /\ Route!pathMatches(h.path, req.path)
        /\ req.path \in Seq(Segment \cup {Id})
        /\ h.path = req.path \/ \A g \in Route!Handlers : g.path # req.path
        /\ req.method = IF Changed THEN o ELSE h.method
        /\ n \in Route!nameByMethodAndPath(req.method, req.path)
    BY <1>1 DEF RouteInv, RequestInv, ChosenSound, NameSound, Chosen
  <2>2. CASE ~Changed
    <3>1. n # Null => Route!Operation(n) = h.op /\ h.op[2] # "companion"
      BY <2>1, <2>2, GuardSame
    <3>2. n # Null => ~Bare(h.op, h.method)
      BY <2>1, <2>2, <3>1, NameUnbare
    <3>3. NameFor(h, h.method) => n # Null
      BY <2>1, <2>2, NameFound
    <3>4. h.op[2] = "companion" \/ Bare(h.op, h.method) \/ NameFor(h, h.method)
      BY <1>1, <2>1, HandlersNamed
    <3>5. h.op[2] = "companion" \/ Bare(h.op, h.method) => h.filters = Route!Guarded /\ h.method = "POST"
      BY <2>1, BareGuarded
    <3>6. Route!Nameless(h, o) <=> h.op[2] = "companion" \/ Bare(h.op, h.method)
      <4>1. h.op[2] = "companion" \/ Bare(h.op, h.method) => o \notin {"PUT", "DELETE", "PATCH"}
        BY <2>2, <3>5 DEF Changed, Route!Guarded
      <4>2. ASSUME h.op \in {<<"roles", "update">>, <<"roles", "delete">>}, h.method = "POST",
                   o \in {"PUT", "DELETE", "PATCH"}
            PROVE  FALSE
        <5>1. h.filters = Route!Guarded
          BY <2>1, <4>2, RoleFormGuarded DEF RoleForm
        <5> QED  BY <2>2, <4>2, <5>1 DEF Changed, Route!Guarded
      <4> QED  BY <4>1, <4>2 DEF Route!Nameless, Bare
    <3> HIDE DEF h, o, n
    <3>7. h.op[2] # "companion" => Route!Dispatch(h, o) = h.op
      BY DEF Route!Dispatch
    <3> QED  BY <3>1, <3>2, <3>3, <3>4, <3>6, <3>7 DEF h, o, n
  <2>3. CASE Changed
    <3>1. h.method = "POST" /\ req.method = o /\ o \in {"PUT", "DELETE", "PATCH"}
      BY <2>1, <2>3 DEF Changed
    <3>2. h.op[2] = "companion" \/ \E f \in Route!Forms : f.path = req.path /\ f.override = o
      BY <1>1, <3>1, RouteAssumption DEF Route!Expected
    <3>3. n # Null => Route!Operation(n) = Route!Dispatch(h, o)
      BY <2>1, <3>1, <3>2, GuardChanged
    <3>4. n = Null <=> Route!Nameless(h, o)
      BY <1>1, <2>1, <3>1, <3>2, ChangedNames
    <3> QED  BY <3>3, <3>4
  <2> QED  BY <2>2, <2>3
<1>2. RouteInv => GuardNamesTheOperation
  BY <1>1 DEF GuardNamesTheOperation, Route!GuardNamesTheOperation, Route!At
<1> QED  BY <1>2, RouteAlways, PTL

\* In the panel no redirect leads nowhere, and the browser is still sent on
\* after three only if the page it is sent back to cannot be shown.
THEOREM RedirectsStop == Spec => []RedirectsEnd
<1>1. RouteInv => RedirectsEnd
  <2> SUFFICES ASSUME RouteInv PROVE RedirectsEnd
    OBVIOUS
  <2>1. ~(mode = "web" /\ req.pc = "lost" /\ hops > 0)
    BY DEF RouteInv, RequestInv, LostSound
  <2>2. ASSUME req.pc = "redirected", hops = Route!MaxHops PROVE ~Route!Viewable(Back)
    <3>1. hops > 1
      BY <2>2 DEF Route!MaxHops
    <3>2. req.path = Back /\ Barred
      BY <2>2, <3>1 DEF RouteInv, RequestInv, ChainSound
    <3> QED  BY <3>2 DEF Barred
  <2> QED  BY <2>1, <2>2 DEF RedirectsEnd, Route!RedirectsEnd, Route!At, Back
<1> QED  BY <1>1, RouteAlways, PTL
=============================================================================
