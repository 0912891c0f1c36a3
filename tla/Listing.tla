------------------------------ MODULE Listing ------------------------------
(***************************************************************************)
(* The paged lists of the panel and of the API, walked by a user who       *)
(* follows "Next" from the first page: the index handlers, the list        *)
(* functions of the services (a COUNT, then the rows of one page, with an  *)
(* await between), the arithmetic of Pagination.h and of the catalog, and  *)
(* the links the views render.  And the form that edits a user's roles,    *)
(* which is filled from such a list.                                       *)
(*                                                                         *)
(* A table is a sequence in the order of the list (ORDER BY name); a row   *)
(* is TRUE when it passes the filter the user set.  Sizes are scaled:      *)
(* MinSize stands for 10, ApiMax for 100, Offered for the 200 roles the    *)
(* form asks for.                                                          *)
(***************************************************************************)
EXTENDS Integers, Sequences, FiniteSets, SequencesExt

CONSTANTS
    MinSize, ApiMax, Offered,
    MaxRows,          \* bounds the tables of the services
    MaxItems          \* bounds the catalog, which needs 8 pages to elide links

VARIABLES
    list,        \* the list on the screen
    table,       \* its rows
    pin,         \* catalog: the position of the active template, 0 without
    query,       \* q_page, q_page_size, and whether the filter is set
    asked,       \* the size and filter of the first query of the walk
    step,        \* "closed", "count", "rows", "shown", "ended"
    total,       \* what COUNT answered
    shown,       \* how often each row was on the screen during the walk
    disturbed,   \* did another user change the table meanwhile?
    held, form   \* the roles of a user; those checked in the open form, or {-1}

vars == <<list, table, pin, query, asked, step, total, shown, disturbed, held, form>>

WebLists == {"users", "roles", "permissions", "grants"}
ApiLists == {"api.users", "api.roles", "api.permissions"}
Catalog  == "catalog"

CeilDiv(a, b) == (a + b - 1) \div b
AtLeast(a, b) == IF a < b THEN b ELSE a
AtMost(a, b)  == IF a > b THEN b ELSE a

-----------------------------------------------------------------------------
(* The query, as each handler reads it *)

\* usersIndex, rolesIndex, permissionsIndex and rolesPermission of the panel.
WebSize(size) == AtLeast(size, MinSize)
\* The API lets only the size of the users be chosen.
ApiUsersSize(size) == AtMost(IF size <= 0 THEN MinSize ELSE size, ApiMax)
ApiRolesSize       == MinSize
ApiPermissionsSize == 2 * MinSize
CatalogSize(size) == IF size <= 0 THEN MinSize ELSE size

SizeOf(l, size) ==
    CASE l \in WebLists         -> WebSize(size)
      [] l = "api.users"        -> ApiUsersSize(size)
      [] l = "api.roles"        -> ApiRolesSize
      [] l = "api.permissions"  -> ApiPermissionsSize
      [] l = Catalog            -> CatalogSize(size)

\* makePaginateMeta: an empty list still has one page.
MetaPages(count, size) == AtLeast(CeilDiv(count, size), 1)
\* paginateMeta of the API, and the catalog: it has none.
ApiPages(count, size) == CeilDiv(count, size)

PagesOf(l, count, size) ==
    IF l \in WebLists THEN MetaPages(count, size) ELSE ApiPages(count, size)

-----------------------------------------------------------------------------
(* The rows *)

Passing(filter) == {i \in DOMAIN table : table[i] \/ ~filter}

\* The rows up to i.  list of UserService, RoleService and PermissionService:
\* in the order of the table.
Ordered(i, passing) == {j \in passing : j <= i}

\* FeCatalogService::paginate: the active template first, if it passes.
Pinned(i, passing) == {j \in passing : IF i = pin THEN j = i ELSE j <= i \/ j = pin}

Place(i, passing) ==
    Cardinality(IF list = Catalog THEN Pinned(i, passing) ELSE Ordered(i, passing))

\* Mutant: the offset counts pages from 0.
SliceFromZero(place, page, size) == page * size < place /\ place <= (page + 1) * size

Slice(place, page, size) == (page - 1) * size < place /\ place <= page * size

PageOf(page, size, filter) ==
    {i \in Passing(filter) : Slice(Place(i, Passing(filter)), page, size)}

-----------------------------------------------------------------------------
(* The links below a list *)

\* The links of the panel's lists carry no q_page_size, those of the roles and
\* of their permissions no status either; those of the catalog carry all.
\* A client of the API repeats its own parameters.
LinkKeepsSize(l)   == l \notin WebLists
LinkKeepsFilter(l) == l \notin {"roles", "grants"}

LinkTo(page) ==
    [page |-> page,
     size |-> IF LinkKeepsSize(list) THEN query.size ELSE 0,
     filter |-> query.filter /\ LinkKeepsFilter(list)]

\* Mutant: one page too soon.
ElidesSoon(page) == page > 3

ElidesBefore(page) == page > 4

\* pageNumbers, -1 for the ellipsis.
PageNumbers(page, pages) ==
    IF pages <= 7 THEN [i \in 1..pages |-> i]
    ELSE LET lo == AtLeast(page - 2, 2)
             hi == AtMost(page + 2, pages - 1)
         IN  <<1>>
             \o (IF ElidesBefore(page) THEN <<-1>> ELSE <<>>)
             \o [i \in 1..AtLeast(hi - lo + 1, 0) |-> lo + i - 1]
             \o (IF page < pages - 3 THEN <<-1>> ELSE <<>>)
             \o <<pages>>

-----------------------------------------------------------------------------
Closed == [page |-> 1, size |-> 0, filter |-> FALSE]

Init ==
    /\ list = "users" /\ table = <<>> /\ pin = 0
    /\ query = Closed /\ asked = Closed
    /\ step = "closed" /\ total = 0 /\ shown = <<>> /\ disturbed = FALSE
    /\ held = {} /\ form = {-1}

Tables == UNION {[1..n -> BOOLEAN] : n \in 0..MaxRows}

\* The user opens a list, with the size and the filter of the search form.
Open(l, rows, sizes, filters) ==
    /\ step = "closed" /\ form = {-1}
    /\ list' = l /\ table' = rows
    /\ query' \in [page : {1}, size : sizes, filter : filters]
    /\ asked' = query'
    /\ shown' = [i \in DOMAIN rows |-> 0]
    /\ step' = "count" /\ disturbed' = FALSE
    /\ UNCHANGED <<total, held, form>>

Sizes == {0, 1, MinSize + 1}

OpenWebList ==
    \E l \in WebLists, rows \in Tables : Open(l, rows, Sizes, BOOLEAN) /\ pin' = 0

OpenApiList ==
    \E l \in ApiLists, rows \in Tables :
        Open(l, rows, IF l = "api.users" THEN Sizes ELSE {0}, BOOLEAN) /\ pin' = 0

OpenCatalog ==
    \E n \in 0..MaxItems :
        /\ Open(Catalog, [i \in 1..n |-> TRUE], Sizes, {FALSE})
        /\ pin' \in 0..n

\* Another user adds a row at the end or removes the first one.
Disturb ==
    /\ step \in {"count", "rows", "shown"} /\ ~disturbed
    /\ list # Catalog /\ table # <<>>
    /\ table' \in {Append(table, TRUE), Tail(table)}
    /\ disturbed' = TRUE
    /\ UNCHANGED <<list, pin, query, asked, step, total, shown, held, form>>

Count ==
    /\ step = "count"
    /\ total' = Cardinality(Passing(query.filter))
    /\ step' = "rows"
    /\ UNCHANGED <<list, table, pin, query, asked, shown, disturbed, held, form>>

Fetch ==
    /\ step = "rows"
    /\ LET rows == PageOf(query.page, SizeOf(list, query.size), query.filter)
       IN  shown' = [i \in DOMAIN shown |-> shown[i] + (IF i \in rows THEN 1 ELSE 0)]
    /\ step' = IF query.page < PagesOf(list, total, SizeOf(list, query.size))
               THEN "shown" ELSE "ended"
    /\ UNCHANGED <<list, table, pin, query, asked, total, disturbed, held, form>>

FollowNext ==
    /\ step = "shown"
    /\ query' = LinkTo(query.page + 1)
    /\ step' = "count"
    /\ UNCHANGED <<list, table, pin, asked, total, shown, disturbed, held, form>>

Leave ==
    /\ step = "ended" /\ step' = "closed"
    /\ table' = <<>> /\ shown' = <<>> /\ query' = Closed /\ asked' = Closed
    /\ list' = "users" /\ pin' = 0 /\ total' = 0 /\ disturbed' = FALSE
    /\ UNCHANGED <<held, form>>

\* Mutant: the form offers one role less than it asks for.
OfferedButOne(roles) == 1..AtMost(Len(roles), Offered - 1)

OfferedRoles(roles) == 1..AtMost(Len(roles), Offered)

\* usersEdit: the first Offered roles by name, the user's own checked.  Here
\* the table is that of the roles, all of them; held is what rolesOf answers.
OpenEdit ==
    /\ step = "closed" /\ form = {-1}
    /\ table' \in {[i \in 1..n |-> TRUE] : n \in 0..MaxRows}
    /\ held' \in SUBSET (1..Len(table'))
    /\ form' = held' \cap OfferedRoles(table')
    /\ UNCHANGED <<list, pin, query, asked, step, total, shown, disturbed>>

\* usersUpdate: what the unchanged form sends replaces the user's roles, unless
\* it sends none.
SubmitEdit ==
    /\ form # {-1}
    /\ held' = IF form = {} THEN held ELSE form
    /\ form' = {-1}
    /\ table' = <<>>
    /\ UNCHANGED <<list, pin, query, asked, step, total, shown, disturbed>>

Next == \/ OpenWebList \/ OpenApiList \/ OpenCatalog \/ Disturb \/ Count \/ Fetch \/ FollowNext \/ Leave
        \/ OpenEdit \/ SubmitEdit

-----------------------------------------------------------------------------
TypeOK ==
    /\ list \in WebLists \cup ApiLists \cup {Catalog}
    /\ query \in [page : Nat \ {0}, size : Nat, filter : BOOLEAN]
    /\ step \in {"closed", "count", "rows", "shown", "ended"}
    /\ total \in Nat /\ Len(table) <= AtLeast(MaxRows + 1, MaxItems)
    /\ \A i \in DOMAIN shown : shown[i] \in Nat
    /\ held \subseteq 1..MaxRows

\* A walk from the first page to the last shows every row that passes the
\* filter, although the links may change size and filter under way; where they
\* keep both, each such row is shown once and no other row is.
WalkShowsEveryRow ==
    step = "ended" /\ ~disturbed =>
        \A i \in DOMAIN shown :
            LET wanted == table[i] \/ ~asked.filter
            IN  /\ wanted => shown[i] > 0
                /\ query.size = asked.size /\ query.filter = asked.filter
                       => shown[i] = (IF wanted THEN 1 ELSE 0)

\* The links of the catalog name the first, the current and the last page, in
\* order, with an ellipsis exactly where pages are left out.
LinksAreInOrder ==
    list = Catalog /\ step = "shown" =>
        LET pages == PagesOf(list, total, SizeOf(list, query.size))
            nums  == PageNumbers(query.page, pages)
            Gap(i) == i \in 2..(Len(nums) - 1) /\ nums[i] = -1
        IN  /\ {1, query.page, pages} \subseteq ToSet(nums)
            /\ \A i \in 1..(Len(nums) - 1) :
                   \/ Gap(i) /\ nums[i + 1] > nums[i - 1] + 1
                   \/ Gap(i + 1)
                   \/ nums[i + 1] = nums[i] + 1

\* Saving a user's edit form unchanged keeps the user's roles, as long as there
\* are no more roles than the form asks for.
EditKeepsRoles ==
    [][form # {-1} /\ form' = {-1} /\ Len(table) <= Offered => held' = held]_vars
=============================================================================
