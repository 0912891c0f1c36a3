# CppAdmin in TLA+

CppAdmin is an admin panel on the Drogon framework (C++20): accounts with
roles and permissions, a server-rendered web panel whose session is a JWT in a
cookie, a JSON API under `/api/v1` with Bearer tokens, site settings, and a
front page rendered from a downloadable template. It keeps its data in SQLite
(or another SQL database), rate-limit counters in Redis, uploads on disk or S3.

Every handler is a C++20 coroutine. A `co_await` on the database suspends it
and lets the event loop run any other request, and no handler opens a
transaction. So a handler that looks like "check, then write" is a sequence of
separate statements, with the steps of every other request in between, and a
statement that throws leaves what the earlier ones wrote. This is what the
modules here are about. All paths below are under `src/`.

## 1. Inventory

| Component | State | Operations | Interacts with |
|---|---|---|---|
| User accounts: `services/AuthService.cc`, `services/UserService.cc`, `models/Users.cc` | tables `users`, `users_roles` | register, create, update, updateProfile, changePassword, remove, requestPasswordReset, processPasswordReset | called by the web and API controllers; a row is deleted alone, the cascades of the schema not being enforced |
| JWT sessions: `filters/AuthFilter.cc`, `AuthWebController.cc`, `AuthApiController.cc`, `helpers/JwtHelper.h`, `helpers/JwtBlacklist.h` | the tokens clients hold, table `jwt_blacklist` | login, register, logout, verification of a cookie or Bearer token | reads `users` at login only; sets `currentUser` for RbacFilter and the handlers |
| Roles, permissions, RBAC: `RoleService.cc`, `PermissionService.cc`, `RbacHelper.cc`, `filters/RbacFilter.cc`, `AccessController.cc` | tables `roles`, `permissions`, `roles_permissions`, `users_roles` | CRUD, (un)assign one or several, discovery of routes, the decision | `RouteRegistry` names the route; the decision joins four tables in two queries |
| Route registry and routes: `include/RouteRegistry.h`, `controllers/web/v1/*Routes.cc` | a map filled at start-up; Drogon's own table | register, name a method and path | RbacFilter, discovery; MethodOverrideFilter changes the method in between |
| Settings: `services/SettingService.cc` | one row of `settings`, a copy of it in the process with its age | findFirst, update, invalidate | every page reads it; a save may download a template |
| Front-end templates: `services/FeTemplateService.cc`, `include/FeTemplates.h` | files in the template directory | ensure, getActiveHtml | settings, the remote template host |
| Template catalog: `services/FeCatalogService.cc` | a memo in memory, a copy on disk | list, paginate, has, previewHtml | the remote template host |
| CSRF: `filters/CsrfFilter.cc` | none: tokens are derived from the session token, or from the client and the hour | generate, check | AuthFilter's cookie |
| Rate limits: `filters/RateLimitFilter.cc` and its two users | a Redis counter per path and client | INCR, EXPIRE at the first | fails open |
| Flash messages: `helpers/FlashHelper.h` | keys of the web session | set, consume | every form handler, every page |
| Pagination and lists: `helpers/Pagination.h` | none | pages, offsets | list pages |
| Forms: `helpers/FormHelper.h`, the parsers of `AccessController.cc`, `filters/MethodOverrideFilter.cc` | none | parse, override the method | CsrfFilter, form handlers |
| Uploads and media: `helpers/Storage.h`, `helpers/UploadHelper.h`, `MediaController.cc`, `StorageController.cc` | files or S3 objects | save, remove, serve | profile, users, settings |
| Dashboard, component pages, views, headers | none | read | |
| Start-up: `docker-entrypoint.sh`, `main.cc`, `include/AppConfig.h` | the secrets file, `config.json`, schema and seed rows | draw secrets, configure, migrate, seed, validate, listen | dbmate and sqlite3; a kill at any moment, then the next start |

What is hard, and what makes each part correct:

* **Accounts.** Checks precede writes by an await; the ORM writes back every
  column of a row read earlier (`models/Users.cc:83-115`) and leaves NULL
  columns out of the UPDATE. Correct means: identities stay unique, a deleted
  account stays deleted, a one-time code keeps its own expiry, an admin's block
  is not undone, a user's roles are those of one form, requests are answered.
* **Sessions.** Nothing looks the account up after the token is signed; the
  blacklist is asked an await before the handler runs, on the web branch only,
  and an error there lets the token in. Correct means: barring an account ends
  its sessions within a token's lifetime, a logout ends its token at once.
* **Access.** Lists of permissions are replaced row by row; names are checked
  an await before they are written; rows may be left behind by deletions.
  Correct means: names are unique, lists are what was submitted, routes are
  gained only by a deliberate statement.
* **Settings.** A mutex guards each access to the cache, not the SELECT between
  the look and the fill. Correct means: the copy is current except in two named
  windows, and the last save is what every page shows in the end.

* **Routing.** Drogon chooses the handler by the method the browser sent,
  RbacFilter the permission by the method `_method` made of it, and a script
  submits the forms whose buttons ask for confirmation. Correct means: forms
  reach their operation, the permission asked for is that of the operation
  performed, redirects end.
* **Lists.** Count and rows are two queries, links drop parameters, the catalog
  pins a row. Correct means: a walk shows every row, an unchanged form changes
  nothing.
* **Uploads.** A file is saved before the row that names it. Correct means: a
  row names a file that is there and is its own.
* **Templates and catalog.** Files are written in place, on a disk that may be
  full, and fetches overlap. Correct means: a piece of a file is not taken for
  the whole, the fallback does not last.
* **Rate limits, CSRF, flash.** INCR and EXPIRE are two messages; a token
  depends on session, hour and address; a message is two keys in four accesses.
  Correct means: bounded passes and refusals that end; honest forms pass, in
  their own session only; a message is shown whole and once.
* **Start-up.** Killed between any two steps and started again over what is
  there, by a script that passes over the lines that fail. Correct means: one
  secret, a whole schema, rows left alone.

`PROJECT.json` lists each hazard at its line with the property that covers it.

## 2. Modules

| Module | Models | Abstract specification, proofs |
|---|---|---|
| `Accounts.tla` (`MCAccounts.tla`) | `users`, `users_roles` and the requests that write them | implements `UserStore.tla` and `Standing.tla`; `AccountsProofs.tla`, `AccountsSafety.tla` |
| `Standing.tla` | what login makes of an account: the seam between accounts and sessions | implemented by `Accounts`, composed into `WebSession` |
| `WebSession.tla` | tokens, the blacklist, AuthFilter, over the accounts of `Standing` | `WebSessionProofs.tla` |
| `Access.tla` (`MCAccess.tla`) | roles, permissions, discovery, RbacFilter | `AccessProofs.tla` |
| `SettingCache.tla` | the settings row, its cache, the template files a save needs | `SettingCacheProofs.tla` |
| `Routes.tla` | route tables, router, registry, the chain of filters, companions, redirects | `RoutesProofs.tla` |
| `Listing.tla` | paged lists of panel, API and catalog, their links, the form of a user's roles | `PanelProofs.tla` |
| `Uploads.tla` | pictures and media on the local and the remote drivers | `FilesProofs.tla` |
| `FeCatalog.tla` | the template catalog (memo, disk, fallback) and the template files | `FilesProofs.tla` |
| `RateLimit.tla` | one Redis counter | `PanelProofs.tla` |
| `Csrf.tla` | CSRF tokens, sessions and hours | `PanelProofs.tla` |
| `Flash.tla` | flash messages in the session | `PanelProofs.tla` |
| `Forms.tla` | the two multipart parsers | `PanelProofs.tla` (types) |
| `Bootstrap.tla` | container and server start | `FilesProofs.tla` |
| `MCPanel.tla` | instantiates the nine modules from `Routes` to `Bootstrap` and checks them in one run | `PanelProofs.tla`: all types |
| `MCProgress.tla` | instantiates `Accounts` and `RateLimit` beside `SettingCache`, with their fairness: what must happen in the end | |

### How a handler becomes actions

`req[r]` is a slot for a request in flight: `pc` names the statement it waits
for, the other fields are the local variables that live across the await. One
action is one awaited statement together with what the coroutine computes
until the next await. A request refused at once (a conflict, not found, a wrong
password) changes nothing and is no step. A statement that throws is
`RequestFails`: the handler unwinds, what it wrote stays.

**Accounts.** `RegisterRead`, `CreateRead`, `UpdateRead`, `UpdateProfileRead`,
`ResetRequestRead`, `ResetProcessRead`, `ChangePasswordRead` and `RemoveBegin`
are the first statements of the service functions of those names (for
`RemoveBegin`, of `usersDestroy` and `usersDeleteSelected`). They put the row
the coroutine holds in `req[r].row`. `CheckCode`, `Insert`, `WriteRow`,
`ClearRoles`, `AddRole`, `SetPassword`, `RemoveFind` and `RemoveDelete` are the
later statements. `Overwrite` is the ORM's UPDATE: every column from the object
except a NULL one. Foreign keys are not enforced: SQLite, whose dialect `INSERT OR
IGNORE` is, asks for a PRAGMA that no connection here sends. So a removal leaves
the user's role rows, and a creation overtaken by a removal goes on adding them.
`given` is a history: the list of roles the last save of a user stores, if no
other save of that user was inserting when it cleared them and none broke off.
Names, phones, pictures and the like are left out; a password and a one-time
code are values, their bcrypt hashes being compared only for equality.

A one-time code that was used stays in the table: `processPasswordReset` sets
both columns to NULL in memory, and `updateColumns` leaves NULL columns out of
the statement. The model keeps it (`Overwrite`). Nothing in the repository
promises that a code works once only, so no property says it.

**WebSession.** `standing[u]` is what `AuthService::login` would find: `good`
is accepted, `refused` is inactive or blocked. Registration stores the status
`"active"` where login asks for `"Active"`, so a registered account starts as
`refused` although `postRegister` signs a token for it. `LoginRead`/`Register`
and `Issue` are the two halves of signing; `VerifyWeb`, `CheckBlacklist`,
`Serve`, `Revoke` and `RevokeFails` a web request; `VerifyApi` and `Serve` an
API request. The accounts are an instance of `Standing`: `Enroll`, `Allow`,
`Bar`, `Remove` and `Mark` are its steps, with what they end or begin for the
sessions. `standing[u]` and the set `held` of accounts whose block no pending
write can lift are all a session can notice of the `users` table; that the table
makes no other step is `ImplementsStanding`, where `Accounts` computes both from
the row and from the requests in flight. `barred`, `loggedOut`, `after` and `failedOpen` are
history variables: no guard of an action reads them.

**Access.** As Accounts, for roles and permissions. A role's `name` and a
permission's `name` and status are kept; a deletion removes the row alone, the
cascades of the schema being foreign keys too; `RbacFilter`'s queries are
`QueryAdministrator` and `QueryAccess`, its pass for unnamed routes and for a
failed query `PassThrough` and `RequestFails`. `users_roles` belongs to
Accounts: here each of its statements may happen at any time
(`AddUserRole`, `ClearUserRoles`).

**SettingCache.** Several event loops share the cache, so the statement and the
resumption of its coroutine are two steps: `MissRead` and `Fill` for
`findFirst`, `Write` and `Invalidate` for `update`. `Hit` is the read of a
fresh copy. `Download` and `DownloadFails` are `FeTemplateService::ensure` in a
save; `DownloadOnDemand` is `getActiveHtml` fetching the template of the
settings it was given. Of the row's columns the model keeps the theme and the
active template.

**Routes.** The tables are sets of entries (name, method, pattern) and handlers
(operation, method, pattern, filters), one definition per register function. A
request goes `Route`, `Override`, `Authenticate`, `Authorize`, `Perform` or
`Throw`, `Answer`, and a redirect is `Follow`ed with the `Referer` the browser
keeps. `Dispatch` is the POST companion reading `_method` a second time.
`Landing` is the redirect each handler answers with. `Meanwhile` is another
admin deleting the row on the screen or taking the account's roles. CsrfFilter,
which every guarded route has too, is left to Csrf. `UserForms`, `RoleForms`,
`GrantForms` and their like are what a browser sends for the forms of the views.
`Selection` is a button with `data-confirm` inside the form around a table: the
script of `layouts/foot.csp` submits that form, which has neither method nor
action, so the page is asked for again (`formmethod` and `formaction` belong to
the button). `Nameless` lists the requests the registry has no name for, which
RbacFilter lets pass.

**Listing.** `Open`, `Count`, `Fetch` and `FollowNext` walk a list; `Disturb` is
another user adding or removing a row. A table is a sequence in list order, a
row is whether it passes the filter. A page is a set of rows: those whose place
(the number of passing rows up to them, the pinned template first in the
catalog) lies between the offset and the limit of the query. `SizeOf` and `PagesOf` are the arithmetic
of each handler, which differ: the panel has a floor of 10, the API a ceiling
of 100, the catalog neither, and only the panel gives an empty list a page.

**Uploads.** `UsersUpdate`, `ProfileUpdate`, `SettingUpdate` and `MediaUpload`
start a form with its files, `SaveLocal` or `SendPut`/`PutSucceeds`/`PutFails`
save one, `WriteRow` names them. `Render` makes the URL of a picture, and the
open page keeps it.

**FeCatalog.** `List`, `Preview` and `Home` are `list`, `previewHtml` and
`ensure`/`getActiveHtml`; a file is opened as its contents arrive, which cuts it
short, and filled in a second step, which may leave it short, for no stream is
looked at after it is open. `Crash` empties memory and keeps the files. `broken` is a history: the
templates a crash or a short write left cut.

**RateLimit, Csrf, Flash.** One action per message to Redis and its answer; per
thing a browser or its session does; per access to the session's keys.
A request whose answer from Redis is lost passes although it was counted
(`AnswerLost`), as one does that Redis never saw (`FailOpen`). `recent[n]` is a
history: the requests counted within the limit in the last `n` ticks.

**Forms.** A body is a sequence of tokens (delimiter, line break, header,
value). `parseMultipart` is that of `FormHelper.h`, `parseMultipartAll` that of
`AccessController.cc`, both as recursive functions over positions.

**Bootstrap.** One action per line of the script that leaves something behind,
then `Validate` and `Listen` of `main`; `Kill` at any point, `Boot` again. A line
may fail: where the script does not ask (the secrets file and its two lines, the
`mv` of the configuration, the seed) the start goes on, where it does (jq,
dbmate) it ends. `torn` is a history: a kill or a failed line left the secrets
file without a secret.

**MCPanel.** These nine share no variable, and none disables a step of another,
so one run chooses a `part` at the start and lets only that part step. Nothing
is lost by it: every behaviour of each module is a behaviour of the run.
`MCProgress` does the same with accounts, settings and the rate limit, where the
properties are about what must happen in the end. What the code does against its
own words is checked on the modules themselves.

## 3. What the runs show

| Run | Instance | Shows |
|---|---|---|
| `accounts_identity` | 3 ids, 2 emails, 2 codes, 2 requests | `IdentityUnique`; the detailed specification implements `UserStore` (`ImplementsUserStore`), so deletion is final and ids are never reused |
| `accounts_reset` | 1 id, 2 statuses, 2 requests; 2 one-time codes that live 1 tick with clock 0..2, or 2 roles | `OtpSound`, `UncontendedBlockHolds`; a user's roles are those of the last save, unless saves of that user overlapped or broke off (`RolesAreOneList`); to login the account moves only as `Standing` says (`ImplementsStanding`) |
| `accounts_stale_block` | 1 id, 2 requests | violates `OnlyAdminChangesBlocked` (finding 1) |
| `session` | 1 user, 2 tokens, 2 requests, tokens live 2 ticks, clock 0..5, failing queries | `BarredRunsOut`, `LogoutHolds`; one lifetime after it is barred, no request of an account is admitted (`BarredTurnedAway`) |
| `session_reuse` | 1 user, 1 token, 1 request | violates `LoggedOutNeverReused` (finding 2) |
| `access` | 2 roles and 2 permissions, 3 of them at most, 2 requests | `RoleNamesUnique`, `ListsAreExact`, `GrantsAreDeliberate` |
| `access_discovery` | 2 permissions, 1 route, 2 requests | violates `DiscoveryAddsNoDuplicate` (finding 3) |
| `access_cascade` | 1 role, 1 permission, 2 requests | violates `DeletedRoleGrantsNothing` (finding 4) |
| `progress` | accounts: 1 id, 2 roles, 2 requests; batch removals: 2 ids; settings: 2 themes, 3 templates, 2 requests, a copy lives 2 ticks; rate limit as in `panel`; each alone and fair | `RequestsFinish`, `PagesCatchUp`, `LimitLifts` (liveness); `CacheIsCurrent`, `ActiveTemplateOnDisk` (the types of `SettingCache` are proved only) |
| `panel` | nine parts, each alone; see Bounds | the properties below, all but `LimitLifts` |
| `panel_buttons` | `Routes` as in `panel` | violates `ButtonsDoWhatTheySay` (finding 5) |
| `panel_guard` | `Routes` as in `panel` | violates `FormsAreAskedFor` (finding 6) |

The properties of the nine parts, in `panel` (`LimitLifts`: in `progress`):

| Part | Property | Says |
|---|---|---|
| Routes | `FormsReachTheirOperation` | a link, or a form that is sent by itself, performs the operation it is meant for, although routing precedes the override; a button sent with the form of a table shows the table again |
| | `GuardNamesTheOperation` | for every method, and every `_method` that a form sends there or the handler reads, the permission RbacFilter asks for is that of the operation performed; it asks for none exactly for the requests `Nameless` lists |
| | `RedirectsEnd` | redirects lead to pages and end, unless the page to return to can itself not be shown any more |
| Listing | `WalkShowsEveryRow` | a walk along "Next" shows every row that passes the filter, once where the links keep size and filter |
| | `LinksAreInOrder` | the pager is in order, with an ellipsis exactly where pages are left out |
| | `EditKeepsRoles` | saving a user's form unchanged keeps the roles, up to the number the form asks for |
| Uploads | `PicturesAreStored` | a row names a picture that is stored, and an open page can load it while its URL is good |
| | `PicturesAreTheirOwn` | no upload replaces the picture of another row, unless both drew their key in one tick |
| FeCatalog | `AnswersAreWhole` | a file cut short is not taken for a whole one by the list or a preview; the home page shows one only beside a writer, or after a crash or a full disk left that template cut |
| | `CatalogRecovers` | with a catalog on disk to stay, the fallback gives way to it for good (liveness) |
| RateLimit | `AtMostTwice` | of the requests Redis counts within the limit, at most two limits' worth come in any window, and one more per restart of Redis; those without an answer pass besides |
| | `LimitLifts` | a refusal ends unless the EXPIRE was lost (liveness) |
| Csrf | `HonestFormsPass` | a form sent in its own session, or within an hour bucket from its own address, passes |
| | `SessionsDoNotMix` | a form passes only in the session it was opened in |
| Flash | `PageShowsItsMessage` | a page that overlaps no request shows the last message, whole, under its kind and once |
| Forms | `FormsReadBack` | both parsers read back what was entered, and an empty file input is no upload |
| Bootstrap | `SecretIsStable` | no two servers of an installation run with different JWT secrets |
| | `StartsAreComplete` | a container serves only on a whole schema and with its secrets, and lacks one only where their file could not be made, or a kill or a failed line left it without |
| | `BootKeepsRows` | a start changes no row that exists |

### Bounds, and why they are enough

* **Two requests.** Every race above is between a request that read something
  and one other that writes it; a third request can only repeat what the second
  does, since requests are alike and a slot is reused as soon as its request
  ends. For the invariants that are also proved the number is arbitrary.
* **Three ids, two emails, two codes**: a conflict, and an account that is not
  part of it. **Two one-time codes**: a code and its replacement.
* **Clock.** `MaxClock` bounds the clock only. Codes live one tick of two, so
  each can be issued, expire, and be issued again. In `session` tokens live two
  ticks of five: when an account is barred at 0, a token signed for it at 2 all the
  same would be presented at 4, past one lifetime. A token is signed only while it can
  also expire within the bound (`TokenFits`), so no behaviour ends with a token
  alive because the clock stopped; the run may stop (`CHECK_DEADLOCK FALSE`) when
  the clock and the jtis are used up. Jtis and ids are fresh UUIDs, so they are never reused, and
  a bounded set of them bounds how many tokens, accounts, roles or permissions
  are ever made.
* **Three roles and permissions** in `access` (`ThreeIds`): a clash of names
  needs two roles, a list replaced row by row one role and two permissions. Ids
  are never reused, so three of them are three creations in a whole behaviour.
* **Codes or roles** in `accounts_reset` (`CodesOrRoles`): no statement touches
  both, so a behaviour that issues a code or lets time pass has no roles, and
  the other way round. A list replaced row by row needs two roles.
* **`Ttl = 2`**: a copy that is fresh, old but usable, and expired.

* **`panel`.** Routes: every route of the panel, at most three redirects in a
  row (each page that redirects does so to one that need not). Listing: tables
  of up to 3 rows with pages of 2 (floor), 1 or 3, so there are empty, partial,
  full and several pages, and one disturbance; a catalog of up to 10 rows in
  pages of one, as the pager elides from 8 pages on; 3 roles against a form
  that asks for 2. Uploads: 2 forms at once, 2 users and 2 images of the
  settings, clock 0..2, a URL good for 1 tick. FeCatalog: 2 visitors, 2
  templates of which the fallback lists one, a memo that lives 1 tick, 1 crash.
  RateLimit: 2 requests at once, limit 2, window 2 ticks, 1 restart; the count
  stops at Limit + 1, where all counts are alike. Csrf: 2 sessions, 2
  addresses, 3 hours (own, next, too late); one tab, for tabs share only the
  cookie. Flash: 2 requests at once, 3 messages. Forms: up to 3 fields, values
  empty, plain and with a blank line inside. Bootstrap: 2 migrations, 3 starts,
  a kill before any step.

Symmetry is declared for sets whose members are interchangeable, in the runs
without liveness properties only.

### Fairness

In `progress` the event loop resumes a coroutine whose statement has completed or
thrown (weak fairness of `Advance(r)` or `Answer(r)`, one formula for all steps
of a request; in the settings a failure may take the place of a result), time
passes for the settings and the rate limit, and an answer of Redis or an EXPIRE
under way arrives or is lost. Nothing is assumed of clients: no fairness for the
first statement of any request, and in the accounts none of failures. The
sessions need no fairness: `BarredTurnedAway` says of each step what may not
happen any more.

In `panel` only the templates have fairness (`TemplatesFair`): the clock goes on,
a request under way goes on, its fetch with one result or the other (the HTTP
client has a timeout), and the settings page is opened again and again (strong
fairness of `Arrive(v, "list")`: a catalog nobody asks for stays what it is).

### Findings

1. **A profile edit can lift a block** (`services/UserService.cc:174`). The
   comment at `controllers/web/v1/ProfileController.cc:46-47` says the profile
   form does not touch `blocked`. `updateProfile` writes back the whole row it
   read, so one that overlaps an admin's update writes the old bit.
   `UncontendedBlockHolds` is what remains true, and is proved.
2. **A logged-out token works on the API until it expires**
   (`filters/AuthFilter.cc:22`), against `AuthWebController.cc:127`.
   `LogoutHolds` is what remains true for the panel, and is proved.
3. **Two first loads of the permissions page insert every route twice**
   (`controllers/web/v1/AccessController.cc:438`): the code ignores the
   duplicate-key error that a non-unique index never raises.
4. **A deleted role goes on granting its permissions** on SQLite
   (`services/RoleService.cc:136`), whose `ON DELETE CASCADE` needs a PRAGMA
   nobody sends. `GrantsAreDeliberate` is what remains true, and is proved: the
   rows left behind give nobody a route they did not have.
5. **The bulk buttons do nothing** (`views/be/admin/layouts/foot.csp:199`). The
   components page says a button with `data-confirm` asks, then submits. The
   script submits the form and not the button: "Delete Selected" and
   "(Un)assign Selected", and the first row's "Delete", whose form is nested in
   that of the table and therefore dropped by browsers, ask for the list page
   again. `FormsReachTheirOperation` is what remains true, and is proved.
6. **Renaming and deleting a role asks for no permission**
   (`filters/RbacFilter.cc:36`), against `docs/ARCHITECTURE.md:117`. Their forms
   send `_method=PUT` and `DELETE` to paths registered as POST alone; the lookup
   of the changed method finds no name, and a request without one passes.
   `GuardNamesTheOperation` says of which requests this is so, and is proved.

### What else the models take from the code

Behaviours the modules contain that no run refutes a claim with, and that a
maintainer may want to know:

* The window of the rate limit is fixed (`filters/RateLimitFilter.cc:35`), where
  `RateLimitFilter.h:6` and `docs/ARCHITECTURE.md:25` call it sliding: around its
  end up to twice the limit passes within one window's length. `AtMostTwice` is
  what remains true, and is proved.
* The `mv` of the rewritten `config.json` is not looked at
  (`docker-entrypoint.sh:194`), so a container can serve on the configuration of
  its image, which the message three lines on means to rule out. `StartsAreComplete`
  is what remains true of a container that serves, and is proved.
* The login page shown after a wrong password is rendered in answer to a POST,
  for which CsrfFilter makes no token (`filters/CsrfFilter.cc:99-103`), so its
  form is refused with 403 until the page is loaded anew. `Csrf!LoginFails` is
  that step; `HonestFormsPass` speaks of forms a GET opened, and fails without
  that condition.
* Besides the forms of finding 6, RbacFilter lets these pass for want of a name:
  `delete_selected` of users and of permissions, a POST to a companion without
  `PUT` or `DELETE`, and one to the settings without `PUT` (`Nameless`). No
  form of a view sends them.
* MethodOverrideFilter changes the method of every POST, on literal paths too.
  A `_method` no form sends there, to `roles/store` or `delete_selected`, makes
  the registry name the operation of the pattern the path fits, which is not the
  one performed. `GuardNamesTheOperation` speaks of the others (`Expected`).
* API-only mode registers the pages of `registerAccessRoutes` as well
  (`main.cc:301-304`), and a login there redirects to a dashboard that is not
  registered.
* The links of roles and their permissions drop the status filter, those of all
  panel lists the page size: `WalkShowsEveryRow` claims "once" only where they
  keep both.
* Saving a user's form with no role checked keeps all the roles
  (`services/UserService.cc:138`), and one with more roles than the form
  offers drops those it did not offer.
* A removed user's role rows stay, and a creation overtaken by the removal of
  its user adds more (`services/UserService.cc:106`). No user is ever given a
  deleted id again.
* A local save does not notice a full disk (`Uploads!SaveLocal`), and nothing
  removes a file no row names any more.
* A home page template cut short by a crash or a full disk is served for ever
  after (`isCached` asks only whether the file exists); the catalog's file and
  the previews are checked.
* A lost EXPIRE refuses a client until Redis is restarted, and a request whose
  answer from Redis is lost passes although it was counted, over the limit or
  not (`filters/RateLimitFilter.cc:54`). The counter is keyed by the peer
  address, where CsrfFilter looks at `X-Forwarded-For`.
* Two overlapping setters of flash messages may pair one's kind with the
  other's text: `PageShowsItsMessage` asks nothing after an overlap.
* `parseMultipartAll` reads a file named like a field as that field, and finds
  nothing when a client quotes its boundary.
* A kill between the two lines of the secrets file, or a line that fails
  (`openssl`, a full disk), leaves a container that does not start again
  (`docker-entrypoint.sh:36`: the file is there, so it is not written). The seed, run at every start, creates a deleted administrator again
  with the seeded password, and gives him his role back.

## 4. What is proved

TLAPS checks these for every value of the constants, under the modules' named
assumptions only: `Null` is none of the other values, the bounds are natural
numbers, `"Active"` is a status, `"Administrator"` a role name, the shipped slug
is a slug, `Ttl > 0`, and no id is both a role's and a permission's. Those about
`panel` are named in `MCPanel`, where TLC evaluates them: an identifier in a
path, and the `{param}` of a pattern, equal no literal segment of a registered
path, and what is absent is no method and no name (`RouteAssumption`; identifiers are UUIDs,
and a template's slug or a file's name stands where no path has a literal); the
bounds of tables, clocks, starts, crashes, fields and messages are numbers; a
page, a window and the hours of Csrf are not empty; and `Null` is no key,
session, token, secret or kind of message.

| Theorem | States | Inductive invariant |
|---|---|---|
| `AccountsProofs!TypeCorrect` | `[]TypeOK` | `TypeInv`: the types, and which fields of a request are set while it waits for which statement |
| `AccountsProofs!IdentityIsUnique` | `[]IdentityUnique` | `IdInv`: adds that an id about to be inserted has no row, was never deleted and belongs to one request |
| `AccountsProofs!DeletionIsFinal` | `NoResurrection` | the same |
| `AccountsSafety!OtpIsSound` | `[]OtpSound` | `OtpInv`: every row a request is about to write also carries a pair that was issued, or none |
| `AccountsSafety!BlockHoldsWithoutRace` | `[]UncontendedBlockHolds` | `HeldInv`: every request about to write a held account's row carries the block |
| `AccountsSafety!RolesStayOneList` | `[]RolesAreOneList` | `RolesInv`: what the one save that is inserting has still to insert is missing from the user's roles, and no other save is inserting; an id that never had a row has no role rows, and no request but a creation names one |
| `AccountsSafety!RefinesUserStore` | `Spec => Store!Spec` | `IdInv`: every step is an `Open`, a `Rename`, a `Close` or a stutter of `UserStore` |
| `AccountsSafety!RefinesStanding` | `Spec => Account!Spec` | `IdInv` and `HeldInv`: every step is one of `Standing` or a stutter; a write that makes an account good again was read before the block, so the account is not held |
| `AccessProofs!TypeCorrect` | `[]TypeOK` | `Inv`: which fields a request waiting for which statement has set; the id of a role about to be inserted never had a row and belongs to one request; every table names only ids that had a row once |
| `AccessProofs!RoleNamesAreUnique` | `[]RoleNamesUnique` | the same |
| `AccessProofs!ListsStayExact` | `[]ListsAreExact` | the same: before the first insert, what is still to write is the whole list submitted |
| `AccessProofs!GainsAreDeliberate` | `GrantsAreDeliberate` | the same: an id that lost its row never has one again, so the rows left behind grant nothing to come |
| `WebSessionProofs!TypeCorrect`, `SettingCacheProofs!TypeCorrect` | `[]TypeOK` | the invariants below |
| `WebSessionProofs!BarringRunsOut` | `[]BarredRunsOut` | `Inv`: a slot about to sign owns its jti; no token outlives one `Lifetime` from now; nothing is about to be signed for a barred account |
| `WebSessionProofs!BarredAreTurnedAway` | `BarredTurnedAway` | the same: a token admitted is not expired, so its account was barred less than a `Lifetime` ago |
| `WebSessionProofs!LogoutIsFinal` | `[]LogoutHolds` | the same `Inv`: an entry carries its token's expiry, and a recorded logout has an entry |
| `WebSessionProofs!AccountsUnderSessions` | `Spec => Account!Spec` | the same `Inv`: no login, registration, request or logout moves an account except as `Standing` says |
| `WebSessionProofs!EveryDecisionIsFaced` | in every reachable state, each step `Standing` allows is one `WebSession` takes | none: by cases on the steps of `Standing` |
| `SettingCacheProofs!CacheCurrent` | `[]CacheIsCurrent` | a copy waiting to be stored equals the row unless a write overtook it |
| `SettingCacheProofs!TemplateOnDisk` | `[]ActiveTemplateOnDisk` | a row about to be written names a template that is ready or the one the row had |
| `RoutesProofs!FormsReach` | `[]FormsReachTheirOperation` | `RouteInv`: the request in flight fits the handler it was routed to, its name is one the registry gives its method and path, and while it has redirected no page, what it wants is what that handler does |
| `RoutesProofs!GuardNames` | `[]GuardNamesTheOperation` | the same: the method is the handler's, or one `_method` made of POST; for that method and path the registry has a name, the handler's own, or none, handler by handler |
| `RoutesProofs!RedirectsStop` | `[]RedirectsEnd` | the same: after the first redirect the request is a GET of a page; after the second, of the login page or the page to go back to, and it is sent on only if that page cannot be shown |
| `FilesProofs!OneSecret` | `[]SecretIsStable` | `StartInv`: what the environment gives and the secrets file holds decide one JWT secret; every step after the file is read carries it, and `ranWith` holds no other |
| `FilesProofs!ContainersAreSetUp` | `[]StartsAreComplete` | the same: each step of a container comes after what the earlier ones leave; a file without a line is still being written or was torn |
| `FilesProofs!RowsAreKept` | `BootKeepsRows` | the same: the steps that write rows insert or ignore |
| `FilesProofs!PicturesStayStored` | `[]PicturesAreStored` | `UploadInv`: every key a row or a form in flight holds is stored, whole unless the disk was full; a key on its way belongs to one form and no row; the key of an open page is no media file |
| `FilesProofs!PicturesStayTheirOwn` | `[]PicturesAreTheirOwn` | the same |
| `FilesProofs!NoHalfFiles` | `[]AnswersAreWhole` | `CatalogInv`: a template is cut only while a request fills it or when it is `broken`; a request that runs beside the writer says so; what each request holds at each step is what it may answer |
| `PanelProofs!HonestFormsAlwaysPass` | `[]HonestFormsPass` | `TokenInv`: a form opened by a GET carries the token of the moment it was opened in, and that moment is not in the future |
| `PanelProofs!SessionsStayApart` | `[]SessionsDoNotMix` | the same: an accepted form was sent in the session it was opened in |
| `PanelProofs!PagesShowTheirMessage` | `[]PageShowsItsMessage` | `MessageInv`: what the session holds while one request runs alone, step by step (`Standing`), and while none runs, unless requests overlapped since |
| `PanelProofs!SavedFormsKeepRoles` | `EditKeepsRoles` | `ListInv`: an open form has checked the roles held, up to those it offers |
| `PanelProofs!CatalogLinksAreInOrder` | `[]LinksAreInOrder` | the same: the page shown is one of the pager's pages; the sequence of links is taken part by part (`PartsInPlace`, `NumbersInOrder`) |
| `PanelProofs!WalksMissNoRow` | `[]WalkShowsEveryRow` | `WalkInv`: before each page, the rows with a place up to the offset have been shown, once each as long as the links kept size and filter, and no row after it |
| `PanelProofs!LimitHoldsTwice` | `[]AtMostTwice` | `RateInv`: in the last `n` ticks at most one limit, one more per restart and what the present counter has let through passed; without the one when the counter is younger than `n` ticks |
| `PanelProofs!PanelTypes` | `[]TypeOK` | the invariants above, and that of each remaining part |

Each proof has the same shape: `Init` implies the invariant; one lemma per
group of actions shows it is preserved; the temporal step combines the two.
The properties alone are not inductive: what a later write will do is in the
row a request holds, so each invariant speaks of requests in flight.

The parts of `panel` are proved as one specification: a step of the panel is a
step of one part and leaves the others alone (`TokenPart`, `ListsPart` and their
like), so each invariant is shown preserved by its own part's actions only.
`WalkInv` and `RateInv`, whose strengthening is least obvious, were checked by
TLC on the bounds of the run before they were proved. `WalksMissNoRow` was the
reason to say a page by places instead of by a filtered subsequence, and
`LimitHoldsTwice` to keep `recent` for every length up to `Window`: both are what
the induction is about.

**Accounts and sessions together.** The two are composed through `Standing`.
`Accounts` implements it (`RefinesStanding`, for every number of ids and
requests; TLC checks it in `accounts_reset`), and `WebSession` contains an
instance of it, makes no other change to an account (`AccountsUnderSessions`)
and takes every step it allows in every state of the sessions
(`EveryDecisionIsFaced`). So whatever the races over the users table do, the
sessions see it as steps `WebSession` was proved for, and `BarredRunsOut` and
`LogoutHolds` hold over the real table. (That conclusion is drawn from the three
theorems; the two modules are not put into one specification.) `TypeOK` and `UncontendedBlockHolds` of
`Accounts` are what make the mapping go through: an account that is held is one
no write in flight can make good.

**Routes.** Nothing in the tables is looked at twice by the prover: each handler
is a row (`HandlerTable`), two rows of one method whose patterns could fit one
path do the same or are a literal next to a `{param}` (`AllApart`), and so the
router's choice, exact path first, is unique as far as the operation goes
(`ChoicesAlike`, `Reached`). Every name of the registry is answered by a handler
(`NamesAnswered`), so the name found for the method the browser sent is the
handler's own (`GuardSame`), and the one found for the method `_method` made is
the operation the companion or the form goes on to (`GuardChanged`). Each link
and form is matched with its row once (`ClicksClicked`). Only then comes the
induction over the request in flight (`RouteInv`, which TLC checked first, on
the part's bounds). `RedirectsEnd` needs it most: that the third redirect has a
page that cannot be shown behind it follows from where the second one went, and
from the fact that what cannot be shown while a chain runs stays so
(`ViewableShrinks`).

Only model-checked:

* The liveness properties (`RequestsFinish`, `PagesCatchUp`, `CatalogRecovers`,
  `LimitLifts`), which the prover does not handle under fairness.
* `FormsReadBack`: what the parsers compute is defined by recursion over the
  body, and induction over data is out of the prover's reach.

## 5. Plan

What a later version would add:

1. The session as "served only while allowed", a specification `WebSession`
   implements up to one `Lifetime`.
2. `Routes` with `Access` in place of `may`, in the way accounts and sessions
   are put together above.
3. The API's routes and the values validation accepts.

## 6. Not modelled

Rendering, escaping, headers and component pages keep no state; of the views
only links, forms, tokens and messages are modelled. The SQL of filters and
sort orders is abstracted to which rows pass, in which order. The values
validation accepts, the url-encoded branch of the form helpers, single
configuration keys and the mapping of errors to status codes are left out. SQL,
Redis, the HTTP client, the ORM, Drogon's router and event loops, dbmate and the
browser are modelled by how the code uses them. bcrypt, HMAC, signatures and
JSON encoding are taken to do what they are for.
