----------------------------- MODULE WebSession -----------------------------
(***************************************************************************)
(* The life of a JWT: issued by a login or a registration, presented to    *)
(* AuthFilter by the requests of the web panel and of the API, put on the  *)
(* blacklist by a logout.  Nothing looks the account up again once its     *)
(* token is signed, so what an admin decides about the account reaches its *)
(* sessions only through the tokens' expiry.  The accounts themselves move *)
(* as Standing says, which is all of Accounts that a session can notice.   *)
(*                                                                         *)
(* Between the statement that reads (or inserts) the account and the       *)
(* signature lie the resumption of the coroutine and, for a web login, the *)
(* await of the user's roles; between the verification of a cookie and its *)
(* handler lies the await of the blacklist query.                          *)
(***************************************************************************)
EXTENDS Naturals

CONSTANTS
    Users,
    Tokens,       \* the jtis: fresh UUIDs in the code
    Requests,     \* slots for requests in flight
    Null,
    Lifetime,     \* jwtExpireSeconds, in ticks of the clock
    MaxClock,     \* bound on the clock
    DbFails       \* may a statement on jwt_blacklist throw?

ASSUME NullAssumption ==
    /\ Null \notin Users \cup Tokens \cup Nat
    /\ Null \notin [sub : Users, exp : Nat, web : BOOLEAN]

ASSUME BoundAssumption ==
    /\ Lifetime \in Nat /\ MaxClock \in Nat
    /\ DbFails \in BOOLEAN

VARIABLES
    standing,     \* standing[u]: would AuthService::login accept user u?
    held,         \* the users whose block no pending write can lift
    token,        \* token[t]: the claims signed for jti t, or Null
    revoked,      \* jwt_blacklist: its expires_at for jti t, or Null
    req,          \* req[r]: the request in slot r
    clock,        \* the time the handlers and the database read
    barred,       \* history: since when login refuses user u and no token of
                  \* theirs is about to be signed, or Null
    loggedOut     \* history: the jtis whose logout reached the blacklist

vars == <<standing, held, token, revoked, req, clock, barred, loggedOut>>

\* The accounts: Accounts implements this specification.
Account == INSTANCE Standing

Claims == [sub : Users, exp : Nat, web : BOOLEAN]

Request ==
    [pc : {"idle", "sign", "check", "revoke", "serve"},
     user : Users \cup {Null}, jti : Tokens \cup {Null},
     logout : BOOLEAN,       \* POST /auth/logout, or any other page
     web : BOOLEAN,          \* of the panel, or of the API
     after : BOOLEAN,        \* history: arrived after the logout of its jti
     failedOpen : BOOLEAN]   \* history: the blacklist query threw

Idle == [pc |-> "idle", user |-> Null, jti |-> Null, logout |-> FALSE,
         web |-> FALSE, after |-> FALSE, failedOpen |-> FALSE]

TypeOK ==
    /\ Account!TypeOK
    /\ token \in [Tokens -> Claims \cup {Null}]
    /\ revoked \in [Tokens -> Nat \cup {Null}]
    /\ req \in [Requests -> Request]
    /\ clock \in Nat
    /\ barred \in [Users -> Nat \cup {Null}]
    /\ loggedOut \in SUBSET Tokens

Init ==
    /\ Account!Init
    /\ token = [t \in Tokens |-> Null]
    /\ revoked = [t \in Tokens |-> Null]
    /\ req = [r \in Requests |-> Idle]
    /\ clock = 0
    /\ barred = [u \in Users |-> Null]
    /\ loggedOut = {}

-----------------------------------------------------------------------------
(* Tokens *)

\* A jti newUuid has never returned.
Fresh(t) == token[t] = Null /\ \A r \in Requests : req[r].jti # t

\* Mutant: the payload goes out without its exp.
SignedForEver(u, web) == [sub |-> u, exp |-> Null, web |-> web]

Signed(u, web) == [sub |-> u, exp |-> clock + Lifetime, web |-> web]

\* Mutant: verify checks the signature alone.
ValidWhenSigned(t) == token[t] # Null

\* jwt_helper::verify: the last second of a token is the second exp itself.
Valid(t) == token[t] # Null /\ clock <= token[t].exp

\* Mutant: entries are looked up by the wrong side of their expiry.
OutlivedEntries(t) == revoked[t] # Null /\ revoked[t] <= clock

\* JwtBlacklist::isBlacklisted: an entry counts until its expiry, exclusive.
Blacklisted(t) == revoked[t] # Null /\ revoked[t] > clock

\* Bound: a token is only signed when it can also expire within MaxClock.
TokenFits == clock + Lifetime < MaxClock

At(r, s)  == req[r].pc = s
Finish(r) == req' = [req EXCEPT ![r] = Idle]

\* The users a request is about to sign a token for, but for those of R.
Signing(u, R) == \E r \in Requests \ R : At(r, "sign") /\ req[r].user = u

-----------------------------------------------------------------------------
(* Accounts, as AuthService::login sees them *)

sessions == <<token, revoked, req, clock, loggedOut>>

\* Created by an admin, or by an API registration, which signs no token.
Enroll(u) == Account!Enroll(u) /\ UNCHANGED <<sessions, barred>>

Allow(u) ==
    /\ Account!Allow(u)
    /\ barred' = [barred EXCEPT ![u] = Null]
    /\ UNCHANGED sessions

\* History: while a token is about to be signed, nothing is claimed.
BarredFrom(u) == IF Signing(u, {}) THEN Null ELSE clock

\* An update that blocks or deactivates the account.
Bar(u) ==
    /\ Account!Bar(u)
    /\ barred' = [barred EXCEPT ![u] = BarredFrom(u)]
    /\ UNCHANGED sessions

Remove(u) ==
    /\ Account!Remove(u)
    /\ barred' = [barred EXCEPT ![u] = IF @ = Null THEN BarredFrom(u) ELSE @]
    /\ UNCHANGED sessions

\* An update blocks an account login refuses already, or another begins.
Mark(u) ==
    /\ Account!Hold(u) \/ Account!Release(u)
    /\ UNCHANGED <<sessions, barred>>

-----------------------------------------------------------------------------
(* Logins and registrations *)

SignLater(r, u, t, web) ==
    req' = [req EXCEPT ![r] =
              [Idle EXCEPT !.pc = "sign", !.user = u, !.jti = t, !.web = web]]

\* Mutant: login no longer looks at status and blocked.
LoginReadAnyone(r) ==
    /\ At(r, "idle") /\ TokenFits
    /\ \E u \in Users, t \in Tokens, web \in BOOLEAN :
          /\ standing[u] \notin {"none", "removed"}
          /\ Fresh(t)
          /\ SignLater(r, u, t, web)
    /\ UNCHANGED <<standing, held, token, revoked, clock, barred, loggedOut>>

\* The SELECT finds an account AuthService::login accepts.  An API token
\* carries no jti: there t stands for its signature.
LoginRead(r) ==
    /\ At(r, "idle") /\ TokenFits
    /\ \E u \in Users, t \in Tokens, web \in BOOLEAN :
          /\ standing[u] = "good"
          /\ Fresh(t)
          /\ SignLater(r, u, t, web)
    /\ UNCHANGED <<standing, held, token, revoked, clock, barred, loggedOut>>

\* The INSERT of registerUser stores the status "active", which login does
\* not accept; postRegister then signs a token all the same.
Register(r) ==
    /\ At(r, "idle") /\ TokenFits
    /\ \E u \in Users, t \in Tokens :
          /\ standing[u] = "none"
          /\ Fresh(t)
          /\ Account!Becomes(u, "refused")
          /\ SignLater(r, u, t, TRUE)
    /\ UNCHANGED <<held, token, revoked, clock, barred, loggedOut>>

\* Whether or not the roles could be read, the token is signed.
Issue(r) ==
    /\ At(r, "sign")
    /\ LET u == req[r].user IN
       /\ token' = [token EXCEPT ![req[r].jti] = Signed(u, req[r].web)]
       /\ barred' = [barred EXCEPT ![u] =
              IF @ = Null /\ standing[u] # "good" /\ ~Signing(u, {r}) THEN clock ELSE @]
    /\ Finish(r)
    /\ UNCHANGED <<standing, held, revoked, clock, loggedOut>>

-----------------------------------------------------------------------------
(* Requests that present a token *)

Arrive(r, t, s, web, logout) ==
    req' = [req EXCEPT ![r] =
              [pc |-> s, user |-> token[t].sub, jti |-> t, logout |-> logout,
               web |-> web, after |-> t \in loggedOut, failedOpen |-> FALSE]]

\* AuthFilter, web branch, up to the await of the blacklist query.
VerifyWeb(r) ==
    /\ At(r, "idle")
    /\ \E t \in Tokens, logout \in BOOLEAN :
          /\ Valid(t) /\ token[t].web
          /\ Arrive(r, t, "check", TRUE, logout)
    /\ UNCHANGED <<standing, held, token, revoked, clock, barred, loggedOut>>

\* AuthFilter, API branch: a Bearer token of either kind, no blacklist.
VerifyApi(r) ==
    /\ At(r, "idle")
    /\ \E t \in Tokens :
          /\ Valid(t)
          /\ Arrive(r, t, "serve", FALSE, FALSE)
    /\ UNCHANGED <<standing, held, token, revoked, clock, barred, loggedOut>>

\* The handler runs.  Logout verifies the token once more (CsrfFilter and
\* postLogout) and has nothing to revoke when it expired during the query.
Admit(r, failed) ==
    IF req[r].logout /\ ~Valid(req[r].jti) THEN Finish(r)
    ELSE req' = [req EXCEPT
                   ![r].pc = IF req[r].logout THEN "revoke" ELSE "serve",
                   ![r].failedOpen = failed]

CheckBlacklist(r) ==
    /\ At(r, "check")
    /\ \/ Blacklisted(req[r].jti) /\ Finish(r)
       \/ ~Blacklisted(req[r].jti) /\ Admit(r, FALSE)
       \/ DbFails /\ Admit(r, TRUE)
    /\ UNCHANGED <<standing, held, token, revoked, clock, barred, loggedOut>>

Serve(r) ==
    /\ At(r, "serve")
    /\ Finish(r)
    /\ UNCHANGED <<standing, held, token, revoked, clock, barred, loggedOut>>

\* INSERT OR IGNORE: the first entry of a jti stays.
Revoke(r) ==
    /\ At(r, "revoke")
    /\ LET t == req[r].jti IN
       /\ revoked' = [revoked EXCEPT ![t] = IF @ = Null THEN token[t].exp ELSE @]
       /\ loggedOut' = loggedOut \cup {t}
    /\ Finish(r)
    /\ UNCHANGED <<standing, held, token, clock, barred>>

\* The user is told "logged out", the token lives on.
RevokeFails(r) ==
    /\ At(r, "revoke")
    /\ DbFails
    /\ Finish(r)
    /\ UNCHANGED <<standing, held, token, revoked, clock, barred, loggedOut>>

\* Bound: a token about to be signed is signed while it fits.
Tick ==
    /\ clock < MaxClock
    /\ (\E u \in Users : Signing(u, {})) => clock + Lifetime + 1 < MaxClock
    /\ clock' = clock + 1
    /\ UNCHANGED <<standing, held, token, revoked, req, barred, loggedOut>>

-----------------------------------------------------------------------------

Answer(r) == Issue(r) \/ CheckBlacklist(r) \/ Serve(r) \/ Revoke(r) \/ RevokeFails(r)

Next ==
    \/ \E u \in Users : Enroll(u) \/ Allow(u) \/ Bar(u) \/ Remove(u) \/ Mark(u)
    \/ \E r \in Requests :
          \/ LoginRead(r) \/ Register(r) \/ VerifyWeb(r) \/ VerifyApi(r)
          \/ Answer(r)
    \/ Tick

Spec == Init /\ [][Next]_vars

-----------------------------------------------------------------------------
(* Properties *)

\* Once login refuses an account (blocked, deactivated, removed, just
\* registered) and the logins and registrations that raced the decision are
\* answered, every token it ever had expires within one Lifetime
\* (AuthWebController.cc:66-83 and 116-118, AuthService.cc:65-71).
BarredRunsOut ==
    \A u \in Users, t \in Tokens :
        barred[u] # Null /\ token[t] # Null /\ token[t].sub = u =>
            token[t].exp <= barred[u] + Lifetime

\* After a logout that reached the blacklist, no page of the panel is served
\* to its token before the second the token expires in, however the query
\* races the clock and other logouts - unless the query itself fails
\* (AuthFilter.cc:41-62, JwtBlacklist.h:11-27).
LogoutHolds ==
    \A r \in Requests :
        At(r, "serve") /\ req[r].web /\ req[r].after =>
            req[r].failedOpen \/ clock >= token[req[r].jti].exp

\* The sessions of a barred account do end: although no request looks the
\* account up, one Lifetime later neither the panel nor the API lets a request
\* of it in (AuthFilter.cc:16-62, JwtHelper.h:108-147).
BarredTurnedAway ==
    [][\A r \in Requests :
          At(r, "idle") /\ req'[r].pc \in {"check", "serve"} =>
              LET since == barred[req'[r].user] IN
              since # Null => clock <= since + Lifetime]_vars

\* "Blacklist the current JWT so it cannot be reused before natural expiry"
\* (AuthWebController.cc:127).
LoggedOutNeverReused ==
    \A r \in Requests :
        At(r, "serve") /\ req[r].after /\ ~req[r].failedOpen =>
            clock >= token[req[r].jti].exp
=============================================================================
