-------------------------------- MODULE Csrf --------------------------------
(***************************************************************************)
(* CsrfFilter: the token a form is given (generateToken) and the token a   *)
(* POST is asked for (doFilter).                                           *)
(*                                                                         *)
(* Nothing is stored: a token is a keyed hash of the session's jti or, for *)
(* a visitor without a session, of address, agent and hour.  A form stays  *)
(* open in a tab of the browser while the session begins, expires or ends  *)
(* in another, the hour changes, and the visitor's address does.  Tabs     *)
(* share the cookie and nothing else, so one form is enough.  A hash is    *)
(* its arguments: two are equal only for equal arguments.                  *)
(***************************************************************************)
EXTENDS Naturals

CONSTANTS
    Null,
    Sessions,       \* jtis
    Addresses,      \* what clientIp may find, with the agent
    MaxHour         \* bounds the clock

VARIABLES
    cookie,     \* the session of the browser's JWT cookie, or Null
    expired,    \* the JWT in the cookie has expired; the cookie may outlive it
    begun,      \* sessions that have begun
    address, hour,
    tab         \* what the tab shows

vars == <<cookie, expired, begun, address, hour, tab>>

Blank == [pc |-> "blank"]

\* The jti doFilter and generateToken find: a JWT that does not verify counts
\* as none.
Session == IF cookie # Null /\ ~expired THEN cookie ELSE Null

Now == [session |-> Session, address |-> address, hour |-> hour]

hmacCsrfToken(jti)      == <<"csrf", jti>>
loginCsrfToken(a, h)    == <<"login-csrf", a, h>>

generateToken ==
    IF Session # Null THEN hmacCsrfToken(Session) ELSE loginCsrfToken(address, hour)

\* Mutant: the hour before is not looked at.
PreviousIsNow(h) == h

Previous(h) == h - 1

Init ==
    /\ cookie = Null /\ expired = FALSE /\ begun = {}
    /\ address \in Addresses /\ hour = 1
    /\ tab = Blank

\* A page with a form.  since: how things stood, and by: what it was answered
\* to, for the properties.
Open ==
    /\ tab' = [pc |-> "open", token |-> generateToken, since |-> Now, by |-> "GET"]
    /\ UNCHANGED <<cookie, expired, begun, address, hour>>

\* Mutant: a session's form may also carry the token of a visitor.
AcceptsEither(token) ==
    \/ Session # Null /\ token = hmacCsrfToken(Session)
    \/ token = loginCsrfToken(address, hour)
    \/ token = loginCsrfToken(address, Previous(hour))

Accepts(token) ==
    IF Session # Null THEN token = hmacCsrfToken(Session)
    ELSE \/ token = loginCsrfToken(address, hour)
         \/ token = loginCsrfToken(address, Previous(hour))

\* doFilter on a POST; the page stays to be looked at.
Submit ==
    /\ tab.pc = "open"
    /\ tab' = [pc |-> IF Accepts(tab.token) THEN "accepted" ELSE "refused",
                since |-> tab.since, by |-> tab.by, sent |-> Now]
    /\ UNCHANGED <<cookie, expired, begun, address, hour>>

\* postLogin with a wrong password answers the POST with the login page.  The
\* filter makes tokens for a GET only: injectCsrf finds none, and timingSafeEq
\* accepts nothing for it.
LoginFails ==
    /\ tab.pc = "accepted"
    /\ tab' = [pc |-> "open", token |-> Null, since |-> Now, by |-> "POST"]
    /\ UNCHANGED <<cookie, expired, begun, address, hour>>

SignIn ==
    /\ cookie' \in Sessions \ begun /\ begun' = begun \cup {cookie'}
    /\ expired' = FALSE
    /\ UNCHANGED <<address, hour, tab>>

SignOut ==
    /\ Session # Null
    /\ cookie' = Null
    /\ UNCHANGED <<expired, begun, address, hour, tab>>

Expire ==
    /\ cookie # Null /\ ~expired /\ expired' = TRUE
    /\ UNCHANGED <<cookie, begun, address, hour, tab>>

Hour ==
    /\ hour < MaxHour /\ hour' = hour + 1
    /\ UNCHANGED <<cookie, expired, begun, address, tab>>

Move ==
    /\ address' \in Addresses \ {address}
    /\ UNCHANGED <<cookie, expired, begun, hour, tab>>

Next ==
    \/ Open \/ Submit \/ LoginFails \/ SignIn \/ SignOut \/ Expire \/ Hour \/ Move

-----------------------------------------------------------------------------
Submitted == tab.pc \in {"accepted", "refused"}

TypeOK ==
    /\ cookie \in Sessions \cup {Null} /\ expired \in BOOLEAN /\ begun \subseteq Sessions
    /\ address \in Addresses /\ hour \in 1..MaxHour
    /\ tab.pc \in {"blank", "open", "accepted", "refused"}

\* A form sent as it was opened: in the same session or, without one, from the
\* same address and at most an hour bucket later.
Honest ==
    LET was == tab.since  is == tab.sent
    IN  /\ was.session = is.session
        /\ was.session = Null => was.address = is.address /\ is.hour <= was.hour + 1

\* Nobody loses a form to the filter without cause: an honest one passes,
\* whatever other tabs opened and sent meanwhile, if a GET opened it.  (The
\* login page after a wrong password answers a POST and has no token: its form
\* is refused.)
HonestFormsPass == Submitted /\ Honest /\ tab.by = "GET" => tab.pc = "accepted"

\* A form passes only in the session it was opened in, if there is one now:
\* not one opened before signing in, nor one of a session that has ended.
SessionsDoNotMix ==
    Submitted /\ tab.pc = "accepted" => tab.since.session = tab.sent.session
=============================================================================
