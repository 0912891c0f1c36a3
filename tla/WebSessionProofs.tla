-------------------------- MODULE WebSessionProofs --------------------------
(***************************************************************************)
(* Proofs about WebSession, for any users, tokens, requests and lifetime.  *)
(***************************************************************************)
EXTENDS WebSession, TLAPS

\* A slot about to sign owns the jti it will sign; any other busy slot presents
\* a jti that is signed.
Slots ==
    \A r \in Requests :
        /\ At(r, "sign") =>
              /\ req[r].user \in Users /\ req[r].jti \in Tokens
              /\ token[req[r].jti] = Null
              /\ standing[req[r].user] # "none"
              /\ \A s \in Requests \ {r} : req[s].jti # req[r].jti
        /\ req[r].pc \in {"check", "revoke", "serve"} =>
              req[r].jti \in Tokens /\ token[req[r].jti] # Null

\* No token is signed for longer than one Lifetime from now.
Recent ==
    \A t \in Tokens : token[t] # Null => token[t].exp <= clock + Lifetime

\* No token is about to be signed for a barred account, and login refuses it.
BarredIdle ==
    \A u \in Users : barred[u] # Null =>
        standing[u] \in {"refused", "removed"} /\ ~Signing(u, {})

\* An entry of the blacklist carries the expiry of its token, and a logout
\* that was recorded, or that a request arrived after, has its entry.
Recorded ==
    /\ \A t \in Tokens : revoked[t] # Null =>
          token[t] # Null /\ revoked[t] = token[t].exp
    /\ \A t \in loggedOut : revoked[t] # Null
    /\ \A r \in Requests : req[r].after => req[r].jti \in loggedOut

Inv ==
    /\ TypeOK /\ Slots /\ Recent /\ BarredIdle /\ Recorded
    /\ BarredRunsOut /\ LogoutHolds

LEMMA IdleType == Idle \in Request /\ Idle.pc = "idle" /\ Idle.jti = Null /\ ~Idle.after
BY DEF Idle, Request

LEMMA SignedType ==
    ASSUME TypeOK, NEW u \in Users, NEW w \in BOOLEAN
    PROVE  /\ Signed(u, w) \in Claims
           /\ Signed(u, w) # Null
           /\ Signed(u, w).sub = u
           /\ Signed(u, w).exp = clock + Lifetime
BY NullAssumption, BoundAssumption DEF TypeOK, Account!TypeOK, Signed, Claims

LEMMA InitInv == Init => Inv
<1> SUFFICES ASSUME Init PROVE Inv
  OBVIOUS
<1>1. TypeOK
  BY IdleType DEF Init, Account!Init, TypeOK, Account!TypeOK, Account!Standings
<1>2. \A r \in Requests : req[r] = Idle
  BY DEF Init
<1>3. Slots /\ LogoutHolds /\ (\A r \in Requests : ~req[r].after)
  BY <1>2, IdleType DEF Slots, LogoutHolds, At
<1>4. Recent /\ BarredIdle /\ BarredRunsOut
  BY DEF Init, Recent, BarredIdle, BarredRunsOut
<1>5. Recorded
  BY <1>3 DEF Init, Recorded
<1> QED  BY <1>1, <1>3, <1>4, <1>5 DEF Inv

-----------------------------------------------------------------------------
(* What an admin decides changes standing and barred only. *)

LEMMA AccountStep ==
    ASSUME Inv, NEW u \in Users,
           Enroll(u) \/ Allow(u) \/ Bar(u) \/ Remove(u) \/ Mark(u)
    PROVE  Inv'
<1> USE DEF Account!Becomes
<1>1. UNCHANGED <<token, revoked, req, clock, loggedOut>>
  BY DEF Enroll, Allow, Bar, Remove, Mark, sessions
<1>2. (Recent /\ Recorded /\ LogoutHolds)'
  BY <1>1 DEF Inv, Recent, Recorded, LogoutHolds, At
\* What becomes of the standing and of barred, action by action.
<1>3. /\ standing[u] # "none" => standing'[u] # "none"
      /\ barred'[u] \in {barred[u], Null, BarredFrom(u)}
      /\ barred'[u] # Null => standing'[u] \in {"refused", "removed"}
      /\ barred' \in [Users -> Nat \cup {Null}]
      /\ standing' \in [Users -> Account!Standings]
      /\ \A v \in Users \ {u} : standing'[v] = standing[v] /\ barred'[v] = barred[v]
  <2> USE DEF Inv, TypeOK, Account!TypeOK, Account!Standings, BarredFrom
  <2>1. CASE Enroll(u)
    BY <2>1 DEF Enroll, Account!Enroll, BarredIdle
  <2>2. CASE Allow(u)
    BY <2>2 DEF Allow, Account!Allow
  <2>3. CASE Bar(u)
    BY <2>3 DEF Bar, Account!Bar
  <2>4. CASE Remove(u)
    BY <2>4 DEF Remove, Account!Remove
  <2>5. CASE Mark(u)
    BY <2>5 DEF Mark, Account!Hold, Account!Release, BarredIdle
  <2> QED  BY <2>1, <2>2, <2>3, <2>4, <2>5
<1>4. held' \subseteq Users
  BY DEF Inv, TypeOK, Account!TypeOK, Enroll, Account!Enroll, Allow, Account!Allow,
         Bar, Account!Bar, Remove, Account!Remove, Mark, Account!Hold, Account!Release
<1>5. TypeOK'
  BY <1>1, <1>3, <1>4 DEF Inv, TypeOK, Account!TypeOK
<1>6. Slots'
  BY <1>1, <1>3 DEF Inv, Slots, At
<1>7. \A v \in Users : Signing(v, {})' = Signing(v, {})
  BY <1>1 DEF Signing, At
<1>8. barred'[u] # Null /\ barred'[u] # barred[u] =>
         ~Signing(u, {}) /\ barred'[u] = clock
  BY <1>3 DEF BarredFrom
<1>9. BarredIdle'
  BY <1>3, <1>7, <1>8 DEF Inv, BarredIdle
<1>10. BarredRunsOut'
  BY <1>1, <1>3, <1>8 DEF Inv, BarredRunsOut, Recent
<1> QED  BY <1>2, <1>5, <1>6, <1>9, <1>10 DEF Inv

-----------------------------------------------------------------------------
(* Signing a token *)

\* The facts a freshly signed token leaves as they were.
LEMMA SignStep ==
    ASSUME Inv, NEW u \in Users, NEW t \in Tokens, NEW w \in BOOLEAN,
           token[t] = Null,
           \A r \in Requests : At(r, "sign")' => req'[r].jti # t,
           token' = [token EXCEPT ![t] = Signed(u, w)],
           UNCHANGED <<held, revoked, clock, loggedOut>>,
           \A r \in Requests :
               req'[r] = req[r] \/ req'[r] = Idle,
           req' \in [Requests -> Request],
           barred' \in [Users -> Nat \cup {Null}],
           standing' \in [Users -> Account!Standings],
           barred'[u] # Null => barred'[u] = clock,
           standing'[u] # "none",
           \A v \in Users \ {u} : barred'[v] = barred[v] /\ standing'[v] = standing[v],
           barred'[u] # Null => standing'[u] \in {"refused", "removed"}
                                /\ ~Signing(u, {})'
    PROVE  Inv'
<1>1. /\ token'[t] \in Claims /\ token'[t] # Null
      /\ token'[t].sub = u /\ token'[t].exp = clock + Lifetime
      /\ \A x \in Tokens \ {t} : token'[x] = token[x]
  BY SignedType DEF Inv, TypeOK, Account!TypeOK
<1>2. TypeOK'
  BY <1>1 DEF Inv, TypeOK, Account!TypeOK
<1>3. Slots'
  <2> SUFFICES ASSUME NEW r \in Requests
               PROVE  /\ At(r, "sign")' =>
                            /\ req'[r].user \in Users /\ req'[r].jti \in Tokens
                            /\ token'[req'[r].jti] = Null
                            /\ standing'[req'[r].user] # "none"
                            /\ \A s \in Requests \ {r} : req'[s].jti # req'[r].jti
                      /\ req'[r].pc \in {"check", "revoke", "serve"} =>
                            req'[r].jti \in Tokens /\ token'[req'[r].jti] # Null
    BY DEF Slots, At
  <2>1. CASE req'[r] = Idle
    BY <2>1, IdleType DEF At
  <2>2. CASE req'[r] = req[r]
    BY <1>1, <2>2, IdleType, NullAssumption DEF Inv, Slots, At
  <2> QED  BY <2>1, <2>2
<1>4. Recent'
  BY <1>1, BoundAssumption DEF Inv, TypeOK, Account!TypeOK, Recent
<1>5. BarredIdle'
  <2>1. \A v \in Users : Signing(v, {})' => Signing(v, {})
    BY IdleType DEF Signing, At
  <2> QED  BY <2>1 DEF Inv, BarredIdle
<1>6. Recorded'
  BY <1>1, IdleType DEF Inv, Recorded, TypeOK, Account!TypeOK
<1>7. BarredRunsOut'
  <2> SUFFICES ASSUME NEW v \in Users, NEW x \in Tokens,
                      barred'[v] # Null, token'[x] # Null, token'[x].sub = v
               PROVE  token'[x].exp <= barred'[v] + Lifetime
    BY DEF BarredRunsOut
  <2>1. token'[x].exp <= clock + Lifetime
    BY <1>4 DEF Recent
  <2>2. CASE v = u
    BY <2>1, <2>2
  <2>3. CASE v # u
    BY <1>1, <2>3 DEF Inv, BarredRunsOut
  <2> QED  BY <2>2, <2>3
<1>8. LogoutHolds'
  BY <1>1, IdleType DEF Inv, LogoutHolds, Recorded, Slots, At
<1> QED  BY <1>2, <1>3, <1>4, <1>5, <1>6, <1>7, <1>8 DEF Inv

\* A slot signs the jti it owns and is free again.
LEMMA IssueStep ==
    ASSUME Inv, NEW r \in Requests, Issue(r)
    PROVE  Inv'
<1>1. PICK u \in Users, t \in Tokens :
         /\ u = req[r].user /\ t = req[r].jti
         /\ token[t] = Null /\ standing[u] # "none"
         /\ \A s \in Requests \ {r} : req[s].jti # t
  BY DEF Issue, Inv, Slots
<1>2. PICK w \in BOOLEAN : w = req[r].web
  BY DEF Inv, TypeOK, Account!TypeOK, Request
<1>3. /\ token' = [token EXCEPT ![t] = Signed(u, w)]
      /\ barred' = [barred EXCEPT ![u] =
            IF @ = Null /\ standing[u] # "good" /\ ~Signing(u, {r}) THEN clock ELSE @]
      /\ req' = [req EXCEPT ![r] = Idle]
      /\ UNCHANGED <<standing, held, revoked, clock, loggedOut>>
  BY <1>1, <1>2 DEF Issue, Finish
<1>4. /\ req' \in [Requests -> Request]
      /\ req'[r] = Idle
      /\ \A s \in Requests \ {r} : req'[s] = req[s]
  BY <1>3, IdleType DEF Inv, TypeOK, Account!TypeOK
<1>5. \A s \in Requests : At(s, "sign")' => req'[s].jti # t
  BY <1>1, <1>4, IdleType DEF At
<1>6. standing' \in [Users -> Account!Standings] /\ barred' \in [Users -> Nat \cup {Null}]
  BY <1>3 DEF Inv, TypeOK, Account!TypeOK
<1>7. barred[u] = Null
  BY <1>1 DEF Inv, BarredIdle, Issue, Signing
<1>8. Signing(u, {})' => Signing(u, {r})
  BY <1>4, IdleType DEF Signing, At
<1>9. /\ barred'[u] # Null => barred'[u] = clock /\ standing[u] # "good" /\ ~Signing(u, {r})
      /\ \A v \in Users \ {u} : barred'[v] = barred[v]
  BY <1>7, <1>3 DEF Inv, TypeOK, Account!TypeOK
<1>10. barred'[u] # Null => standing'[u] \in {"refused", "removed"} /\ ~Signing(u, {})'
  BY <1>1, <1>3, <1>8, <1>9 DEF Inv, TypeOK, Account!TypeOK, Account!Standings
<1>11. \A s \in Requests : req'[s] = req[s] \/ req'[s] = Idle
  BY <1>4
<1>12. /\ token[t] = Null /\ standing'[u] # "none"
       /\ barred'[u] # Null => barred'[u] = clock
       /\ \A v \in Users \ {u} : barred'[v] = barred[v] /\ standing'[v] = standing[v]
       /\ UNCHANGED <<held, revoked, clock, loggedOut>>
  BY <1>1, <1>3, <1>9
<1> QED  BY <1>3, <1>4, <1>5, <1>6, <1>10, <1>11, <1>12, SignStep

-----------------------------------------------------------------------------
(* Requests *)

\* A slot that takes a request presenting the signed token t, or moves one on,
\* keeps the invariant if what it serves is allowed.
LEMMA SlotStep ==
    ASSUME Inv, NEW r \in Requests, NEW q \in Request,
           req' = [req EXCEPT ![r] = q],
           UNCHANGED <<standing, held, token, revoked, clock, barred, loggedOut>>,
           q.pc # "sign",
           q.pc # "idle" => q.jti \in Tokens /\ token[q.jti] # Null,
           q.pc = "idle" => q.jti = Null,
           q.after => q.jti \in loggedOut,
           q.pc = "serve" /\ q.web /\ q.after =>
               q.failedOpen \/ clock >= token[q.jti].exp
    PROVE  Inv'
<1>1. /\ req' \in [Requests -> Request]
      /\ req'[r] = q
      /\ \A s \in Requests \ {r} : req'[s] = req[s]
  BY DEF Inv, TypeOK, Account!TypeOK
<1>2. (TypeOK /\ Recent /\ BarredRunsOut)'
  BY <1>1 DEF Inv, TypeOK, Account!TypeOK, Recent, BarredRunsOut
<1>3. Slots'
  <2>1. ASSUME NEW s \in Requests \ {r}, At(s, "sign")
        PROVE  q.jti # req[s].jti
    BY <2>1, NullAssumption DEF Inv, Slots, Request
  <2> QED  BY <1>1, <2>1 DEF Inv, Slots, At, Request
<1>4. BarredIdle'
  BY <1>1 DEF Inv, BarredIdle, Signing, At
<1>5. Recorded'
  BY <1>1 DEF Inv, Recorded
<1>6. LogoutHolds'
  BY <1>1 DEF Inv, LogoutHolds, At
<1> QED  BY <1>2, <1>3, <1>4, <1>5, <1>6 DEF Inv

\* A request that is over leaves nothing behind in its slot.
LEMMA FinishStep ==
    ASSUME Inv, NEW r \in Requests, Finish(r),
           UNCHANGED <<standing, held, token, revoked, clock, barred, loggedOut>>
    PROVE  Inv'
BY IdleType, SlotStep DEF Finish, Idle

\* A login that is accepted, or a registration, takes a jti nobody holds.
LEMMA ClaimStep ==
    ASSUME Inv, NEW r \in Requests, NEW u \in Users, NEW t \in Tokens,
           NEW web \in BOOLEAN, Fresh(t), SignLater(r, u, t, web),
           standing' \in [Users -> Account!Standings],
           standing[u] \in {"none", "good"}, standing'[u] # "none",
           \A v \in Users \ {u} : standing'[v] = standing[v],
           UNCHANGED <<held, token, revoked, clock, barred, loggedOut>>
    PROVE  Inv'
<1> DEFINE q == [Idle EXCEPT !.pc = "sign", !.user = u, !.jti = t, !.web = web]
<1>1. q \in Request /\ q.pc = "sign" /\ q.user = u /\ q.jti = t /\ ~q.after
  BY DEF Idle, Request
<1>2. req' = [req EXCEPT ![r] = q]
  BY DEF SignLater
<1> HIDE DEF q
<1>3. /\ req' \in [Requests -> Request]
      /\ req'[r] = q
      /\ \A s \in Requests \ {r} : req'[s] = req[s]
  BY <1>1, <1>2 DEF Inv, TypeOK, Account!TypeOK
<1>4. (TypeOK /\ Recent /\ BarredRunsOut)'
  BY <1>3 DEF Inv, TypeOK, Account!TypeOK, Recent, BarredRunsOut
<1>5. Slots'
  BY <1>1, <1>3 DEF Inv, Slots, At, Fresh
<1>6. BarredIdle'
  <2>1. barred[u] = Null
    BY DEF Inv, BarredIdle
  <2>2. \A v \in Users \ {u} : Signing(v, {})' => Signing(v, {})
    BY <1>1, <1>3 DEF Signing, At
  <2> QED  BY <2>1, <2>2 DEF Inv, BarredIdle
<1>7. Recorded'
  BY <1>1, <1>3 DEF Inv, Recorded
<1>8. LogoutHolds'
  BY <1>1, <1>3 DEF Inv, LogoutHolds, At
<1> QED  BY <1>4, <1>5, <1>6, <1>7, <1>8 DEF Inv

LEMMA LoginReadStep == ASSUME Inv, NEW r \in Requests, LoginRead(r) PROVE Inv'
<1>1. PICK u \in Users, t \in Tokens, web \in BOOLEAN :
         standing[u] = "good" /\ Fresh(t) /\ SignLater(r, u, t, web)
  BY DEF LoginRead
<1>2. UNCHANGED <<standing, held, token, revoked, clock, barred, loggedOut>>
  BY DEF LoginRead
<1>3. standing' \in [Users -> Account!Standings] /\ \A v \in Users : standing'[v] = standing[v]
  BY <1>2 DEF Inv, TypeOK, Account!TypeOK
<1> QED  BY <1>1, <1>2, <1>3, ClaimStep

LEMMA RegisterStep == ASSUME Inv, NEW r \in Requests, Register(r) PROVE Inv'
<1>1. PICK u \in Users, t \in Tokens :
         /\ standing[u] = "none" /\ Fresh(t) /\ SignLater(r, u, t, TRUE)
         /\ standing' = [standing EXCEPT ![u] = "refused"]
  BY DEF Register, Account!Becomes
<1>2. UNCHANGED <<held, token, revoked, clock, barred, loggedOut>>
  BY DEF Register
<1>3. /\ standing' \in [Users -> Account!Standings] /\ standing'[u] = "refused"
      /\ \A v \in Users \ {u} : standing'[v] = standing[v]
  BY <1>1 DEF Inv, TypeOK, Account!TypeOK, Account!Standings
<1> QED  BY <1>1, <1>2, <1>3, ClaimStep

LEMMA VerifyStep ==
    ASSUME Inv, NEW r \in Requests, VerifyWeb(r) \/ VerifyApi(r)
    PROVE  Inv'
<1>1. UNCHANGED <<standing, held, token, revoked, clock, barred, loggedOut>>
  BY DEF VerifyWeb, VerifyApi
<1>2. PICK t \in Tokens, logout \in BOOLEAN, web \in BOOLEAN, s \in {"check", "serve"} :
         Valid(t) /\ Arrive(r, t, s, web, logout) /\ (s = "serve" => ~web)
  BY DEF VerifyWeb, VerifyApi
<1> DEFINE q == [pc |-> s, user |-> token[t].sub, jti |-> t, logout |-> logout,
                 web |-> web, after |-> t \in loggedOut, failedOpen |-> FALSE]
<1>3. token[t] # Null /\ token[t].sub \in Users
  BY <1>2 DEF Valid, Inv, TypeOK, Account!TypeOK, Claims
<1>4. (t \in loggedOut) \in BOOLEAN
  OBVIOUS
<1>5. q \in Request
  BY <1>3, <1>4 DEF Request
<1>6. /\ q.pc = s /\ q.jti = t /\ q.web = web /\ (q.after => t \in loggedOut)
      /\ req' = [req EXCEPT ![r] = q]
  BY <1>2 DEF Arrive
<1> QED  BY <1>1, <1>2, <1>3, <1>5, <1>6, SlotStep

\* The blacklist query: a token whose logout is recorded passes only in the
\* second of its expiry or later, or because the query threw.
LEMMA CheckStep == ASSUME Inv, NEW r \in Requests, CheckBlacklist(r) PROVE Inv'
<1>1. UNCHANGED <<standing, held, token, revoked, clock, barred, loggedOut>>
  BY DEF CheckBlacklist
<1> DEFINE t == req[r].jti
<1>2. req[r] \in Request /\ t \in Tokens /\ token[t] # Null
  BY DEF Inv, TypeOK, Account!TypeOK, Slots, CheckBlacklist, At
<1>3. token[t].exp \in Nat /\ clock \in Nat
  BY <1>2 DEF Inv, TypeOK, Account!TypeOK, Claims
<1>4. CASE Finish(r)
  BY <1>1, <1>4, FinishStep
<1>5. ASSUME NEW failed \in BOOLEAN, Admit(r, failed), ~failed => ~Blacklisted(t),
             ~Finish(r)
      PROVE  Inv'
  <2> DEFINE s == IF req[r].logout THEN "revoke" ELSE "serve"
             q == [req[r] EXCEPT !.pc = s, !.failedOpen = failed]
  <2>1. req' = [req EXCEPT ![r] = q]
    BY <1>5 DEF Admit, Inv, TypeOK, Account!TypeOK
  <2>2. /\ q \in Request /\ q.pc \in {"revoke", "serve"} /\ q.jti = t
        /\ q.after = req[r].after /\ q.failedOpen = failed
    BY <1>2 DEF Request
  <2>3. req[r].after => t \in loggedOut /\ revoked[t] = token[t].exp /\ revoked[t] # Null
    BY <1>2 DEF Inv, Recorded
  <2>4. req[r].after => failed \/ clock >= token[t].exp
    BY <1>3, <1>5, <2>3 DEF Blacklisted
  <2> HIDE DEF q
  <2> QED  BY <1>1, <1>2, <2>1, <2>2, <2>3, <2>4, SlotStep
<1> QED  BY <1>4, <1>5 DEF CheckBlacklist

LEMMA RevokeStep == ASSUME Inv, NEW r \in Requests, Revoke(r) PROVE Inv'
<1>1. PICK t \in Tokens : t = req[r].jti /\ token[t] # Null
  BY DEF Inv, Slots, Revoke, At
<1>2. /\ revoked' = [revoked EXCEPT ![t] = IF @ = Null THEN token[t].exp ELSE @]
      /\ loggedOut' = loggedOut \cup {t}
      /\ req' = [req EXCEPT ![r] = Idle]
      /\ UNCHANGED <<standing, held, token, clock, barred>>
  BY <1>1 DEF Revoke, Finish
<1>3. /\ req' \in [Requests -> Request]
      /\ req'[r] = Idle
      /\ \A s \in Requests \ {r} : req'[s] = req[s]
  BY <1>2, IdleType DEF Inv, TypeOK, Account!TypeOK
<1>4. token[t].exp \in Nat
  BY <1>1 DEF Inv, TypeOK, Account!TypeOK, Claims
<1>5. revoked'[t] = token[t].exp /\ revoked'[t] # Null
      /\ \A x \in Tokens \ {t} : revoked'[x] = revoked[x]
  BY <1>1, <1>2, <1>4, NullAssumption DEF Inv, TypeOK, Account!TypeOK, Recorded
<1>6. (TypeOK /\ Recent /\ BarredRunsOut)'
  BY <1>2, <1>3, <1>4 DEF Inv, TypeOK, Account!TypeOK, Recent, BarredRunsOut
<1>7. Slots'
  <2>1. ASSUME NEW s \in Requests, At(s, "sign") PROVE req[s].jti # Null
    BY <2>1, NullAssumption DEF Inv, Slots
  <2> QED  BY <1>2, <1>3, <2>1, IdleType DEF Inv, Slots, At
<1>8. BarredIdle'
  BY <1>2, <1>3, IdleType DEF Inv, BarredIdle, Signing, At
<1>9. Recorded'
  BY <1>1, <1>2, <1>3, <1>5, IdleType DEF Inv, Recorded, TypeOK, Account!TypeOK
<1>10. LogoutHolds'
  BY <1>2, <1>3, IdleType DEF Inv, LogoutHolds, At
<1> QED  BY <1>6, <1>7, <1>8, <1>9, <1>10 DEF Inv

LEMMA TickStep == ASSUME Inv, Tick PROVE Inv'
<1>1. /\ clock' = clock + 1
      /\ UNCHANGED <<standing, held, token, revoked, req, barred, loggedOut>>
  BY DEF Tick
<1>2. (TypeOK /\ Slots /\ BarredIdle /\ Recorded /\ BarredRunsOut)'
  BY <1>1 DEF Inv, TypeOK, Account!TypeOK, Slots, BarredIdle, Recorded, BarredRunsOut,
              Signing, At
<1>3. \A t \in Tokens : token[t] # Null => token[t].exp \in Nat
  BY DEF Inv, TypeOK, Account!TypeOK, Claims
<1>4. Recent'
  BY <1>1, <1>3, BoundAssumption DEF Inv, TypeOK, Account!TypeOK, Recent
<1>5. LogoutHolds'
  BY <1>1, <1>3 DEF Inv, TypeOK, Account!TypeOK, Slots, LogoutHolds, At
<1> QED  BY <1>2, <1>4, <1>5 DEF Inv

LEMMA StepInv == Inv /\ [Next]_vars => Inv'
<1> SUFFICES ASSUME Inv, [Next]_vars PROVE Inv'
  OBVIOUS
<1>1. ASSUME NEW u \in Users,
               Enroll(u) \/ Allow(u) \/ Bar(u) \/ Remove(u) \/ Mark(u)
      PROVE  Inv'
  BY <1>1, AccountStep
<1>2. ASSUME NEW r \in Requests, Register(r) PROVE Inv'
  BY <1>2, RegisterStep
<1>3. ASSUME NEW r \in Requests, LoginRead(r) PROVE Inv'
  BY <1>3, LoginReadStep
<1>4. ASSUME NEW r \in Requests, VerifyWeb(r) \/ VerifyApi(r) PROVE Inv'
  BY <1>4, VerifyStep
<1>5. ASSUME NEW r \in Requests, Issue(r) PROVE Inv'
  BY <1>5, IssueStep
<1>6. ASSUME NEW r \in Requests, CheckBlacklist(r) PROVE Inv'
  BY <1>6, CheckStep
<1>7. ASSUME NEW r \in Requests, Serve(r) \/ RevokeFails(r) PROVE Inv'
  BY <1>7, FinishStep DEF Serve, RevokeFails
<1>8. ASSUME NEW r \in Requests, Revoke(r) PROVE Inv'
  BY <1>8, RevokeStep
<1>9. CASE Tick
  BY <1>9, TickStep
<1>10. CASE UNCHANGED vars
  BY <1>10 DEF vars, Inv, TypeOK, Account!TypeOK, Slots, Recent, BarredIdle, Recorded,
               BarredRunsOut, LogoutHolds, Signing, At
<1> QED  BY <1>1, <1>2, <1>3, <1>4, <1>5, <1>6, <1>7, <1>8, <1>9, <1>10
         DEF Next, Answer

LEMMA AlwaysInv == Spec => []Inv
BY InitInv, StepInv, PTL DEF Spec

-----------------------------------------------------------------------------

\* Every variable keeps its type: a slot signs, queries or logs out with claims
\* the server issued, and the clock stays within its bound.
THEOREM TypeCorrect == Spec => []TypeOK
<1>1. Inv => TypeOK  BY DEF Inv
<1> QED  BY <1>1, AlwaysInv, PTL

\* However long tokens live and whoever logs in, an account that is barred
\* with no login or registration in flight has no token that outlives one
\* Lifetime from then.
THEOREM BarringRunsOut == Spec => []BarredRunsOut
<1>1. Inv => BarredRunsOut  BY DEF Inv
<1> QED  BY <1>1, AlwaysInv, PTL

\* A slot that was idle and now holds a request with a token took it in by one
\* of the two branches of AuthFilter, with a token that is valid.
LEMMA Admission ==
    ASSUME Inv, Next, NEW r \in Requests,
           At(r, "idle"), req'[r].pc \in {"check", "serve"}
    PROVE  \E t \in Tokens : Valid(t) /\ req'[r].user = token[t].sub
<1> USE DEF Inv, TypeOK
<1>1. CASE VerifyWeb(r) \/ VerifyApi(r)
  BY <1>1 DEF VerifyWeb, VerifyApi, Arrive
<1>2. CASE LoginRead(r) \/ Register(r)
  BY <1>2 DEF LoginRead, Register, SignLater, Idle
<1>3. CASE Answer(r)
  BY <1>3 DEF Answer, Issue, CheckBlacklist, Serve, Revoke, RevokeFails, At
<1>4. ASSUME NEW s \in Requests \ {r},
             LoginRead(s) \/ Register(s) \/ VerifyWeb(s) \/ VerifyApi(s) \/ Answer(s)
      PROVE  req'[r] = req[r]
  BY <1>4 DEF LoginRead, Register, SignLater, VerifyWeb, VerifyApi, Arrive, Answer,
     Issue, CheckBlacklist, Admit, Serve, Revoke, RevokeFails, Finish
<1>5. CASE Tick \/ \E u \in Users : Enroll(u) \/ Allow(u) \/ Bar(u) \/ Remove(u) \/ Mark(u)
  BY <1>5 DEF Tick, Enroll, Allow, Bar, Remove, Mark, sessions, At
<1> QED  BY <1>1, <1>2, <1>3, <1>4, <1>5 DEF Next, At

\* One Lifetime after an account is barred for good, neither branch of the
\* filter lets a request of it in, however long tokens live.
THEOREM BarredAreTurnedAway == Spec => BarredTurnedAway
<1>1. Inv /\ [Next]_vars =>
        [\A r \in Requests :
           At(r, "idle") /\ req'[r].pc \in {"check", "serve"} =>
               LET since == barred[req'[r].user] IN
               since # Null => clock <= since + Lifetime]_vars
  <2> SUFFICES ASSUME Inv, Next, NEW r \in Requests,
                      At(r, "idle"), req'[r].pc \in {"check", "serve"},
                      barred[req'[r].user] # Null
               PROVE  clock <= barred[req'[r].user] + Lifetime
    OBVIOUS
  <2>1. PICK t \in Tokens : Valid(t) /\ req'[r].user = token[t].sub
    BY Admission
  <2>2. token[t] \in Claims /\ clock <= token[t].exp /\ token[t].sub \in Users
    BY <2>1 DEF Valid, Inv, TypeOK, Claims
  <2>3. token[t].exp <= barred[token[t].sub] + Lifetime
    BY <2>1, <2>2 DEF Valid, Inv, BarredRunsOut
  <2>4. /\ token[t].exp \in Nat /\ clock \in Nat /\ Lifetime \in Nat
        /\ barred[token[t].sub] \in Nat
    BY <2>1, <2>2, BoundAssumption DEF Inv, TypeOK, Claims
  <2> QED  BY <2>1, <2>2, <2>3, <2>4
<1> QED  BY <1>1, AlwaysInv, PTL DEF Spec, BarredTurnedAway

\* A recorded logout ends the web life of its token at once, up to the second
\* of its expiry, whatever the interleaving of queries, logouts and the clock.
THEOREM LogoutIsFinal == Spec => []LogoutHolds
<1>1. Inv => LogoutHolds  BY DEF Inv
<1> QED  BY <1>1, AlwaysInv, PTL

-----------------------------------------------------------------------------
(* Sessions over the accounts *)

\* A session's step is a step of its account or none: a registration enrolls.
LEMMA AccountMoves == Inv /\ [Next]_vars => [Account!Next]_(Account!vars)
<1> SUFFICES ASSUME Inv, [Next]_vars PROVE [Account!Next]_(Account!vars)
  OBVIOUS
<1>1. ASSUME NEW u \in Users,
             Enroll(u) \/ Allow(u) \/ Bar(u) \/ Remove(u) \/ Mark(u)
      PROVE  Account!Next
  BY <1>1 DEF Enroll, Allow, Bar, Remove, Mark, Account!Next
<1>2. ASSUME NEW r \in Requests, Register(r) PROVE Account!Next
  BY <1>2 DEF Register, Account!Next, Account!Enroll
<1>3. ASSUME NEW r \in Requests,
             LoginRead(r) \/ VerifyWeb(r) \/ VerifyApi(r) \/ Answer(r)
      PROVE  UNCHANGED Account!vars
  BY <1>3 DEF LoginRead, VerifyWeb, VerifyApi, Answer, Issue, CheckBlacklist,
              Serve, Revoke, RevokeFails, Account!vars
<1>4. CASE Tick \/ UNCHANGED vars
  BY <1>4 DEF Tick, vars, Account!vars
<1> QED  BY <1>1, <1>2, <1>3, <1>4 DEF Next

\* Under the sessions, the accounts are those of Standing and no others.
THEOREM AccountsUnderSessions == Spec => Account!Spec
<1>1. Init => Account!Init
  BY DEF Init
<1> QED  BY <1>1, AlwaysInv, AccountMoves, PTL DEF Spec, Account!Spec

\* What barred becomes at a step of the account of u.
Decided(u) ==
    barred' = [barred EXCEPT ![u] =
        IF standing'[u] = standing[u] THEN @
        ELSE CASE standing'[u] = "removed" -> (IF @ = Null THEN BarredFrom(u) ELSE @)
               [] standing'[u] = "refused" /\ standing[u] = "good" -> BarredFrom(u)
               [] standing'[u] = "good" -> Null
               [] OTHER -> @]

\* Whatever step the accounts can take, in whatever state of the sessions,
\* is one the sessions are checked and proved against: WebSession leaves out
\* no move of Standing, so what holds of it holds over every implementation
\* of Standing - the users table of Accounts is one (RefinesStanding).
THEOREM EveryDecisionIsFaced ==
    ASSUME Inv, NEW u \in Users,
           \/ Account!Enroll(u) \/ Account!Allow(u) \/ Account!Bar(u)
           \/ Account!Remove(u) \/ Account!Hold(u) \/ Account!Release(u),
           Decided(u), UNCHANGED sessions
    PROVE  Next
<1> USE DEF Decided, Account!Becomes, Inv, TypeOK, Account!TypeOK, Account!Standings
<1>1. ASSUME barred' = [barred EXCEPT ![u] = barred[u]] PROVE barred' = barred
  BY <1>1
<1>2. CASE Account!Enroll(u)
  <2>1. standing[u] = "none" /\ standing'[u] \in {"good", "refused"} /\ barred[u] = Null
    BY <1>2 DEF Account!Enroll, BarredIdle
  <2>2. barred' = [barred EXCEPT ![u] = barred[u]]
    BY <2>1
  <2> QED  BY <1>1, <1>2, <2>2 DEF Enroll, Next
<1>3. CASE Account!Allow(u)
  <2>1. barred' = [barred EXCEPT ![u] = Null]
    BY <1>3 DEF Account!Allow
  <2> QED  BY <1>3, <2>1 DEF Allow, Next
<1>4. CASE Account!Bar(u)
  <2>1. barred' = [barred EXCEPT ![u] = BarredFrom(u)]
    BY <1>4 DEF Account!Bar
  <2> QED  BY <1>4, <2>1 DEF Bar, Next
<1>5. CASE Account!Remove(u)
  <2>1. barred' = [barred EXCEPT ![u] = IF @ = Null THEN BarredFrom(u) ELSE @]
    BY <1>5 DEF Account!Remove
  <2> QED  BY <1>5, <2>1 DEF Remove, Next
<1>6. CASE Account!Hold(u) \/ Account!Release(u)
  <2>1. barred' = [barred EXCEPT ![u] = barred[u]]
    BY <1>6 DEF Account!Hold, Account!Release
  <2> QED  BY <1>1, <1>6, <2>1 DEF Mark, Next
<1> QED  BY <1>2, <1>3, <1>4, <1>5, <1>6
=============================================================================
