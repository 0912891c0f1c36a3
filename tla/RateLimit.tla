----------------------------- MODULE RateLimit -----------------------------
(***************************************************************************)
(* ratelimit::doRateLimit: INCR on a counter in redis, EXPIRE when the     *)
(* count is 1, refusal when it is over the limit.  The module follows one  *)
(* counter, that of one path and one peer address.                         *)
(*                                                                         *)
(* The two commands are apart: the answer to INCR comes back to the        *)
(* server, which sends EXPIRE and does not wait for it.  Either may be     *)
(* lost, and redis may be restarted (the one in the container keeps        *)
(* nothing).  Without an answer the request passes: the limiter fails      *)
(* open.                                                                   *)
(***************************************************************************)
EXTENDS Naturals

CONSTANTS
    Calls,            \* slots for requests in flight
    Limit, Window,    \* maxRequests; windowSecs, in ticks
    MaxRestarts       \* bounds the restarts of redis

VARIABLES
    count,       \* redis: the counter, 0 when the key is absent
    ttl,         \* redis: ticks the key has left, 0 when it has no expiry
    call,        \* call[c]: the count a request waits for or has, its outcome
    expiring,    \* an EXPIRE is under way
    lost,        \* history: an EXPIRE of this counter was lost
    recent,      \* history: requests counted within the limit, last 1..Window ticks
    restarts

vars == <<count, ttl, call, expiring, lost, recent, restarts>>

Idle == [pc |-> "idle", count |-> 0]
At(c, p) == call[c].pc = p

Init ==
    /\ count = 0 /\ ttl = 0
    /\ call = [c \in Calls |-> Idle]
    /\ expiring = FALSE /\ lost = FALSE
    /\ recent = [age \in 1..Window |-> 0]
    /\ restarts = 0

\* Mutant: EXPIRE is sent with every request.
StartsAgain(n) == n >= 1

Starts(n)  == n = 1
\* Mutant: the limit is passed by one.
TooManyLate(n) == n > Limit + 1

TooMany(n) == n > Limit

\* The counter stands still at Limit + 1, for every count over the limit is alike.
Incr(c) ==
    LET n == IF count > Limit THEN count ELSE count + 1 IN
    /\ At(c, "idle")
    /\ count' = n
    /\ call' = [call EXCEPT ![c] = [pc |-> "incr", count |-> n]]
    /\ recent' = [age \in 1..Window |-> recent[age] + (IF TooMany(n) THEN 0 ELSE 1)]
    /\ UNCHANGED <<ttl, expiring, lost, restarts>>

\* Without redis, or when it answers with an error, the request passes.
FailOpen(c) ==
    /\ At(c, "idle")
    /\ call' = [call EXCEPT ![c].pc = "passed"]
    /\ UNCHANGED <<count, ttl, expiring, lost, recent, restarts>>

\* The answer to INCR.
Judge(c) ==
    LET n == call[c].count IN
    /\ At(c, "incr")
    /\ expiring' = (expiring \/ Starts(n))
    /\ call' = [call EXCEPT ![c].pc = IF TooMany(n) THEN "refused" ELSE "passed"]
    /\ UNCHANGED <<count, ttl, lost, recent, restarts>>

\* The answer is lost and the request passes whatever its count, or the server
\* stops before it comes.
AnswerLost(c) ==
    /\ At(c, "incr")
    /\ \/ call' = [call EXCEPT ![c].pc = "passed"]
       \/ call' = [call EXCEPT ![c] = Idle]
    /\ lost' = (lost \/ Starts(call[c].count))
    /\ UNCHANGED <<count, ttl, expiring, recent, restarts>>

\* Its error is ignored.
ExpireLost ==
    /\ expiring /\ expiring' = FALSE
    /\ lost' = TRUE
    /\ UNCHANGED <<count, ttl, call, recent, restarts>>

ExpireArrives ==
    /\ expiring /\ expiring' = FALSE
    /\ ttl' = IF count > 0 THEN Window ELSE 0
    /\ UNCHANGED <<count, call, lost, recent, restarts>>

Respond(c) ==
    /\ call[c].pc \in {"passed", "refused"}
    /\ call' = [call EXCEPT ![c] = Idle]
    /\ UNCHANGED <<count, ttl, expiring, lost, recent, restarts>>

\* A tick begins: redis drops the key when its time is up.
Tick ==
    /\ ttl' = IF ttl > 0 THEN ttl - 1 ELSE 0
    /\ count' = IF ttl = 1 THEN 0 ELSE count
    /\ lost' = (lost /\ ttl # 1)
    /\ recent' = [age \in 1..Window |-> IF age = 1 THEN 0 ELSE recent[age - 1]]
    /\ UNCHANGED <<call, expiring, restarts>>

RedisRestarts ==
    /\ restarts < MaxRestarts /\ restarts' = restarts + 1
    /\ ttl' = 0 /\ count' = 0 /\ lost' = FALSE
    /\ UNCHANGED <<call, expiring, recent>>

Next ==
    \/ \E c \in Calls : Incr(c) \/ FailOpen(c) \/ Judge(c) \/ AnswerLost(c) \/ Respond(c)
    \/ ExpireLost \/ ExpireArrives \/ Tick \/ RedisRestarts

Spec == Init /\ [][Next]_vars

\* The clock goes on, the answers of redis reach the server or are lost, and an
\* EXPIRE that was sent arrives or is lost.
FairSpec == Spec /\ WF_vars(Tick) /\ WF_vars(ExpireArrives) /\ \A c \in Calls : WF_vars(Judge(c))

-----------------------------------------------------------------------------
TypeOK ==
    /\ count \in 0..(Limit + 1) /\ ttl \in 0..Window
    /\ \A c \in Calls : call[c].pc \in {"idle", "incr", "passed", "refused"}
    /\ expiring \in BOOLEAN /\ lost \in BOOLEAN

\* The window is fixed, not sliding: of the requests that do not fail open,
\* those a count within the limit lets through, at most two limits' worth come
\* within any window, and one more for each restart of redis, however INCR and
\* EXPIRE interleave: a late EXPIRE may lengthen a window and never shortens one
\* (RateLimitFilter.cc:29-53).  Those redis does not answer pass besides, even
\* when it counted them (54-57).
AtMostTwice == recent[Window] <= (2 + restarts) * Limit

\* A refusal ends: a counter over the limit is dropped in time, however many
\* requests keep coming, unless its EXPIRE was lost.
LimitLifts == count > Limit ~> count <= Limit \/ lost
=============================================================================
