------------------------------ MODULE Standing ------------------------------
(***************************************************************************)
(* What AuthService::login makes of an account: it accepts one whose       *)
(* status is Active and that is not blocked, and refuses or does not find  *)
(* any other.  This is all the sessions of a user depend on, so it is the  *)
(* seam between the two: Accounts implements it (ImplementsStanding), and  *)
(* WebSession takes its actions as the moves the accounts may make.        *)
(***************************************************************************)
CONSTANT Users

VARIABLES
    standing,   \* standing[u]: what login makes of user u
    held        \* the users whose block no pending write can lift

vars == <<standing, held>>

\* "refused": the status is not Active, or blocked is set.
Standings == {"none", "good", "refused", "removed"}

TypeOK ==
    /\ standing \in [Users -> Standings]
    /\ held \subseteq Users

Init ==
    /\ standing = [u \in Users |-> "none"]
    /\ held = {}

Becomes(u, s) == standing' = [standing EXCEPT ![u] = s]

\* An id is given out once: a removed user is not enrolled again.
Enroll(u) ==
    /\ standing[u] = "none"
    /\ Becomes(u, "good") \/ Becomes(u, "refused")
    /\ UNCHANGED held

\* Only an account that is not held gets back in.
Allow(u) ==
    /\ standing[u] = "refused" /\ u \notin held
    /\ Becomes(u, "good")
    /\ UNCHANGED held

Bar(u) ==
    /\ standing[u] = "good"
    /\ Becomes(u, "refused")
    /\ held' \in {held, held \cup {u}}

\* An admin blocks an account login already refused.
Hold(u) ==
    /\ standing[u] = "refused"
    /\ held' = held \cup {u}
    /\ UNCHANGED standing

\* Another update of the account is on its way (UserService::update).
Release(u) ==
    /\ standing[u] = "refused" /\ u \in held
    /\ held' = held \ {u}
    /\ UNCHANGED standing

Remove(u) ==
    /\ standing[u] \in {"good", "refused"}
    /\ Becomes(u, "removed")
    /\ UNCHANGED held

Next ==
    \E u \in Users :
        \/ Enroll(u) \/ Allow(u) \/ Bar(u) \/ Remove(u)
        \/ Hold(u) \/ Release(u)

Spec == Init /\ [][Next]_vars
=============================================================================
