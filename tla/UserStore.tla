----------------------------- MODULE UserStore -----------------------------
(***************************************************************************)
(* What the users table promises to the rest of the panel, whatever the    *)
(* interleaving of the requests that write it: an account has an identity  *)
(* (email, code) nobody else holds, an id names one account for ever, and  *)
(* an account that was deleted never comes back.  Accounts.tla is the      *)
(* detailed specification that implements this one.                        *)
(***************************************************************************)
CONSTANTS
    Ids, Emails, Codes,
    Absent      \* no account; not an identity

VARIABLES
    account,    \* account[i]: the identity of the live account i, or Absent
    retired     \* the ids of the accounts that were deleted

vars == <<account, retired>>

Identity == [email : Emails, code : Codes]

TypeOK ==
    /\ account \in [Ids -> Identity \cup {Absent}]
    /\ retired \subseteq Ids

Init ==
    /\ account = [i \in Ids |-> Absent]
    /\ retired = {}

\* Nobody but i holds the email or the code of the identity n.
Unclaimed(i, n) ==
    \A j \in Ids \ {i} :
        account[j] # Absent =>
            account[j].email # n.email /\ account[j].code # n.code

Open(i, n) ==
    /\ account[i] = Absent
    /\ i \notin retired
    /\ Unclaimed(i, n)
    /\ account' = [account EXCEPT ![i] = n]
    /\ UNCHANGED retired

Rename(i, n) ==
    /\ account[i] # Absent
    /\ Unclaimed(i, n)
    /\ account' = [account EXCEPT ![i] = n]
    /\ UNCHANGED retired

Close(i) ==
    /\ account[i] # Absent
    /\ account' = [account EXCEPT ![i] = Absent]
    /\ retired' = retired \cup {i}

Next ==
    \E i \in Ids :
        \/ \E n \in Identity : Open(i, n) \/ Rename(i, n)
        \/ Close(i)

Spec == Init /\ [][Next]_vars
=============================================================================
