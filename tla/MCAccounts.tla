----------------------------- MODULE MCAccounts -----------------------------
(* Instances of Accounts for TLC: symmetric sets of model values. *)
EXTENDS Accounts, TLC

Symmetry ==
    Permutations(Ids) \cup Permutations(Emails) \cup Permutations(Codes)
      \cup Permutations(Passwords) \cup Permutations(Otps)
      \cup Permutations(Roles) \cup Permutations(Requests)

\* Bounds a run with both: no one-time code is issued and no time passes where
\* roles are in play.  No statement touches both.
CodesOrRoles ==
    \/ clock = 0 /\ \A i \in Ids : issued[i] = {}
    \/ /\ \A i \in Ids : usersRoles[i] = {} /\ given[i] = {{}}
       /\ \A r \in Requests : req[r].roles = {}
=============================================================================
