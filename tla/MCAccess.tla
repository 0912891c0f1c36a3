------------------------------ MODULE MCAccess ------------------------------
(* Instances of Access for TLC: symmetric sets of model values. *)
EXTENDS Access, FiniteSets, TLC

Symmetry ==
    Permutations(Users) \cup Permutations(RoleIds) \cup Permutations(PermIds)
      \cup Permutations(Routes) \cup Permutations(Requests)

\* Bounds the rows a run creates: two roles and a permission, or a role and two
\* permissions.
ThreeIds == Cardinality(spent) <= 3
=============================================================================
