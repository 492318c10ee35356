------------------------------ MODULE MCOwner ------------------------------
(***************************************************************************)
(* Owner for TLC: two accounts, which nothing tells apart.                 *)
(***************************************************************************)
EXTENDS Owner, TLC

CONSTANTS u, v

Accounts == {u, v}

Symmetry == Permutations(Accounts)

============================================================================
