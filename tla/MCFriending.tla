---------------------------- MODULE MCFriending ----------------------------
(***************************************************************************)
(* Friending for TLC: the pets of one pair.                                *)
(***************************************************************************)
EXTENDS Friending, TLC

\* Sound for the safety runs in which both pets run the same app.
PetSymmetry == Permutations(Pet)

============================================================================
