----------------------------- MODULE MCMatching -----------------------------
(***************************************************************************)
(* Matching for TLC: four pets of every kind in pages of two.              *)
(***************************************************************************)
EXTENDS Matching

=============================================================================
