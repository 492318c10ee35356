------------------------------- MODULE MCChat -------------------------------
(***************************************************************************)
(* Chat for TLC: clocks with two readings, so that two messages can share  *)
(* a time and a later message can be stamped earlier.                      *)
(***************************************************************************)
EXTENDS Chat

TwoTimes == 1 .. 2

=============================================================================
