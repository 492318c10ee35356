------------------------------- MODULE MCPets -------------------------------
(***************************************************************************)
(* Pets for TLC: one place for a photo.                                    *)
(***************************************************************************)
EXTENDS Pets

CONSTANTS main

Slots == {main}

============================================================================
