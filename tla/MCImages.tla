------------------------------ MODULE MCImages ------------------------------
(***************************************************************************)
(* Two rows and two photos.                                                *)
(***************************************************************************)
EXTENDS Images

CONSTANTS row1, row2, photo1, photo2

Rows == {row1, row2}
Photos == {photo1, photo2}
=============================================================================
