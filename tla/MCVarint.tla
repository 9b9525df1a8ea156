------------------------------ MODULE MCVarint ------------------------------
(***************************************************************************)
(* Checks the codec operators of Varint.  They are constant-level, so the *)
(* behaviour is a single state and TLC evaluates each property once.      *)
(***************************************************************************)
EXTENDS Varint

VARIABLE checked

Init == checked = TRUE
Spec == Init /\ [][FALSE]_checked
=============================================================================
