----------------------------- MODULE MCMatching -----------------------------
(***************************************************************************)
(* Matching for TLC.  Slots are interchangeable (users are not: ids are    *)
(* ordered); that is used only where nothing temporal is checked.          *)
(***************************************************************************)
EXTENDS Matching, TLC

CONSTANTS r1, r2

SlotSymmetry == Permutations(Request)
=============================================================================
