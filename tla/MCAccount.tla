------------------------------ MODULE MCAccount ------------------------------
(***************************************************************************)
(* Account for TLC.                                                        *)
(***************************************************************************)
EXTENDS Account, TLC

CONSTANTS r1, r2, p1, p2

Symmetry == Permutations(Request) \cup Permutations(Password)
=============================================================================
