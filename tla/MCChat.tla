------------------------------- MODULE MCChat -------------------------------
(***************************************************************************)
(* Chat for TLC.  Neither users nor slots are ordered; the symmetry is for *)
(* the runs that check safety only.                                        *)
(***************************************************************************)
EXTENDS Chat, TLC

CONSTANTS ana, ben, cleo, r1, r2

UserSlotSymmetry == Permutations(User) \cup Permutations(Request)
=============================================================================
