----------------------------- MODULE MCUserData -----------------------------
(***************************************************************************)
(* UserData for TLC.  Nothing is ordered.                                  *)
(***************************************************************************)
EXTENDS UserData, TLC

CONSTANTS ana, ben, a1, a2, d1, d2, d3, n1, n2, v1, r1, r2

Symmetry == UNION {Permutations(S) :
                     S \in {User, Address, Device, Name, Request}}
=============================================================================
