---------------------------- MODULE MCFriendship ----------------------------
(***************************************************************************)
(* Friendship for TLC.  Neither users nor slots are ordered.               *)
(***************************************************************************)
EXTENDS Friendship, TLC

CONSTANTS ana, ben, cleo, r1, r2

UserSlotSymmetry == Permutations(User) \cup Permutations(Request)
=============================================================================
