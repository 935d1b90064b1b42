----------------------------- MODULE MCHistory -----------------------------
(***************************************************************************)
(* The gateway and the history of one chat for TLC: two of three users are *)
(* in the chat, two of them have a socket, which may be an outsider's.     *)
(***************************************************************************)
EXTENDS History, TLC

CONSTANTS ana, ben, cleo, s1, s2, r1, r2

SocketOwner == s1 :> ana @@ s2 :> ben

SlotSymmetry == Permutations(Request)
=============================================================================
