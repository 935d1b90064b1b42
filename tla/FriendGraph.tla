----------------------------- MODULE FriendGraph -----------------------------
(***************************************************************************)
(* What the friendship endpoints promise to clients who act one after the  *)
(* other: at most one tie between two users, asked for by one, accepted    *)
(* while it is pending, blocked or removed.  Module Friendship is shown to *)
(* implement this when its requests do not overlap; who may do what to a   *)
(* tie is its property OnlyParties.                                        *)
(***************************************************************************)
CONSTANT User

VARIABLES users,              \* accounts that exist
          ties                \* [initiatorId, receiverId, status]

gvars == <<users, ties>>

Tie(u, t, st) == [initiatorId |-> u, receiverId |-> t, status |-> st]

Ends(k) == {k.initiatorId, k.receiverId}

Init == users = User /\ ties = {}

Ask(u, t) ==
    /\ {u, t} \subseteq users /\ u # t
    /\ \A k \in ties : Ends(k) # {u, t}
    /\ ties' = ties \cup {Tie(u, t, "PENDING")}
    /\ UNCHANGED users

\* Only of a tie that is pending.
Accept(k) ==
    /\ k \in ties
    /\ k.status = "PENDING"
    /\ ties' = (ties \ {k}) \cup {Tie(k.initiatorId, k.receiverId, "ACCEPTED")}
    /\ UNCHANGED users

Block(k) ==
    /\ k \in ties
    /\ ties' = (ties \ {k}) \cup {Tie(k.initiatorId, k.receiverId, "BLOCKED")}
    /\ UNCHANGED users

Remove(k) ==
    /\ k \in ties
    /\ ties' = ties \ {k}
    /\ UNCHANGED users

Leave(u) ==
    /\ u \in users
    /\ users' = users \ {u}
    /\ ties' = {k \in ties : u \notin Ends(k)}

Next == \/ \E u, t \in User : Ask(u, t)
        \/ \E k \in ties : Accept(k) \/ Block(k) \/ Remove(k)
        \/ \E u \in User : Leave(u)

Spec == Init /\ [][Next]_gvars
=============================================================================
