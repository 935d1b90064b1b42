---------------------------- MODULE MutualMatch ----------------------------
(***************************************************************************)
(* What the matching endpoint promises, without its requests: a user       *)
(* decides once about another user, and two users who like each other are  *)
(* paired.  README.md of the backend says it in one line (POST             *)
(* /matches/swipe: "si ambos se dan LIKE se crea un Match                  *)
(* automaticamente").  Module Matching, the handler as it is written,      *)
(* is shown to implement this one.                                         *)
(***************************************************************************)
EXTENDS Naturals

CONSTANT User                 \* user ids; numbers, because ids are ordered

VARIABLES users,              \* accounts that exist
          swipes,             \* decisions, at most one per ordered pair
          matches             \* unordered pairs of users

avars == <<users, swipes, matches>>

Action == {"LIKE", "PASS"}

Decision(u, t, a) == [userId |-> u, targetId |-> t, action |-> a]

Likes(u, t) == Decision(u, t, "LIKE") \in swipes

MutualLike(u, t) == Likes(u, t) /\ Likes(t, u)

Decided(u, t) == \E a \in Action : Decision(u, t, a) \in swipes

Init == /\ users = User
        /\ swipes = {}
        /\ matches = {}

Decide(u, t, a) ==
    /\ {u, t} \subseteq users /\ u # t
    /\ ~Decided(u, t)
    /\ swipes' = swipes \cup {Decision(u, t, a)}
    /\ UNCHANGED <<users, matches>>

Pair(u, t) ==
    /\ MutualLike(u, t)
    /\ {u, t} \notin matches
    /\ matches' = matches \cup {{u, t}}
    /\ UNCHANGED <<users, swipes>>

Leave(u) ==
    /\ u \in users
    /\ users' = users \ {u}
    /\ swipes' = {s \in swipes : u \notin {s.userId, s.targetId}}
    /\ matches' = {m \in matches : u \notin m}

Next == \/ \E u, t \in User, a \in Action : Decide(u, t, a)
        \/ \E u, t \in User : Pair(u, t)
        \/ \E u \in User : Leave(u)

Spec == Init /\ [][Next]_avars
=============================================================================
