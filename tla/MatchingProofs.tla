--------------------------- MODULE MatchingProofs ---------------------------
(***************************************************************************)
(* Proofs about Matching for every set of users and slots and every number *)
(* of failures: type correctness, the safety invariants of the runs, and   *)
(* that the handler implements MutualMatch.                                *)
(***************************************************************************)
EXTENDS Matching, TLAPS

\* What a step leaves of the slots, field by field.
LEMMA GotoEffect ==
    ASSUME TypeOK, NEW r \in Request, NEW step, Goto(r, step)
    PROVE  \A q \in Request :
             /\ req'[q].pc = IF q = r THEN step ELSE req[q].pc
             /\ req'[q].status = req[q].status
             /\ req'[q].user = req[q].user
             /\ req'[q].target = req[q].target
             /\ req'[q].action = req[q].action
BY DEF TypeOK, Goto, Slot

LEMMA AnswerEffect ==
    ASSUME TypeOK, NEW r \in Request, NEW code, Answer(r, code)
    PROVE  \A q \in Request :
             /\ req'[q].pc = IF q = r THEN "idle" ELSE req[q].pc
             /\ req'[q].status = IF q = r THEN code ELSE req[q].status
             /\ req'[q].user = req[q].user
             /\ req'[q].target = req[q].target
             /\ req'[q].action = req[q].action
BY DEF TypeOK, Answer, Slot

\* A step of the handler leaves the other slots alone and keeps the typing of
\* its own.
LEMMA SlotTyping ==
    ASSUME TypeOK, NEW r \in Request, req[r].pc # "idle",
           \/ \E step \in Step : Goto(r, step)
           \/ \E code \in Status : Answer(r, code)
    PROVE  /\ req' \in [Request -> Slot]
           /\ \A q \in Request :
                req'[q].pc # "idle" => /\ {req'[q].user, req'[q].target} \subseteq User
                                       /\ req'[q].user # req'[q].target
           /\ req[r].user \in User /\ req[r].target \in User
           /\ req[r].user # req[r].target
<1>1. /\ req \in [Request -> Slot]
      /\ req[r].user \in User /\ req[r].target \in User
      /\ req[r].user # req[r].target
  BY DEF TypeOK
<1>2. req' \in [Request -> Slot]
  BY <1>1 DEF Goto, Answer, Slot
<1>3. \A q \in Request :
         req'[q].pc # "idle" => /\ req[q].pc # "idle"
                                /\ req'[q].user = req[q].user
                                /\ req'[q].target = req[q].target
  BY GotoEffect, AnswerEffect
<1>4. QED BY <1>1, <1>2, <1>3 DEF TypeOK

\* The columns of a match are its two users in order.
LEMMA SortedPairFacts ==
    ASSUME NEW u \in User, NEW t \in User, u # t
    PROVE  /\ SortedPair(u, t) \in Match
           /\ Parties(SortedPair(u, t)) = {u, t}
           /\ SortedPair(u, t).user1Id < SortedPair(u, t).user2Id
           /\ SortedPair(u, t) = SortedPair(t, u)
BY UserOrdered DEF SortedPair, Match, Parties

\* The tables, slots and history keep their types, and the foreign keys of
\* swipe_records hold, in every state of the handler.
THEOREM TypeCorrect == Spec => []TypeOK
<1>1. Init => TypeOK
  BY MaxFailuresNat DEF Init, TypeOK, Slot, Action, Status, Step
<1>2. TypeOK /\ [Next]_vars => TypeOK'
  <2> SUFFICES ASSUME TypeOK, [Next]_vars PROVE TypeOK'
    OBVIOUS
  <2>1. ASSUME NEW r \in Request, NEW u \in User, NEW t \in User,
               NEW a \in Action, Receive(r, u, t, a)
        PROVE  TypeOK'
    BY <2>1 DEF TypeOK, Receive, Slot, Step, Status
  <2>2. ASSUME NEW r \in Request, FindExisting(r) PROVE TypeOK'
    <3>1. \/ \E step \in Step : Goto(r, step)
          \/ \E code \in Status : Answer(r, code)
      BY <2>2 DEF FindExisting, Step, Status
    <3>2. QED BY <2>2, <3>1, SlotTyping DEF FindExisting, TypeOK
  <2>3. ASSUME NEW r \in Request, CreateSwipe(r) PROVE TypeOK'
    <3>1. \/ \E step \in Step : Goto(r, step)
          \/ \E code \in Status : Answer(r, code)
      BY <2>3 DEF CreateSwipe, Step, Status
    <3>2. /\ swipes' \subseteq Swipe
          /\ \A s \in swipes' : /\ {s.userId, s.targetId} \subseteq users
                                /\ s.userId # s.targetId
      BY <2>3, <3>1, SlotTyping DEF CreateSwipe, TypeOK, SwipeRow, Swipe, Slot
    <3>3. QED BY <2>3, <3>1, <3>2, SlotTyping DEF CreateSwipe, TypeOK
  <2>4. ASSUME NEW r \in Request, FindMutual(r) PROVE TypeOK'
    <3>1. \/ \E step \in Step : Goto(r, step)
          \/ \E code \in Status : Answer(r, code)
      BY <2>4 DEF FindMutual, Step, Status
    <3>2. QED BY <2>4, <3>1, SlotTyping DEF FindMutual, TypeOK
  <2>5. ASSUME NEW r \in Request, CreateMatch(r) PROVE TypeOK'
    <3>1. \/ \E step \in Step : Goto(r, step)
          \/ \E code \in Status : Answer(r, code)
      BY <2>5 DEF CreateMatch, Step, Status
    <3>2. matches' \subseteq Match
      BY <2>5, <3>1, SlotTyping, SortedPairFacts DEF CreateMatch, TypeOK
    <3>3. QED BY <2>5, <3>1, <3>2, SlotTyping DEF CreateMatch, TypeOK
  <2>6. ASSUME NEW r \in Request, NotifyMatch(r) PROVE TypeOK'
    <3>1. \/ \E step \in Step : Goto(r, step)
          \/ \E code \in Status : Answer(r, code)
      BY <2>6 DEF NotifyMatch, Step
    <3>2. newMatch' \in [User \X User -> Nat]
      BY <2>6, <3>1, SlotTyping DEF NotifyMatch, TypeOK
    <3>3. QED BY <2>6, <3>1, <3>2, SlotTyping DEF NotifyMatch, TypeOK
  <2>7. ASSUME NEW r \in Request, PushMatch(r) PROVE TypeOK'
    <3>1. \E code \in Status : Answer(r, code)
      BY <2>7 DEF PushMatch, Status
    <3>2. QED BY <2>7, <3>1, SlotTyping DEF PushMatch, TypeOK
  <2>8. ASSUME NEW r \in Request, Fail(r) PROVE TypeOK'
    <3>1. \E code \in Status : Answer(r, code)
      BY <2>8 DEF Fail, Status
    <3>2. req[r].pc \in Step
      BY <2>8 DEF Fail, TypeOK, Slot
    <3>3. failures' \in 0..MaxFailures
      BY <2>8, MaxFailuresNat DEF Fail, TypeOK
    <3>4. QED BY <2>8, <3>1, <3>2, <3>3, SlotTyping DEF Fail, TypeOK
  <2>9. ASSUME NEW u \in User, DeleteAccount(u) PROVE TypeOK'
    BY <2>9 DEF DeleteAccount, TypeOK
  <2>10. CASE UNCHANGED vars
    BY <2>10 DEF vars, TypeOK
  <2>11. QED
    BY <2>1, <2>2, <2>3, <2>4, <2>5, <2>6, <2>7, <2>8, <2>9, <2>10
       DEF Next, Serve
<1>3. QED BY <1>1, <1>2, PTL DEF Spec

-----------------------------------------------------------------------------
\* What a request knows at each step: past the insert of a LIKE its own row is
\* in the table, before the insert of the match so is the other one - as long
\* as both accounts exist, since a delete takes the rows along.
Alive(r) == {req[r].user, req[r].target} \subseteq users

SlotInv ==
    \A r \in Request :
        /\ req[r].pc \in {"reverse", "pair", "notify", "push"}
             => req[r].action = "LIKE"
        /\ (\/ req[r].pc \in {"reverse", "pair", "notify", "push"}
            \/ req[r].status = 201) /\ Alive(r)
             => SwipeRow(req[r].user, req[r].target, req[r].action) \in swipes
        /\ req[r].pc = "pair" /\ Alive(r) => Likes(req[r].target, req[r].user)

UniqueSwipes ==
    \A s1, s2 \in swipes :
        s1.userId = s2.userId /\ s1.targetId = s2.targetId => s1 = s2

DataInv == TypeOK /\ SlotInv /\ UniqueSwipes /\ MatchSound

LEMMA DataInvariant == Spec => []DataInv
<1>1. Init => SlotInv /\ UniqueSwipes /\ MatchSound
  BY DEF Init, SlotInv, UniqueSwipes, MatchSound
<1>2. DataInv /\ TypeOK' /\ [Next]_vars
        => SlotInv' /\ UniqueSwipes' /\ MatchSound'
  <2> SUFFICES ASSUME DataInv, TypeOK', [Next]_vars
               PROVE  SlotInv' /\ UniqueSwipes' /\ MatchSound'
    OBVIOUS
  <2> USE DEF DataInv
  <2>1. ASSUME NEW r \in Request, NEW u \in User, NEW t \in User,
               NEW a \in Action, Receive(r, u, t, a)
        PROVE  SlotInv' /\ UniqueSwipes' /\ MatchSound'
    <3>1. UNCHANGED <<users, swipes, matches>>
      BY <2>1 DEF Receive
    <3>2. SlotInv'
      BY <2>1, <3>1 DEF Receive, SlotInv, TypeOK, Alive, Likes, SwipeRow
    <3>3. QED BY <3>1, <3>2 DEF UniqueSwipes, MatchSound, MutualLike, Likes
  <2>2. ASSUME NEW r \in Request, FindExisting(r)
        PROVE  SlotInv' /\ UniqueSwipes' /\ MatchSound'
    <3>1. UNCHANGED <<users, swipes, matches>>
      BY <2>2 DEF FindExisting
    <3>2. SlotInv'
      BY <2>2, <3>1, GotoEffect, AnswerEffect DEF FindExisting, SlotInv, Alive, Likes
    <3>3. QED BY <3>1, <3>2 DEF UniqueSwipes, MatchSound, MutualLike, Likes
  <2>3. ASSUME NEW r \in Request, CreateSwipe(r)
        PROVE  SlotInv' /\ UniqueSwipes' /\ MatchSound'
    <3>1. UNCHANGED <<users, matches>> /\ swipes \subseteq swipes'
      BY <2>3 DEF CreateSwipe
    <3>2. SlotInv'
      BY <2>3, <3>1, GotoEffect, AnswerEffect
         DEF CreateSwipe, SlotInv, Alive, Likes, TypeOK, Slot, Action
    <3>3. UniqueSwipes'
      BY <2>3 DEF CreateSwipe, UniqueSwipes, SwipeKeyTaken, SwipeRow
    <3>4. QED BY <3>1, <3>2, <3>3 DEF MatchSound, MutualLike, Likes
  <2>4. ASSUME NEW r \in Request, FindMutual(r)
        PROVE  SlotInv' /\ UniqueSwipes' /\ MatchSound'
    <3>1. UNCHANGED <<users, swipes, matches>>
      BY <2>4 DEF FindMutual
    <3>2. SlotInv'
      BY <2>4, <3>1, GotoEffect, AnswerEffect DEF FindMutual, SlotInv, Alive, Likes
    <3>3. QED BY <3>1, <3>2 DEF UniqueSwipes, MatchSound, MutualLike, Likes
  <2>5. ASSUME NEW r \in Request, CreateMatch(r)
        PROVE  SlotInv' /\ UniqueSwipes' /\ MatchSound'
    <3> DEFINE m == SortedPair(req[r].user, req[r].target)
    <3>1. UNCHANGED <<users, swipes>>
      BY <2>5 DEF CreateMatch
    <3>2. SlotInv'
      BY <2>5, <3>1, GotoEffect, AnswerEffect DEF CreateMatch, SlotInv, Alive, Likes
    <3>3. MatchSound'
      <4>1. /\ req[r].pc = "pair"
            /\ req[r].user \in User /\ req[r].target \in User
            /\ req[r].user # req[r].target
        BY <2>5 DEF CreateMatch, TypeOK
      <4>2. /\ Parties(m) = {req[r].user, req[r].target}
            /\ m.user1Id < m.user2Id
        BY <4>1, SortedPairFacts
      <4>3. ASSUME Parties(m) \subseteq users PROVE MutualLike(m.user1Id, m.user2Id)
        BY <4>1, <4>2, <4>3 DEF SlotInv, Alive, MutualLike, Likes, SortedPair
      <4>4. matches' = matches \/ (matches' = matches \cup {m} /\ Parties(m) \subseteq users)
        BY <2>5 DEF CreateMatch
      <4>5. QED
        BY <3>1, <4>2, <4>3, <4>4 DEF MatchSound, MutualLike, Likes
    <3>4. QED BY <3>1, <3>2, <3>3 DEF UniqueSwipes
  <2>6. ASSUME NEW r \in Request, NotifyMatch(r) \/ PushMatch(r) \/ Fail(r)
        PROVE  SlotInv' /\ UniqueSwipes' /\ MatchSound'
    <3>1. UNCHANGED <<users, swipes, matches>>
      BY <2>6 DEF NotifyMatch, PushMatch, Fail
    <3>2. SlotInv'
      BY <2>6, <3>1, GotoEffect, AnswerEffect
         DEF NotifyMatch, PushMatch, Fail, SlotInv, Alive, Likes
    <3>3. QED BY <3>1, <3>2 DEF UniqueSwipes, MatchSound, MutualLike, Likes
  <2>7. ASSUME NEW u \in User, DeleteAccount(u)
        PROVE  SlotInv' /\ UniqueSwipes' /\ MatchSound'
    <3>1. SlotInv'
      BY <2>7 DEF DeleteAccount, SlotInv, Alive, Likes, SwipeRow
    <3>2. MatchSound'
      BY <2>7 DEF DeleteAccount, MatchSound, Parties, MutualLike, Likes, SwipeRow
    <3>3. QED BY <2>7, <3>1, <3>2 DEF DeleteAccount, UniqueSwipes
  <2>8. CASE UNCHANGED vars
    BY <2>8 DEF vars, SlotInv, UniqueSwipes, MatchSound, Alive, MutualLike, Likes
  <2>9. QED
    BY <2>1, <2>2, <2>3, <2>4, <2>5, <2>6, <2>7, <2>8 DEF Next, Serve
<1>3. QED BY <1>1, <1>2, TypeCorrect, PTL DEF Spec, DataInv

\* Every match joins two existing users, in order, who like each other: what
\* the request saw before the insert is still true at the insert.
THEOREM MatchesAreSound == Spec => []MatchSound
BY DataInvariant, PTL DEF DataInv

\* The decision answered with 201 is the one in the table.
THEOREM AcceptedDecisionsStand == Spec => []AcceptedDecisionStands
<1>1. DataInv => AcceptedDecisionStands
  <2> SUFFICES ASSUME DataInv, NEW r \in Request, req[r].status = 201, Alive(r),
                      NEW a \in Action
               PROVE  SwipeRow(req[r].user, req[r].target, a) \in swipes
                        <=> a = req[r].action
    BY DEF AcceptedDecisionStands, Alive
  <2>1. SwipeRow(req[r].user, req[r].target, req[r].action) \in swipes
    BY DEF DataInv, SlotInv
  <2>2. QED BY <2>1 DEF DataInv, UniqueSwipes, SwipeRow
<1>2. QED BY <1>1, DataInvariant, PTL

-----------------------------------------------------------------------------
\* A mutual LIKE without a match has a request that is about to pair it, or a
\* failure stopped that request: the second of two crossing LIKEs to be
\* inserted always finds the first.
THEOREM NoMutualLikeIsMissed == Spec => []NoMissedMatch
<1>1. Init => NoMissedMatch
  BY DEF Init, NoMissedMatch, MutualLike, Likes
<1>2. NoMissedMatch /\ DataInv /\ DataInv' /\ [Next]_vars => NoMissedMatch'
  <2> SUFFICES ASSUME NoMissedMatch, DataInv, DataInv', [Next]_vars,
                      NEW u \in User, NEW t \in User, MutualLike(u, t)',
                      ~Matched(u, t)'
               PROVE  \/ (\E r \in Request : Pairing(r, u, t))'
                      \/ \E d \in dropped' : /\ d.pair = {u, t}
                                             /\ d.at \in {"reverse", "pair"}
    BY DEF NoMissedMatch
  <2> DEFINE Lost == \E d \in dropped : /\ d.pair = {u, t}
                                        /\ d.at \in {"reverse", "pair"}
  <2> USE DEF DataInv
  <2>1. ASSUME NEW r \in Request, NEW v \in User, NEW w \in User,
               NEW a \in Action, Receive(r, v, w, a)
        PROVE  (\E q \in Request : Pairing(q, u, t))' \/ Lost'
    <3>1. MutualLike(u, t) /\ ~Matched(u, t)
      BY <2>1 DEF Receive, MutualLike, Likes, Matched
    <3>2. CASE Lost
      BY <2>1, <3>2 DEF Receive
    <3>3. CASE \E q \in Request : Pairing(q, u, t)
      BY <2>1, <3>3 DEF Receive, Pairing, TypeOK
    <3>4. QED BY <3>1, <3>2, <3>3 DEF NoMissedMatch
  <2>2. ASSUME NEW r \in Request,
               FindExisting(r) \/ NotifyMatch(r) \/ PushMatch(r)
        PROVE  (\E q \in Request : Pairing(q, u, t))' \/ Lost'
    <3>1. MutualLike(u, t) /\ ~Matched(u, t) /\ UNCHANGED dropped
      BY <2>2 DEF FindExisting, NotifyMatch, PushMatch, MutualLike, Likes, Matched
    <3>2. ASSUME NEW q \in Request, Pairing(q, u, t) PROVE Pairing(q, u, t)'
      BY <2>2, <3>2, GotoEffect, AnswerEffect
         DEF FindExisting, NotifyMatch, PushMatch, Pairing
    <3>3. QED BY <3>1, <3>2 DEF NoMissedMatch
  <2>3. ASSUME NEW r \in Request, CreateSwipe(r)
        PROVE  (\E q \in Request : Pairing(q, u, t))' \/ Lost'
    <3>1. UNCHANGED <<dropped, matches>>
      BY <2>3 DEF CreateSwipe
    <3>2. ASSUME NEW q \in Request, Pairing(q, u, t) PROVE Pairing(q, u, t)'
      BY <2>3, <3>2, GotoEffect, AnswerEffect DEF CreateSwipe, Pairing
    <3>3. CASE MutualLike(u, t)
      BY <3>1, <3>2, <3>3 DEF NoMissedMatch, Matched
    <3>4. CASE ~MutualLike(u, t)
      <4>1. /\ {req[r].user, req[r].target} = {u, t}
            /\ req[r].action = "LIKE"
            /\ Goto(r, "reverse")
        BY <2>3, <3>4 DEF CreateSwipe, MutualLike, Likes, SwipeRow
      <4>2. Pairing(r, u, t)'
        BY <4>1, GotoEffect DEF Pairing
      <4>3. QED BY <4>2
    <3>5. QED BY <3>3, <3>4
  <2>4. ASSUME NEW r \in Request, FindMutual(r)
        PROVE  (\E q \in Request : Pairing(q, u, t))' \/ Lost'
    <3>1. MutualLike(u, t) /\ ~Matched(u, t) /\ UNCHANGED dropped
      BY <2>4 DEF FindMutual, MutualLike, Likes, Matched
    <3>2. ASSUME NEW q \in Request, Pairing(q, u, t) PROVE Pairing(q, u, t)'
      BY <2>4, <3>1, <3>2, GotoEffect, AnswerEffect
         DEF FindMutual, Pairing, MutualLike, Likes
    <3>3. QED BY <3>1, <3>2 DEF NoMissedMatch
  <2>5. ASSUME NEW r \in Request, CreateMatch(r)
        PROVE  (\E q \in Request : Pairing(q, u, t))' \/ Lost'
    <3>1. MutualLike(u, t) /\ ~Matched(u, t) /\ UNCHANGED dropped
      BY <2>5 DEF CreateMatch, MutualLike, Likes, Matched
    <3>2. {u, t} \subseteq users /\ u # t
      BY <3>1 DEF MutualLike, Likes, SwipeRow, TypeOK
    <3>3. ASSUME NEW q \in Request, Pairing(q, u, t) PROVE q # r
      <4> SUFFICES ASSUME q = r PROVE FALSE
        OBVIOUS
      <4>1. SortedPair(req[r].user, req[r].target) = SortedPair(u, t)
        BY <3>2, <3>3, SortedPairFacts DEF Pairing
      <4>2. Parties(SortedPair(u, t)) = {u, t}
        BY <3>2, SortedPairFacts
      <4>3. QED
        BY <2>5, <3>1, <3>2, <4>1, <4>2 DEF CreateMatch, MatchKeyTaken, Matched
    <3>4. ASSUME NEW q \in Request, Pairing(q, u, t) PROVE Pairing(q, u, t)'
      BY <2>5, <3>3, <3>4, GotoEffect, AnswerEffect DEF CreateMatch, Pairing
    <3>5. QED BY <3>1, <3>4 DEF NoMissedMatch
  <2>6. ASSUME NEW r \in Request, Fail(r)
        PROVE  (\E q \in Request : Pairing(q, u, t))' \/ Lost'
    <3>1. MutualLike(u, t) /\ ~Matched(u, t) /\ dropped \subseteq dropped'
      BY <2>6 DEF Fail, MutualLike, Likes, Matched
    <3>2. ASSUME NEW q \in Request, Pairing(q, u, t), q # r
          PROVE  Pairing(q, u, t)'
      BY <2>6, <3>2, AnswerEffect DEF Fail, Pairing
    <3>3. ASSUME Pairing(r, u, t) PROVE Lost'
      <4> DEFINE d == [pair |-> {req[r].user, req[r].target}, at |-> req[r].pc]
      <4>1. d \in dropped'
        BY <2>6 DEF Fail
      <4>2. d.pair = {u, t} /\ d.at \in {"reverse", "pair"}
        BY <3>3 DEF Pairing
      <4>3. QED BY <4>1, <4>2
    <3>4. QED BY <3>1, <3>2, <3>3 DEF NoMissedMatch
  <2>7. ASSUME NEW v \in User, DeleteAccount(v)
        PROVE  (\E q \in Request : Pairing(q, u, t))' \/ Lost'
    <3>1. /\ UNCHANGED <<dropped, req>>
          /\ MutualLike(u, t) /\ v \notin {u, t}
          /\ u # t
      BY <2>7 DEF DeleteAccount, MutualLike, Likes, SwipeRow, TypeOK
    <3>2. ~Matched(u, t)
      BY <2>7, <3>1, SortedPairFacts DEF DeleteAccount, Matched
    <3>3. QED BY <3>1, <3>2 DEF NoMissedMatch, Pairing
  <2>8. CASE UNCHANGED vars
    BY <2>8 DEF vars, NoMissedMatch, MutualLike, Likes, Matched, Pairing
  <2>9. QED
    BY <2>1, <2>2, <2>3, <2>4, <2>5, <2>6, <2>7, <2>8 DEF Next, Serve
<1>3. QED BY <1>1, <1>2, DataInvariant, PTL DEF Spec

-----------------------------------------------------------------------------
\* What makes new_match unique: the request that emits it for a pair is the
\* only one, nothing has been emitted for the pair before it, and its row stays
\* until one of the two is gone for good, so no other request inserts it again.
Notifying(r, u, t) ==
    /\ req[r].pc = "notify"
    /\ {req[r].user, req[r].target} = {u, t}

Settled(u, t) == Matched(u, t) \/ ~({u, t} \subseteq users)

EventInv ==
    \A u, t \in User : u # t =>
        /\ newMatch[<<u, t>>] \in {0, 1}
        /\ newMatch[<<u, t>>] = 1 => Settled(u, t)
        /\ \A r \in Request :
             Notifying(r, u, t) => newMatch[<<u, t>>] = 0 /\ Settled(u, t)
        /\ \A r, q \in Request :
             Notifying(r, u, t) /\ Notifying(q, u, t) => r = q

SelfInv == \A u \in User : newMatch[<<u, u>>] = 0

LEMMA EventInvariant == Spec => [](EventInv /\ SelfInv)
<1>1. Init => EventInv /\ SelfInv
  BY DEF Init, EventInv, SelfInv, Notifying
<1>2. EventInv /\ SelfInv /\ DataInv /\ DataInv' /\ [Next]_vars
        => EventInv' /\ SelfInv'
  <2> SUFFICES ASSUME EventInv, SelfInv, DataInv, [Next]_vars
               PROVE  EventInv' /\ SelfInv'
    OBVIOUS
  <2> USE DEF DataInv
  <2>1. ASSUME NEW r \in Request, NEW v \in User, NEW w \in User,
               NEW a \in Action, Receive(r, v, w, a)
        PROVE  EventInv' /\ SelfInv'
    <3>1. \A u, t \in User : UNCHANGED <<newMatch, Settled(u, t)>>
      BY <2>1 DEF Receive, Settled, Matched
    <3>2. \A q \in Request, u, t \in User : Notifying(q, u, t)' => Notifying(q, u, t)
      BY <2>1 DEF Receive, Notifying, TypeOK
    <3>3. QED BY <3>1, <3>2 DEF EventInv, SelfInv
  <2>2. ASSUME NEW r \in Request,
               \/ FindExisting(r) \/ CreateSwipe(r) \/ FindMutual(r)
               \/ PushMatch(r) \/ Fail(r)
        PROVE  EventInv' /\ SelfInv'
    <3>1. \A u, t \in User : UNCHANGED <<newMatch, Settled(u, t)>>
      BY <2>2 DEF FindExisting, CreateSwipe, FindMutual, PushMatch, Fail,
                  Settled, Matched
    <3>2. \A q \in Request, u, t \in User : Notifying(q, u, t)' => Notifying(q, u, t)
      BY <2>2, GotoEffect, AnswerEffect
         DEF FindExisting, CreateSwipe, FindMutual, PushMatch, Fail, Notifying
    <3>3. QED BY <3>1, <3>2 DEF EventInv, SelfInv
  <2>3. ASSUME NEW r \in Request, CreateMatch(r)
        PROVE  EventInv' /\ SelfInv'
    <3> DEFINE m == SortedPair(req[r].user, req[r].target)
    <3>1. UNCHANGED <<newMatch, users>> /\ matches \subseteq matches'
      BY <2>3 DEF CreateMatch
    <3>2. \A u, t \in User : Settled(u, t) => Settled(u, t)'
      BY <3>1 DEF Settled, Matched
    <3>3. \A q \in Request, u, t \in User :
             Notifying(q, u, t)' => q = r \/ Notifying(q, u, t)
      BY <2>3, GotoEffect, AnswerEffect DEF CreateMatch, Notifying
    <3>4. ASSUME NEW u \in User, NEW t \in User, u # t, Notifying(r, u, t)'
          PROVE  ~Settled(u, t) /\ Settled(u, t)'
      <4>1. /\ {req[r].user, req[r].target} = {u, t}
            /\ m \notin matches /\ m \in matches' /\ Parties(m) \subseteq users
        BY <2>3, <3>4, GotoEffect, AnswerEffect
           DEF CreateMatch, Notifying, MatchKeyTaken
      <4>2. m = SortedPair(u, t) /\ Parties(m) = {u, t}
        BY <3>4, <4>1, SortedPairFacts
      <4>3. QED BY <4>1, <4>2 DEF Settled, Matched
    <3>5. EventInv'
      <4> SUFFICES ASSUME NEW u \in User, NEW t \in User, u # t
                   PROVE  (/\ newMatch[<<u, t>>] \in {0, 1}
                           /\ newMatch[<<u, t>>] = 1 => Settled(u, t)
                           /\ \A q \in Request :
                                Notifying(q, u, t)
                                  => newMatch[<<u, t>>] = 0 /\ Settled(u, t)
                           /\ \A p, q \in Request :
                                Notifying(p, u, t) /\ Notifying(q, u, t) => p = q)'
        BY DEF EventInv
      <4>1. CASE Notifying(r, u, t)'
        BY <3>1, <3>3, <3>4, <4>1 DEF EventInv
      <4>2. CASE ~Notifying(r, u, t)'
        BY <3>1, <3>2, <3>3, <4>2 DEF EventInv
      <4>3. QED BY <4>1, <4>2
    <3>6. QED BY <3>1, <3>5 DEF SelfInv
  <2>4. ASSUME NEW r \in Request, NotifyMatch(r)
        PROVE  EventInv' /\ SelfInv'
    <3> DEFINE v == req[r].user
               w == req[r].target
    <3>1. v \in User /\ w \in User /\ v # w /\ req[r].pc = "notify"
      BY <2>4 DEF NotifyMatch, TypeOK
    <3>2. \A u, t \in User : UNCHANGED Settled(u, t)
      BY <2>4 DEF NotifyMatch, Settled, Matched
    <3>3. \A q \in Request, u, t \in User :
             Notifying(q, u, t)' => q # r /\ Notifying(q, u, t)
      BY <2>4, GotoEffect DEF NotifyMatch, Notifying
    <3>4. \A u, t \in User :
             newMatch'[<<u, t>>] = IF {u, t} = {v, w} /\ u # t
                                   THEN newMatch[<<u, t>>] + 1
                                   ELSE newMatch[<<u, t>>]
      BY <2>4, <3>1 DEF NotifyMatch, TypeOK
    <3>5. ASSUME NEW u \in User, NEW t \in User, u # t, {u, t} = {v, w}
          PROVE  /\ newMatch[<<u, t>>] = 0 /\ Settled(u, t)
                 /\ \A q \in Request : q # r => ~Notifying(q, u, t)
      BY <3>1, <3>5 DEF EventInv, Notifying
    <3>6. EventInv'
      <4> SUFFICES ASSUME NEW u \in User, NEW t \in User, u # t
                   PROVE  (/\ newMatch[<<u, t>>] \in {0, 1}
                           /\ newMatch[<<u, t>>] = 1 => Settled(u, t)
                           /\ \A q \in Request :
                                Notifying(q, u, t)
                                  => newMatch[<<u, t>>] = 0 /\ Settled(u, t)
                           /\ \A p, q \in Request :
                                Notifying(p, u, t) /\ Notifying(q, u, t) => p = q)'
        BY DEF EventInv
      <4>1. CASE {u, t} = {v, w}
        BY <3>2, <3>3, <3>4, <3>5, <4>1
      <4>2. CASE {u, t} # {v, w}
        BY <3>2, <3>3, <3>4, <4>2 DEF EventInv
      <4>3. QED BY <4>1, <4>2
    <3>7. QED BY <3>4, <3>6 DEF SelfInv
  <2>5. ASSUME NEW v \in User, DeleteAccount(v)
        PROVE  EventInv' /\ SelfInv'
    <3>1. UNCHANGED <<newMatch, req>>
      BY <2>5 DEF DeleteAccount
    <3>2. ASSUME NEW u \in User, NEW t \in User, u # t, Settled(u, t)
          PROVE  Settled(u, t)'
      BY <2>5, <3>2, SortedPairFacts DEF DeleteAccount, Settled, Matched
    <3>3. QED BY <3>1, <3>2 DEF EventInv, SelfInv, Notifying
  <2>6. CASE UNCHANGED vars
    BY <2>6 DEF vars, EventInv, SelfInv, Notifying, Settled, Matched
  <2>7. QED
    BY <2>1, <2>2, <2>3, <2>4, <2>5, <2>6 DEF Next, Serve
<1>3. QED BY <1>1, <1>2, DataInvariant, PTL DEF Spec

\* Nobody is sent new_match twice for one person.
THEOREM NewMatchIsSentOnce == Spec => []NewMatchOnce
<1>1. EventInv /\ SelfInv => NewMatchOnce
  BY DEF EventInv, SelfInv, NewMatchOnce
<1>2. QED BY <1>1, EventInvariant, PTL

\* Both users of a match are told of it, unless the request that made the match
\* is still about to, or failed at that step.
THEOREM MatchesAreAnnounced == Spec => []MatchAnnounced
<1>1. Init => MatchAnnounced
  BY DEF Init, MatchAnnounced
<1>2. MatchAnnounced /\ TypeOK /\ [Next]_vars => MatchAnnounced'
  <2> SUFFICES ASSUME MatchAnnounced, TypeOK, [Next]_vars
               PROVE  MatchAnnounced'
    OBVIOUS
  <2> DEFINE Told(m) == /\ newMatch[<<m.user1Id, m.user2Id>>] >= 1
                        /\ newMatch[<<m.user2Id, m.user1Id>>] >= 1
             About(r, m) == /\ {req[r].user, req[r].target} = Parties(m)
                            /\ req[r].pc = "notify"
             Lost(m) == [pair |-> Parties(m), at |-> "notify"] \in dropped
  <2>0. \A m \in matches : Told(m) \/ Lost(m) \/ \E r \in Request : About(r, m)
    BY DEF MatchAnnounced
  <2>1. ASSUME NEW r \in Request, NEW v \in User, NEW w \in User,
               NEW a \in Action, Receive(r, v, w, a)
        PROVE  MatchAnnounced'
    <3>1. \A q \in Request, m \in matches : About(q, m) => About(q, m)'
      BY <2>1 DEF Receive, TypeOK
    <3>2. QED BY <2>0, <2>1, <3>1 DEF Receive, MatchAnnounced
  <2>2. ASSUME NEW r \in Request,
               FindExisting(r) \/ CreateSwipe(r) \/ FindMutual(r) \/ PushMatch(r)
        PROVE  MatchAnnounced'
    <3>1. \A q \in Request, m \in matches : About(q, m) => About(q, m)'
      BY <2>2, GotoEffect, AnswerEffect
         DEF FindExisting, CreateSwipe, FindMutual, PushMatch
    <3>2. UNCHANGED <<matches, newMatch, dropped>>
      BY <2>2 DEF FindExisting, CreateSwipe, FindMutual, PushMatch
    <3>3. QED BY <2>0, <3>1, <3>2 DEF MatchAnnounced
  <2>3. ASSUME NEW r \in Request, CreateMatch(r) PROVE MatchAnnounced'
    <3> DEFINE n == SortedPair(req[r].user, req[r].target)
    <3>1. \A q \in Request, m \in matches : About(q, m) => About(q, m)'
      BY <2>3, GotoEffect, AnswerEffect DEF CreateMatch
    <3>2. UNCHANGED <<newMatch, dropped>>
      BY <2>3 DEF CreateMatch
    <3>3. Parties(n) = {req[r].user, req[r].target}
      BY <2>3, SortedPairFacts DEF CreateMatch, TypeOK
    <3>4. CASE UNCHANGED matches
      BY <2>0, <3>1, <3>2, <3>4 DEF MatchAnnounced
    <3>5. CASE matches' = matches \cup {n} /\ Goto(r, "notify")
      <4>1. PICK k : k = n
        OBVIOUS
      <4>2. About(r, k)'
        BY <3>3, <3>5, <4>1, GotoEffect
      <4>3. \A m \in matches : Told(m)' \/ Lost(m)' \/ \E q \in Request : About(q, m)'
        BY <2>0, <3>1, <3>2
      <4>4. QED BY <3>5, <4>1, <4>2, <4>3 DEF MatchAnnounced
    <3>6. QED BY <2>3, <3>4, <3>5 DEF CreateMatch
  <2>4. ASSUME NEW r \in Request, NotifyMatch(r) PROVE MatchAnnounced'
    <3> DEFINE v == req[r].user
               w == req[r].target
    <3>1. /\ UNCHANGED <<matches, dropped>>
          /\ v \in User /\ w \in User /\ v # w
      BY <2>4 DEF NotifyMatch, TypeOK
    <3>2. \A u, t \in User :
             newMatch'[<<u, t>>] = IF {u, t} = {v, w} /\ u # t
                                   THEN newMatch[<<u, t>>] + 1
                                   ELSE newMatch[<<u, t>>]
      BY <2>4, <3>1 DEF NotifyMatch, TypeOK
    <3>3. \A m \in matches : /\ m.user1Id \in User /\ m.user2Id \in User
                             /\ newMatch[<<m.user1Id, m.user2Id>>] \in Nat
                             /\ newMatch[<<m.user2Id, m.user1Id>>] \in Nat
      BY DEF TypeOK, Match
    <3>4. \A m \in matches : Told(m) => Told(m)'
      BY <3>2, <3>3
    <3>5. \A m \in matches : About(r, m) => Told(m)'
      BY <3>1, <3>2, <3>3 DEF Parties
    <3>6. \A q \in Request, m \in matches : q # r /\ About(q, m) => About(q, m)'
      BY <2>4, GotoEffect DEF NotifyMatch
    <3>7. \A m \in matches : Told(m)' \/ Lost(m)' \/ \E q \in Request : About(q, m)'
      BY <2>0, <3>1, <3>4, <3>5, <3>6
    <3>8. QED BY <3>1, <3>7 DEF MatchAnnounced
  <2>5. ASSUME NEW r \in Request, Fail(r) PROVE MatchAnnounced'
    <3>1. \A q \in Request, m \in matches : q # r /\ About(q, m) => About(q, m)'
      BY <2>5, AnswerEffect DEF Fail
    <3>2. \A m \in matches : About(r, m) => Lost(m)'
      BY <2>5 DEF Fail
    <3>3. UNCHANGED <<matches, newMatch>> /\ dropped \subseteq dropped'
      BY <2>5 DEF Fail
    <3>4. \A m \in matches : Told(m) => Told(m)'
      BY <3>3
    <3>5. \A m \in matches : Lost(m) => Lost(m)'
      BY <3>3
    <3>6. \A m \in matches : Told(m)' \/ Lost(m)' \/ \E q \in Request : About(q, m)'
      BY <2>0, <3>1, <3>2, <3>4, <3>5, Zenon
    <3>7. QED BY <3>3, <3>6 DEF MatchAnnounced
  <2>6. ASSUME NEW u \in User, DeleteAccount(u) PROVE MatchAnnounced'
    BY <2>0, <2>6 DEF DeleteAccount, MatchAnnounced
  <2>7. CASE UNCHANGED vars
    BY <2>7 DEF vars, MatchAnnounced
  <2>8. QED
    BY <2>1, <2>2, <2>3, <2>4, <2>5, <2>6, <2>7 DEF Next, Serve
<1>3. QED BY <1>1, <1>2, TypeCorrect, PTL DEF Spec

-----------------------------------------------------------------------------
\* The handler implements the promise: its tables change only by a decision of
\* an undecided user, by the pairing of two who like each other and by a user
\* who leaves.
THEOREM ImplementsMutualMatch == Spec => RefinesMutualMatch
<1>1. Init => Abs!Init
  BY DEF Init, Abs!Init
<1>2. DataInv /\ [Next]_vars => [Abs!Next]_(Abs!avars)
  <2> SUFFICES ASSUME DataInv, [Next]_vars
               PROVE  Abs!Next \/ UNCHANGED Abs!avars
    OBVIOUS
  <2> USE DEF DataInv
  <2> DEFINE Pairs == {Parties(m) : m \in matches}
  <2>1. ASSUME NEW r \in Request, NEW v \in User, NEW w \in User,
               NEW a \in Action, Receive(r, v, w, a)
        PROVE  UNCHANGED Abs!avars
    BY <2>1 DEF Receive, Abs!avars
  <2>2. ASSUME NEW r \in Request,
               \/ FindExisting(r) \/ FindMutual(r) \/ NotifyMatch(r)
               \/ PushMatch(r) \/ Fail(r)
        PROVE  UNCHANGED Abs!avars
    BY <2>2 DEF FindExisting, FindMutual, NotifyMatch, PushMatch, Fail, Abs!avars
  <2>3. ASSUME NEW r \in Request, CreateSwipe(r)
        PROVE  Abs!Next \/ UNCHANGED Abs!avars
    <3> DEFINE v == req[r].user
               w == req[r].target
               a == req[r].action
    <3>1. v \in User /\ w \in User /\ v # w /\ a \in Action
      BY <2>3 DEF CreateSwipe, TypeOK, Slot
    <3>2. CASE UNCHANGED swipes
      BY <2>3, <3>2 DEF CreateSwipe, Abs!avars
    <3>3. CASE /\ ~SwipeKeyTaken(v, w) /\ {v, w} \subseteq users
               /\ swipes' = swipes \cup {SwipeRow(v, w, a)}
      <4>1. ~Abs!Decided(v, w)
        BY <3>3 DEF SwipeKeyTaken, Abs!Decided, Abs!Decision, Abs!Action
      <4>2. Abs!Decide(v, w, a)
        BY <2>3, <3>1, <3>3, <4>1
           DEF CreateSwipe, Abs!Decide, Abs!Decision, SwipeRow
      <4>3. QED BY <3>1, <4>2 DEF Abs!Next, Abs!Action, Action
    <3>4. QED BY <2>3, <3>2, <3>3 DEF CreateSwipe
  <2>4. ASSUME NEW r \in Request, CreateMatch(r)
        PROVE  Abs!Next \/ UNCHANGED Abs!avars
    <3> DEFINE v == req[r].user
               w == req[r].target
               n == SortedPair(v, w)
    <3>1. v \in User /\ w \in User /\ v # w /\ req[r].pc = "pair"
      BY <2>4 DEF CreateMatch, TypeOK
    <3>2. CASE UNCHANGED matches
      BY <2>4, <3>2 DEF CreateMatch, Abs!avars
    <3>3. CASE /\ n \notin matches /\ Parties(n) \subseteq users
               /\ matches' = matches \cup {n}
      <4>1. Parties(n) = {v, w}
        BY <3>1, SortedPairFacts
      <4>2. MutualLike(v, w)
        BY <3>1, <3>3, <4>1 DEF SlotInv, Alive, MutualLike, Likes
      <4>3. \A m \in matches : Parties(m) = {v, w} => m = n
        <5> SUFFICES ASSUME NEW m \in matches, Parties(m) = {v, w} PROVE m = n
          OBVIOUS
        <5>1. m \in Match /\ m.user1Id < m.user2Id
          BY DEF TypeOK, MatchSound
        <5>2. /\ m = [user1Id |-> m.user1Id, user2Id |-> m.user2Id]
              /\ m.user1Id \in User /\ m.user2Id \in User
          BY <5>1 DEF Match
        <5>3. \/ m.user1Id = v /\ m.user2Id = w
              \/ m.user1Id = w /\ m.user2Id = v
          BY <3>1 DEF Parties
        <5>4. QED
          BY <3>1, <5>1, <5>2, <5>3, UserOrdered DEF SortedPair
      <4>4. {v, w} \notin Pairs /\ Pairs' = Pairs \cup {{v, w}}
        BY <3>3, <4>1, <4>3
      <4>5. Abs!Pair(v, w)
        BY <2>4, <4>2, <4>4
           DEF CreateMatch, Abs!Pair, Abs!MutualLike, Abs!Likes, Abs!Decision,
               MutualLike, Likes, SwipeRow
      <4>6. QED BY <3>1, <4>5 DEF Abs!Next
    <3>4. QED BY <2>4, <3>2, <3>3 DEF CreateMatch, MatchKeyTaken
  <2>5. ASSUME NEW u \in User, DeleteAccount(u) PROVE Abs!Next
    <3>1. Abs!Leave(u)
      BY <2>5 DEF DeleteAccount, Abs!Leave
    <3>2. QED BY <3>1 DEF Abs!Next
  <2>6. CASE UNCHANGED vars
    BY <2>6 DEF vars, Abs!avars
  <2>7. QED
    BY <2>1, <2>2, <2>3, <2>4, <2>5, <2>6 DEF Next, Serve
<1>3. QED
  BY <1>1, <1>2, DataInvariant, PTL DEF Spec, RefinesMutualMatch, Abs!Spec
=============================================================================
