-------------------------- MODULE FriendshipProofs --------------------------
(***************************************************************************)
(* Proofs about Friendship for every set of users and slots and every      *)
(* number of rows: what holds however calls overlap, and that calls which  *)
(* do not overlap implement FriendGraph.                                   *)
(***************************************************************************)
EXTENDS Friendship, TLAPS

\* The fields of a slot that a step changes.
LEMMA IdleSlot ==
    Idle \in Slot /\ Idle.pc = "idle"
BY DEF Idle, Slot, Op

LEMMA AnswerEffect ==
    ASSUME TypeOK, NEW r \in Request,
           NEW code \in {0, 200, 201, 204, 400, 401, 403, 404, 409, 500},
           Answer(r, code)
    PROVE  /\ req' \in [Request -> Slot]
           /\ req'[r].pc = "idle"
           /\ \A q \in Request : q # r => req'[q] = req[q]
BY IdleSlot DEF TypeOK, Answer

LEMMA NotifyingEffect ==
    ASSUME TypeOK, NEW r \in Request, NEW f \in Id, NEW to \in User,
           Notifying(r, f, to)
    PROVE  /\ req' \in [Request -> Slot]
           /\ req'[r].pc = "notify" /\ req'[r].op = req[r].op
           /\ req'[r].row = f /\ req'[r].peer = to
           /\ \A q \in Request : q # r => req'[q] = req[q]
BY DEF TypeOK, Notifying, Slot

LEMMA WriteEffect ==
    ASSUME TypeOK, NEW r \in Request, req' = [req EXCEPT ![r].pc = "write"]
    PROVE  /\ req' \in [Request -> Slot]
           /\ req'[r].pc = "write" /\ req'[r].op = req[r].op
           /\ req'[r].user = req[r].user /\ req'[r].peer = req[r].peer
           /\ req'[r].row = req[r].row
           /\ \A q \in Request : q # r => req'[q] = req[q]
BY DEF TypeOK, Slot

\* What a call knows.  Ids are handed out once and the users of a row do not
\* change, so a permission that was read stays right while the row is there.
CallOK(r) ==
    LET f == req[r].row
        u == req[r].user
        t == req[r].peer
    IN  /\ (req[r].pc \in {"find", "write"} /\ req[r].op = "request")
             => u \in User /\ t \in User /\ t # u
        /\ (req[r].pc \in {"find", "write"} /\ req[r].op # "request")
             => u \in User /\ f \in Id
        /\ (req[r].pc = "write" /\ req[r].op # "request")
             => /\ f <= created
                /\ Exists(f) =>
                     /\ u \in Ends(f)
                     /\ req[r].op = "accept" => u = friendships[f].receiverId
        /\ req[r].pc = "notify"
             => /\ req[r].op \in {"request", "accept"}
                /\ f \in Id /\ f <= created /\ t \in User
                /\ Exists(f) =>
                     IF req[r].op = "accept"
                     THEN /\ t = friendships[f].initiatorId
                          /\ friendships[f].status # "PENDING"
                     ELSE t = friendships[f].receiverId

CallInv == \A r \in Request : CallOK(r)

PushInv == PushesTruthful /\ \A p \in pushes : p.row <= created

IInv == TypeOK /\ CallInv /\ PushInv

\* One step, seen from the table: a row keeps its users while it is there, no
\* row comes under an old id, and none becomes pending again.
TableStep ==
    /\ created <= created'
    /\ \A f \in Id : (f <= created /\ friendships'[f] # NoRow) =>
          /\ friendships[f] # NoRow
          /\ friendships'[f].initiatorId = friendships[f].initiatorId
          /\ friendships'[f].receiverId = friendships[f].receiverId
          /\ friendships'[f].status = "PENDING" => friendships[f].status = "PENDING"

LEMMA CallFrame ==
    ASSUME IInv, TypeOK', TableStep, NEW q \in Request, req'[q] = req[q]
    PROVE  CallOK(q)'
<1>1. CallOK(q) /\ created \in Nat /\ created' \in Nat /\ req[q] \in Slot
  BY DEF IInv, CallInv, TypeOK
<1>2. \A f \in Id : f \in Nat
  BY MaxRowsNat DEF Id
<1>3. QED BY <1>1, <1>2 DEF TableStep, CallOK, Exists, Ends

LEMMA PushFrame ==
    ASSUME IInv, TypeOK', TableStep, UNCHANGED pushes
    PROVE  PushInv'
<1>1. /\ pushes \subseteq [kind : {"request", "accept"}, row : Id, to : User]
      /\ created \in Nat /\ created' \in Nat
  BY DEF IInv, TypeOK
<1>2. \A f \in Id : f \in Nat
  BY MaxRowsNat DEF Id
<1>3. QED BY <1>1, <1>2 DEF IInv, PushInv, PushesTruthful, TableStep, Exists

\* A step that leaves the table alone.
LEMMA SameTable ==
    ASSUME TypeOK, UNCHANGED <<friendships, created>>
    PROVE  TableStep
BY MaxRowsNat DEF TableStep, TypeOK

LEMMA Initially == Init => IInv
<1> SUFFICES ASSUME Init PROVE IInv
  OBVIOUS
<1>1. \A r \in Request : req[r] = Idle
  BY DEF Init
<1>2. TypeOK
  BY MaxRowsNat, IdleSlot DEF Init, TypeOK, Exists
<1>3. CallInv
  BY <1>1, IdleSlot DEF CallInv, CallOK
<1>4. QED BY <1>2, <1>3 DEF Init, IInv, PushInv, PushesTruthful

\* A call that ends with a table untouched.
LEMMA EndOfCall ==
    ASSUME IInv, NEW r \in Request,
           NEW code \in {0, 200, 201, 204, 400, 401, 403, 404, 409, 500},
           Answer(r, code), UNCHANGED <<users, friendships, created, pushes, crossed>>
    PROVE  IInv'
<1>1. TableStep
  BY SameTable DEF IInv
<1>2. TypeOK'
  BY AnswerEffect DEF IInv, TypeOK, Exists, Ends
<1>3. CallOK(r)'
  BY AnswerEffect DEF IInv, CallOK
<1>4. CallInv'
  BY <1>1, <1>2, <1>3, CallFrame, AnswerEffect DEF IInv, CallInv
<1>5. QED BY <1>1, <1>2, <1>4, PushFrame DEF IInv

\* A call that goes on to its write.
LEMMA OnToWrite ==
    ASSUME IInv, NEW r \in Request, req[r].pc = "find",
           req' = [req EXCEPT ![r].pc = "write"],
           UNCHANGED <<users, friendships, created, pushes, crossed>>,
           req[r].op # "request" =>
             /\ req[r].row <= created
             /\ req[r].user \in Ends(req[r].row)
             /\ req[r].op = "accept"
                  => req[r].user = friendships[req[r].row].receiverId
    PROVE  IInv'
<1>1. TableStep
  BY SameTable DEF IInv
<1>2. TypeOK'
  BY WriteEffect DEF IInv, TypeOK, Exists, Ends
<1>3. CallOK(r)'
  BY WriteEffect DEF IInv, CallInv, CallOK, Exists, Ends
<1>4. CallInv'
  BY <1>1, <1>2, <1>3, CallFrame, WriteEffect DEF IInv, CallInv
<1>5. QED BY <1>1, <1>2, <1>4, PushFrame DEF IInv

LEMMA CreateRowKeeps ==
    ASSUME IInv, NEW r \in Request, CreateRow(r)
    PROVE  IInv' /\ TableStep
<1> DEFINE u == req[r].user
           t == req[r].peer
           f == created + 1
<1>1. /\ u \in User /\ t \in User /\ t # u
      /\ created \in 0 .. MaxRows /\ MaxRows \in Nat
  BY MaxRowsNat DEF CreateRow, IInv, CallInv, CallOK, TypeOK
<1>2. CASE Answer(r, 500) /\ UNCHANGED <<friendships, created, crossed>>
  <2>1. UNCHANGED <<users, pushes>>
    BY DEF CreateRow
  <2>2. QED BY <1>2, <2>1, EndOfCall, SameTable DEF IInv
<1>3. CASE /\ {u, t} \subseteq users
           /\ f \in Id
           /\ friendships' = [friendships EXCEPT ![f] =
                [initiatorId |-> u, receiverId |-> t, status |-> "PENDING"]]
           /\ created' = f
           /\ crossed' = IF Crossing(r) THEN crossed \cup {f} ELSE crossed
           /\ Notifying(r, f, t)
  <2> DEFINE new == [initiatorId |-> u, receiverId |-> t, status |-> "PENDING"]
  <2>1. new \in Row /\ new # NoRow
    BY <1>1, NoRowApart DEF Row, FriendshipStatus
  <2>2. /\ friendships' \in [Id -> Row \cup {NoRow}]
        /\ friendships'[f] = new
        /\ \A g \in Id : g # f => friendships'[g] = friendships[g]
    BY <1>3, <2>1 DEF IInv, TypeOK
  <2>3. TableStep
    BY <1>1, <1>3, <2>2 DEF TableStep, Id
  <2>4. /\ req' \in [Request -> Slot]
        /\ req'[r].pc = "notify" /\ req'[r].op = "request"
        /\ req'[r].row = f /\ req'[r].peer = t
        /\ \A q \in Request : q # r => req'[q] = req[q]
    BY <1>1, <1>3, NotifyingEffect DEF IInv, CreateRow
  <2>5. \A g \in Id : Exists(g)' => /\ g <= created'
                                    /\ Ends(g)' \subseteq users
                                    /\ friendships'[g].initiatorId
                                         # friendships'[g].receiverId
    BY <1>1, <1>3, <2>2 DEF IInv, TypeOK, Exists, Ends, Id
  <2>6. TypeOK'
    <3>1. UNCHANGED <<users, pushes>>
      BY DEF CreateRow
    <3>2. created' \in 0 .. MaxRows /\ crossed' \subseteq Id
      BY <1>1, <1>3 DEF Id, IInv, TypeOK
    <3>3. QED BY <2>2, <2>4, <2>5, <3>1, <3>2 DEF IInv, TypeOK, Ends
  <2>7. CallOK(r)'
    BY <1>1, <1>3, <2>2, <2>4 DEF CallOK
  <2>8. CallInv'
    BY <2>3, <2>4, <2>6, <2>7, CallFrame DEF CallInv
  <2>9. QED
    BY <2>3, <2>6, <2>8, PushFrame DEF IInv, CreateRow
<1>4. QED BY <1>2, <1>3 DEF CreateRow

LEMMA UpdateRowKeeps ==
    ASSUME IInv, NEW r \in Request, UpdateRow(r)
    PROVE  IInv' /\ TableStep
<1> DEFINE f == req[r].row
           st == IF req[r].op = "accept" THEN "ACCEPTED" ELSE "BLOCKED"
<1>1. /\ f \in Id /\ req[r].pc = "write" /\ req[r].op \in {"accept", "block"}
      /\ f <= created
  BY DEF UpdateRow, IInv, CallInv, CallOK
<1>2. CASE Answer(r, 500) /\ UNCHANGED friendships
  BY <1>2, EndOfCall, SameTable DEF IInv, UpdateRow
<1>3. CASE /\ Exists(f)
           /\ friendships' = [friendships EXCEPT ![f].status = st]
           /\ IF req[r].op = "accept"
              THEN Notifying(r, f, friendships[f].initiatorId)
              ELSE Answer(r, 200)
  <2>1. friendships[f] \in Row /\ st \in FriendshipStatus /\ st # "PENDING"
    BY <1>1, <1>3 DEF IInv, TypeOK, Exists, FriendshipStatus
  <2>2. /\ friendships' \in [Id -> Row \cup {NoRow}]
        /\ friendships'[f] \in Row
        /\ friendships'[f].initiatorId = friendships[f].initiatorId
        /\ friendships'[f].receiverId = friendships[f].receiverId
        /\ friendships'[f].status = st
        /\ \A g \in Id : g # f => friendships'[g] = friendships[g]
    BY <1>1, <1>3, <2>1 DEF IInv, TypeOK, Row
  <2>3. \A g \in Id : /\ friendships'[g] # NoRow <=> friendships[g] # NoRow
                      /\ friendships'[g].initiatorId = friendships[g].initiatorId
                      /\ friendships'[g].receiverId = friendships[g].receiverId
    BY <1>3, <2>2, NoRowApart DEF Exists
  <2>4. TableStep
    BY <2>1, <2>2, <2>3, MaxRowsNat DEF TableStep, UpdateRow, IInv, TypeOK
  <2>5. /\ req' \in [Request -> Slot]
        /\ \A q \in Request : q # r => req'[q] = req[q]
        /\ \/ req'[r].pc = "idle"
           \/ /\ req'[r].pc = "notify" /\ req'[r].op = "accept"
              /\ req'[r].row = f /\ req'[r].peer = friendships[f].initiatorId
              /\ st = "ACCEPTED"
    BY <1>1, <1>3, <2>1, NotifyingEffect, AnswerEffect DEF IInv, Row
  <2>6. TypeOK'
    <3>1. UNCHANGED <<users, created, pushes, crossed>>
      BY DEF UpdateRow
    <3>2. \A g \in Id : Exists(g)' => /\ g <= created'
                                      /\ Ends(g)' \subseteq users'
                                      /\ friendships'[g].initiatorId
                                           # friendships'[g].receiverId
      BY <2>3, <3>1 DEF IInv, TypeOK, Exists, Ends
    <3>3. QED BY <2>2, <2>5, <3>1, <3>2 DEF IInv, TypeOK
  <2>7. CallOK(r)'
    BY <1>1, <2>1, <2>2, <2>5 DEF CallOK, UpdateRow, Row
  <2>8. CallInv'
    BY <2>4, <2>5, <2>6, <2>7, CallFrame DEF CallInv
  <2>9. QED
    BY <2>4, <2>6, <2>8, PushFrame DEF IInv, UpdateRow
<1>4. QED BY <1>2, <1>3 DEF UpdateRow

\* Rows that go, one or those of a user, with everything else in place.
LEMMA RowsGo ==
    ASSUME IInv, users' \subseteq users, created' = created,
           friendships' \in [Id -> Row \cup {NoRow}],
           \A g \in Id : \/ friendships'[g] = NoRow
                         \/ /\ friendships'[g] = friendships[g]
                            /\ Exists(g) => Ends(g) \subseteq users'
    PROVE  /\ TableStep
           /\ \A g \in Id : Exists(g)' => /\ g <= created'
                                          /\ Ends(g)' \subseteq users'
                                          /\ friendships'[g].initiatorId
                                               # friendships'[g].receiverId
BY MaxRowsNat DEF TableStep, IInv, TypeOK, Exists, Ends

LEMMA DeleteRowKeeps ==
    ASSUME IInv, NEW r \in Request, DeleteRow(r)
    PROVE  IInv' /\ TableStep
<1> DEFINE f == req[r].row
<1>1. f \in Id
  BY DEF DeleteRow, IInv, CallInv, CallOK
<1>2. CASE Answer(r, 500) /\ UNCHANGED <<friendships, crossed>>
  BY <1>2, EndOfCall, SameTable DEF IInv, DeleteRow
<1>3. CASE /\ friendships' = [friendships EXCEPT ![f] = NoRow]
           /\ crossed' = crossed \ {f}
           /\ Answer(r, 204)
  <2>1. /\ friendships' \in [Id -> Row \cup {NoRow}]
        /\ \A g \in Id : friendships'[g] = IF g = f THEN NoRow ELSE friendships[g]
    BY <1>1, <1>3 DEF IInv, TypeOK
  <2>2. UNCHANGED <<users, created, pushes>>
    BY DEF DeleteRow
  <2>3. \A g \in Id : Exists(g) => Ends(g) \subseteq users'
    BY <2>2 DEF IInv, TypeOK
  <2>4. /\ TableStep
        /\ \A g \in Id : Exists(g)' => /\ g <= created'
                                       /\ Ends(g)' \subseteq users'
                                       /\ friendships'[g].initiatorId
                                            # friendships'[g].receiverId
    BY <2>1, <2>2, <2>3, RowsGo
  <2>5. TypeOK'
    BY <1>3, <2>1, <2>2, <2>4, AnswerEffect DEF IInv, TypeOK
  <2>6. CallOK(r)'
    BY <1>3, AnswerEffect DEF IInv, CallOK
  <2>7. CallInv'
    BY <1>3, <2>4, <2>5, <2>6, CallFrame, AnswerEffect DEF IInv, CallInv
  <2>8. QED BY <2>2, <2>4, <2>5, <2>7, PushFrame DEF IInv
<1>4. QED BY <1>2, <1>3 DEF DeleteRow

LEMMA DeleteAccountKeeps ==
    ASSUME IInv, NEW u \in User, DeleteAccount(u)
    PROVE  IInv' /\ TableStep
<1>1. /\ friendships' \in [Id -> Row \cup {NoRow}]
      /\ users' \subseteq users
      /\ \A g \in Id : \/ friendships'[g] = NoRow
                       \/ /\ friendships'[g] = friendships[g]
                          /\ Exists(g) => Ends(g) \subseteq users'
  BY DEF DeleteAccount, IInv, TypeOK, Exists
<1>2. UNCHANGED <<created, req, pushes>> /\ crossed' \subseteq crossed
  BY DEF DeleteAccount
<1>3. /\ TableStep
      /\ \A g \in Id : Exists(g)' => /\ g <= created'
                                     /\ Ends(g)' \subseteq users'
                                     /\ friendships'[g].initiatorId
                                          # friendships'[g].receiverId
  BY <1>1, <1>2, RowsGo
<1>4. TypeOK'
  BY <1>1, <1>2, <1>3 DEF IInv, TypeOK
<1>5. CallInv'
  BY <1>2, <1>3, <1>4, CallFrame DEF CallInv
<1>6. QED BY <1>2, <1>3, <1>4, <1>5, PushFrame DEF IInv

LEMMA NotifyKeeps ==
    ASSUME IInv, NEW r \in Request, Notify(r)
    PROVE  IInv' /\ TableStep
<1> DEFINE p == [kind |-> req[r].op, row |-> req[r].row, to |-> req[r].peer]
<1>1. /\ UNCHANGED <<users, friendships, created, crossed>>
      /\ pushes' = pushes \cup {p}
  BY DEF Notify
<1>2. PICK code \in {200, 201} : Answer(r, code)
  BY DEF Notify
<1>3. /\ p \in [kind : {"request", "accept"}, row : Id, to : User]
      /\ p.row <= created
      /\ Exists(p.row) => IF p.kind = "accept"
                          THEN /\ p.to = friendships[p.row].initiatorId
                               /\ friendships[p.row].status # "PENDING"
                          ELSE p.to = friendships[p.row].receiverId
  BY DEF Notify, IInv, CallInv, CallOK
<1>4. TableStep
  BY <1>1, SameTable DEF IInv
<1>5. TypeOK'
  BY <1>1, <1>2, <1>3, AnswerEffect DEF IInv, TypeOK, Exists, Ends
<1>6. CallOK(r)'
  BY <1>2, AnswerEffect DEF IInv, CallOK
<1>7. CallInv'
  BY <1>2, <1>4, <1>5, <1>6, CallFrame, AnswerEffect DEF IInv, CallInv
<1>8. PushInv'
  BY <1>1, <1>3 DEF IInv, PushInv, PushesTruthful, Exists
<1>9. QED BY <1>4, <1>5, <1>7, <1>8 DEF IInv

LEMMA ReceiveKeeps ==
    ASSUME IInv, NEW r \in Request,
           \/ \E u, t \in User : ReceiveRequest(r, u, t)
           \/ \E op \in Op \ {"request"}, u \in User, f \in Id :
                ReceiveChange(r, op, u, f)
    PROVE  IInv' /\ TableStep
<1>1. UNCHANGED <<users, friendships, created, pushes, crossed>>
  BY DEF ReceiveRequest, ReceiveChange
<1>2. TableStep
  BY <1>1, SameTable DEF IInv
<1>3. CASE \E code \in {400, 401} : Answer(r, code)
  BY <1>1, <1>2, <1>3, EndOfCall
<1>4. ASSUME NEW u \in User, NEW t \in User, u # t,
             req' = [req EXCEPT ![r] = [pc |-> "find", op |-> "request",
                       user |-> u, peer |-> t, row |-> 0]]
      PROVE  IInv'
  <2>1. TypeOK'
    BY <1>1, <1>4 DEF IInv, TypeOK, Slot, Op, Exists, Ends
  <2>2. /\ CallOK(r)'
        /\ \A q \in Request : q # r => req'[q] = req[q]
    BY <1>4 DEF IInv, TypeOK, CallOK
  <2>3. QED
    BY <1>1, <1>2, <2>1, <2>2, CallFrame, PushFrame DEF IInv, CallInv
<1>5. ASSUME NEW op \in Op \ {"request"}, NEW u \in User, NEW f \in Id,
             req' = [req EXCEPT ![r] = [pc |-> "find", op |-> op,
                       user |-> u, peer |-> NoUser, row |-> f]]
      PROVE  IInv'
  <2>1. TypeOK'
    BY <1>1, <1>5 DEF IInv, TypeOK, Slot, Op, Exists, Ends
  <2>2. /\ CallOK(r)'
        /\ \A q \in Request : q # r => req'[q] = req[q]
    BY <1>5 DEF IInv, TypeOK, CallOK
  <2>3. QED
    BY <1>1, <1>2, <2>1, <2>2, CallFrame, PushFrame DEF IInv, CallInv
<1>6. QED
  BY <1>2, <1>3, <1>4, <1>5 DEF ReceiveRequest, ReceiveChange

LEMMA FindKeeps ==
    ASSUME IInv, NEW r \in Request, FindPair(r) \/ FindRow(r) \/ Fail(r)
    PROVE  IInv' /\ TableStep
<1>1. UNCHANGED <<users, friendships, created, pushes, crossed>>
  BY DEF FindPair, FindRow, Fail
<1>2. TableStep
  BY <1>1, SameTable DEF IInv
<1>3. CASE \E code \in {0, 400, 403, 404, 409} : Answer(r, code)
  BY <1>1, <1>2, <1>3, EndOfCall
<1>4. CASE req[r].pc = "find" /\ req' = [req EXCEPT ![r].pc = "write"]
  <2>1. ASSUME req[r].op # "request"
        PROVE  /\ req[r].row <= created
               /\ req[r].user \in Ends(req[r].row)
               /\ req[r].op = "accept"
                    => req[r].user = friendships[req[r].row].receiverId
    <3>1. req[r].pc = "find" /\ req[r].row \in Id
      BY <1>4, <2>1 DEF IInv, CallInv, CallOK
    <3>2. ~\E code \in {0, 400, 403, 404, 409} : Answer(r, code)
      BY <1>4, <3>1, AnswerEffect, WriteEffect DEF IInv
    <3>3. Exists(req[r].row)
      BY <2>1, <3>1, <3>2 DEF FindPair, FindRow, Fail
    <3>4. req[r].row <= created
      BY <3>1, <3>3 DEF IInv, TypeOK
    <3>5. QED BY <2>1, <3>2, <3>3, <3>4 DEF FindPair, FindRow, Fail, Ends
  <2>2. QED BY <1>1, <1>2, <1>4, <2>1, OnToWrite
<1>5. QED BY <1>3, <1>4 DEF FindPair, FindRow, Fail

-----------------------------------------------------------------------------
LEMMA StepKeeps ==
    ASSUME IInv, [Next]_vars PROVE IInv' /\ TableStep
<1>1. CASE UNCHANGED vars
  <2>1. IInv'
    BY <1>1 DEF vars, IInv, TypeOK, CallInv, CallOK, PushInv, PushesTruthful,
                Exists, Ends
  <2>2. QED BY <1>1, <2>1, SameTable DEF vars, IInv
<1>2. CASE Next
  BY <1>2, ReceiveKeeps, FindKeeps, CreateRowKeeps, UpdateRowKeeps,
     DeleteRowKeeps, NotifyKeeps, DeleteAccountKeeps DEF Next, Serve
<1>3. QED BY <1>1, <1>2

LEMMA Inductive == Spec => []IInv
<1>1. IInv /\ [Next]_vars => IInv'
  BY StepKeeps
<1>2. QED BY <1>1, Initially, PTL DEF Spec

\* Tables, slots and pushes keep their types; the users of a row exist.
THEOREM TypeCorrect == Spec => []TypeOK
BY Inductive, PTL DEF IInv

\* What a push says of a row that is still there is right, though it is sent
\* after the call was answered.
THEOREM PushesAreTruthful == Spec => []PushesTruthful
BY Inductive, PTL DEF IInv, PushInv

\* A request at its insert knows of the row in the other direction that has
\* come since its lookup, if there is one.
CrossInv ==
    \A r \in Request, f \in Id :
        (/\ req[r].pc = "write" /\ req[r].op = "request"
         /\ Exists(f)
         /\ friendships[f].initiatorId = req[r].peer
         /\ friendships[f].receiverId = req[r].user) => f \in crossed

\* A row that stays keeps its mark, and the calls at their inserts were there
\* before: all steps but the lookup and the insert of a request.
LEMMA CrossFrame ==
    ASSUME CrossInv, TwoRowsOnlyIfCrossed, TableStep, IInv, IInv',
           \A f \in Id : Exists(f)' => f <= created /\ (f \in crossed => f \in crossed'),
           \A q \in Request : (req'[q].pc = "write" /\ req'[q].op = "request")
                                 => req'[q] = req[q]
    PROVE  CrossInv' /\ TwoRowsOnlyIfCrossed'
<1>1. \A f \in Id : Exists(f)' =>
         /\ Exists(f) /\ Ends(f)' = Ends(f)
         /\ friendships'[f].initiatorId = friendships[f].initiatorId
         /\ friendships'[f].receiverId = friendships[f].receiverId
  BY DEF TableStep, Exists, Ends
<1>2. QED BY <1>1 DEF CrossInv, TwoRowsOnlyIfCrossed

LEMMA CrossCreate ==
    ASSUME CrossInv, TwoRowsOnlyIfCrossed, IInv, IInv', TableStep,
           NEW r \in Request, CreateRow(r)
    PROVE  CrossInv' /\ TwoRowsOnlyIfCrossed'
<1>1. \A q \in Request : (req'[q].pc = "write" /\ req'[q].op = "request")
                            => q # r /\ req'[q] = req[q]
  <2>1. CASE Answer(r, 500)
    BY <2>1, AnswerEffect DEF IInv
  <2>2. CASE created + 1 \in Id /\ Notifying(r, created + 1, req[r].peer)
    BY <2>2, NotifyingEffect DEF IInv, CallInv, CallOK, CreateRow
  <2>3. QED BY <2>1, <2>2 DEF CreateRow
<1>2. CASE UNCHANGED <<friendships, created, crossed>>
  <2>1. \A f \in Id : Exists(f)' => f <= created
    BY <1>2 DEF IInv, TypeOK, Exists
  <2>2. QED BY <1>1, <1>2, <2>1, CrossFrame
<1>3. CASE /\ created + 1 \in Id
           /\ ~DirectionTaken(req[r].user, req[r].peer)
           /\ friendships' = [friendships EXCEPT ![created + 1] =
                [initiatorId |-> req[r].user, receiverId |-> req[r].peer,
                 status |-> "PENDING"]]
           /\ crossed' = IF Crossing(r) THEN crossed \cup {created + 1}
                                        ELSE crossed
  <2>1. PICK n \in Id, u \in User, t \in User :
               n = created + 1 /\ u = req[r].user /\ t = req[r].peer
    BY <1>3 DEF CreateRow, IInv, CallInv, CallOK
  <2>2. /\ \A f \in Id : friendships'[f] =
              IF f = n THEN [initiatorId |-> u, receiverId |-> t,
                             status |-> "PENDING"]
                       ELSE friendships[f]
        /\ crossed \subseteq crossed'
        /\ Crossing(r) => n \in crossed'
    BY <1>3, <2>1 DEF IInv, TypeOK
  <2>3. \A f \in Id : Exists(f) => f < n
    BY <2>1, MaxRowsNat DEF IInv, TypeOK, Id
  <2>4. /\ \A f \in Id : f # n => /\ Exists(f)' <=> Exists(f)
                                  /\ Ends(f)' = Ends(f)
                                  /\ friendships'[f] = friendships[f]
        /\ Ends(n)' = {u, t}
        /\ friendships'[n].initiatorId = u /\ friendships'[n].receiverId = t
    BY <2>2 DEF Exists, Ends
  <2>5. CrossInv'
    <3> SUFFICES ASSUME NEW q \in Request, NEW f \in Id,
                        req'[q].pc = "write", req'[q].op = "request", Exists(f)',
                        friendships'[f].initiatorId = req'[q].peer,
                        friendships'[f].receiverId = req'[q].user
                 PROVE  f \in crossed'
      BY DEF CrossInv
    <3>1. req'[q] = req[q]
      BY <1>1
    <3>2. CASE f = n
      BY <2>1, <2>2, <2>4, <3>1, <3>2 DEF Crossing
    <3>3. CASE f # n
      BY <2>2, <2>4, <3>1, <3>3 DEF CrossInv
    <3>4. QED BY <3>2, <3>3
  <2>6. TwoRowsOnlyIfCrossed'
    <3> SUFFICES ASSUME NEW f \in Id, NEW g \in Id, Exists(f)', Exists(g)',
                        f < g, Ends(f)' = Ends(g)'
                 PROVE  /\ friendships'[f].initiatorId = friendships'[g].receiverId
                        /\ f \in crossed'
      BY DEF TwoRowsOnlyIfCrossed
    <3>1. f # n
      BY <2>3, <2>4, MaxRowsNat DEF Id
    <3>2. CASE g = n
      <4>1. Exists(f) /\ Ends(f) = {u, t}
        BY <2>4, <3>1, <3>2
      <4>2. ~(friendships[f].initiatorId = u /\ friendships[f].receiverId = t)
        BY <1>3, <2>1, <4>1 DEF DirectionTaken
      <4>3. friendships[f].initiatorId = t /\ friendships[f].receiverId = u
        BY <4>1, <4>2 DEF Ends
      <4>4. f \in crossed
        BY <2>1, <4>1, <4>3 DEF CrossInv, CreateRow
      <4>5. QED BY <2>2, <2>4, <3>1, <3>2, <4>3, <4>4
    <3>3. CASE g # n
      BY <2>2, <2>4, <3>1, <3>3 DEF TwoRowsOnlyIfCrossed
    <3>4. QED BY <3>2, <3>3
  <2>7. QED BY <2>5, <2>6
<1>4. QED BY <1>2, <1>3 DEF CreateRow

\* Two users have two rows only if their requests crossed: the lookup is for
\* both directions, the key for one.
THEOREM OnlyCrossedRequestsDouble == Spec => []TwoRowsOnlyIfCrossed
<1>1. Init => CrossInv /\ TwoRowsOnlyIfCrossed
  BY DEF Init, CrossInv, TwoRowsOnlyIfCrossed, Exists
<1>2. CrossInv /\ TwoRowsOnlyIfCrossed /\ IInv /\ IInv' /\ [Next]_vars
        => CrossInv' /\ TwoRowsOnlyIfCrossed'
  <2> SUFFICES ASSUME CrossInv, TwoRowsOnlyIfCrossed, IInv, IInv', [Next]_vars
               PROVE  CrossInv' /\ TwoRowsOnlyIfCrossed'
    OBVIOUS
  <2>1. TableStep
    BY StepKeeps
  <2>2. ASSUME NEW r \in Request, CreateRow(r)
        PROVE  CrossInv' /\ TwoRowsOnlyIfCrossed'
    BY <2>1, <2>2, CrossCreate
  <2>3. ASSUME NEW r \in Request, FindPair(r)
        PROVE  CrossInv' /\ TwoRowsOnlyIfCrossed'
    <3>1. UNCHANGED <<friendships, created, crossed>>
      BY <2>3 DEF FindPair
    <3>2. \A f \in Id : (Exists(f)' <=> Exists(f)) /\ Ends(f)' = Ends(f)
      BY <3>1 DEF Exists, Ends
    <3>3. \A f \in Id : Exists(f)' => f <= created
      BY <3>2 DEF IInv, TypeOK
    <3>4. CASE Answer(r, 409)
      <4>1. \A q \in Request : req'[q].pc = "write" => req'[q] = req[q]
        BY <3>4, AnswerEffect DEF IInv
      <4>2. QED BY <2>1, <3>1, <3>3, <4>1, CrossFrame
    <3>5. CASE /\ req' = [req EXCEPT ![r].pc = "write"]
               /\ ~DirectionTaken(req[r].peer, req[r].user)
      <4>1. /\ req'[r].user = req[r].user /\ req'[r].peer = req[r].peer
            /\ \A q \in Request : q # r => req'[q] = req[q]
        BY <3>5, WriteEffect DEF IInv
      <4>2. CrossInv'
        BY <3>1, <3>2, <3>5, <4>1 DEF CrossInv, DirectionTaken
      <4>3. QED BY <3>1, <3>2, <4>2 DEF TwoRowsOnlyIfCrossed
    <3>6. QED BY <2>3, <3>4, <3>5 DEF FindPair
  <2>4. CASE ~\E r \in Request : CreateRow(r) \/ FindPair(r)
    <3>1. \A f \in Id : Exists(f)' =>
             f <= created /\ (f \in crossed => f \in crossed')
      <4>1. created' = created
        BY <2>4 DEF Next, Serve, vars, ReceiveRequest, ReceiveChange, FindRow,
                    UpdateRow, DeleteRow, Notify, Fail, DeleteAccount
      <4>2. \A f \in Id : Exists(f)' => f <= created
        BY <4>1 DEF IInv, TypeOK
      <4>3. CASE UNCHANGED crossed
        BY <4>2, <4>3
      <4>4. ASSUME NEW r \in Request, DeleteRow(r), crossed' # crossed
            PROVE  \A f \in Id : Exists(f)' => (f \in crossed => f \in crossed')
        BY <4>4 DEF DeleteRow, IInv, TypeOK, Exists
      <4>5. ASSUME NEW u \in User, DeleteAccount(u)
            PROVE  \A f \in Id : Exists(f)' => (f \in crossed => f \in crossed')
        BY <4>5 DEF DeleteAccount, Exists
      <4>6. QED
        BY <2>4, <4>2, <4>3, <4>4, <4>5 DEF Next, Serve, vars, ReceiveRequest,
           ReceiveChange, FindRow, UpdateRow, DeleteRow, Notify, Fail
    <3>2. \A q \in Request : (req'[q].pc = "write" /\ req'[q].op = "request")
                                => req'[q] = req[q]
      <4>1. CASE UNCHANGED req
        BY <4>1
      <4>2. ASSUME NEW r \in Request, \E code \in {0, 200, 201, 204, 400, 401,
                                          403, 404, 409, 500} : Answer(r, code)
            PROVE  \A q \in Request : req'[q].pc = "write" => req'[q] = req[q]
        BY <4>2, AnswerEffect DEF IInv
      <4>3. ASSUME NEW r \in Request, NEW u \in User, NEW t \in User,
                   ReceiveRequest(r, u, t)
            PROVE  \A q \in Request : req'[q].pc = "write" => req'[q] = req[q]
        BY <4>2, <4>3 DEF ReceiveRequest, IInv, TypeOK
      <4>4. ASSUME NEW r \in Request, NEW op \in Op \ {"request"},
                   NEW u \in User, NEW f \in Id, ReceiveChange(r, op, u, f)
            PROVE  \A q \in Request : req'[q].pc = "write" => req'[q] = req[q]
        BY <4>2, <4>4 DEF ReceiveChange, IInv, TypeOK
      <4>5. ASSUME NEW r \in Request, FindRow(r)
            PROVE  \A q \in Request : (/\ req'[q].pc = "write"
                                       /\ req'[q].op = "request")
                                         => req'[q] = req[q]
        <5>1. CASE \E code \in {400, 403, 404} : Answer(r, code)
          BY <4>2, <5>1
        <5>2. CASE req' = [req EXCEPT ![r].pc = "write"]
          BY <4>5, <5>2, WriteEffect DEF FindRow, IInv
        <5>3. QED BY <4>5, <5>1, <5>2 DEF FindRow
      <4>6. ASSUME NEW r \in Request,
                   UpdateRow(r) \/ DeleteRow(r) \/ Notify(r) \/ Fail(r)
            PROVE  \A q \in Request : req'[q].pc = "write" => req'[q] = req[q]
        <5>1. CASE \E code \in {0, 200, 201, 204, 500} : Answer(r, code)
          BY <4>2, <5>1
        <5>2. CASE /\ UpdateRow(r) /\ Exists(req[r].row)
                   /\ Notifying(r, req[r].row,
                                friendships[req[r].row].initiatorId)
          <6>1. req[r].row \in Id
            BY <5>2 DEF UpdateRow, IInv, CallInv, CallOK
          <6>2. friendships[req[r].row].initiatorId \in User
            BY <5>2, <6>1 DEF IInv, TypeOK, Exists, Row
          <6>3. QED BY <5>2, <6>1, <6>2, NotifyingEffect DEF IInv
        <5>3. QED BY <4>6, <5>1, <5>2 DEF UpdateRow, DeleteRow, Notify, Fail
      <4>7. QED
        BY <2>4, <4>1, <4>3, <4>4, <4>5, <4>6 DEF Next, Serve, vars,
           DeleteAccount
    <3>3. QED BY <2>1, <3>1, <3>2, CrossFrame
  <2>5. QED BY <2>2, <2>3, <2>4
<1>3. QED BY <1>1, <1>2, Inductive, PTL DEF Spec

\* A row changes only in the write of a call that its user may make, and is
\* accepted only by its receiver, or goes with one of its users.
THEOREM OnlyPartiesChange == Spec => OnlyParties
<1> DEFINE A == \A f \in Id : (Exists(f) /\ friendships'[f] # friendships[f]) =>
          \/ ~(Ends(f) \subseteq users')
          \/ \E r \in Request :
               /\ req[r].pc = "write" /\ req'[r].pc # "write"
               /\ req[r].row = f
               /\ req[r].user \in Ends(f)
               /\ (friendships'[f] # NoRow /\ friendships'[f].status = "ACCEPTED")
                    => req[r].user = friendships[f].receiverId
<1>1. IInv /\ [Next]_vars => [A]_vars
  <2> SUFFICES ASSUME IInv, [Next]_vars,
                      NEW f \in Id, Exists(f), friendships'[f] # friendships[f]
               PROVE  \/ ~(Ends(f) \subseteq users')
                      \/ \E r \in Request :
                           /\ req[r].pc = "write" /\ req'[r].pc # "write"
                           /\ req[r].row = f
                           /\ req[r].user \in Ends(f)
                           /\ (/\ friendships'[f] # NoRow
                               /\ friendships'[f].status = "ACCEPTED")
                                => req[r].user = friendships[f].receiverId
    OBVIOUS
  <2>1. CASE \E u \in User : DeleteAccount(u)
    BY <2>1 DEF DeleteAccount
  <2>2. ASSUME NEW r \in Request, CreateRow(r) PROVE FALSE
    BY <2>2 DEF CreateRow, IInv, TypeOK
  <2>3. ASSUME NEW r \in Request, UpdateRow(r) \/ DeleteRow(r)
        PROVE  /\ req[r].pc = "write" /\ req'[r].pc # "write"
               /\ req[r].row = f
               /\ req[r].user \in Ends(f)
               /\ (friendships'[f] # NoRow /\ friendships'[f].status = "ACCEPTED")
                    => req[r].user = friendships[f].receiverId
    <3>1. /\ req[r].pc = "write" /\ req[r].op # "request"
          /\ req[r].row \in Id
      BY <2>3 DEF UpdateRow, DeleteRow, IInv, CallInv, CallOK
    <3>2. req[r].row = f
      BY <2>3, <3>1 DEF UpdateRow, DeleteRow, IInv, TypeOK
    <3>3. /\ req[r].user \in Ends(f)
          /\ req[r].op = "accept" => req[r].user = friendships[f].receiverId
      BY <3>1, <3>2 DEF IInv, CallInv, CallOK
    <3>4. req'[r].pc # "write"
      <4>1. ASSUME UpdateRow(r), req[r].op = "accept"
            PROVE  Notifying(r, f, friendships[f].initiatorId)
        BY <3>2, <4>1 DEF UpdateRow
      <4>2. friendships[f].initiatorId \in User
        BY DEF IInv, TypeOK, Exists, Row
      <4>3. CASE UpdateRow(r) /\ req[r].op = "accept"
        BY <4>1, <4>2, <4>3, NotifyingEffect DEF IInv
      <4>4. CASE ~(UpdateRow(r) /\ req[r].op = "accept")
        <5>1. \E code \in {200, 204, 500} : Answer(r, code)
          BY <2>3, <4>4 DEF UpdateRow, DeleteRow
        <5>2. QED BY <5>1, AnswerEffect DEF IInv
      <4>5. QED BY <4>3, <4>4
    <3>5. (friendships'[f] # NoRow /\ friendships'[f].status = "ACCEPTED")
            => req[r].op = "accept"
      BY <2>3, <3>1, <3>2 DEF UpdateRow, DeleteRow, IInv, TypeOK, Row, Exists
    <3>6. QED BY <3>1, <3>2, <3>3, <3>4, <3>5
  <2>4. QED
    BY <2>1, <2>2, <2>3 DEF Next, Serve, vars, ReceiveRequest, ReceiveChange,
       FindPair, FindRow, Notify, Fail
<1>2. QED BY <1>1, Inductive, PTL DEF Spec, OnlyParties

-----------------------------------------------------------------------------
\* Calls that do not overlap: one slot.
OneAtATime == \A r, q \in Request : r = q

\* With nobody else writing, what a call read still holds when it writes.
SequentialInv ==
    /\ OneFriendshipPerPair
    /\ \A r \in Request : req[r].pc = "write" =>
         IF req[r].op = "request"
         THEN \A f \in Id : Exists(f) => Ends(f) # {req[r].user, req[r].peer}
         ELSE /\ users = User => Exists(req[r].row)
              /\ (Exists(req[r].row) /\ req[r].op = "accept")
                   => friendships[req[r].row].status = "PENDING"

LEMMA SequentialInductive ==
    ASSUME OneAtATime PROVE Spec => []SequentialInv
<1>1. Init => SequentialInv
  BY DEF Init, SequentialInv, OneFriendshipPerPair, Exists, Idle
<1>2. SequentialInv /\ IInv /\ [Next]_vars => SequentialInv'
  <2> SUFFICES ASSUME SequentialInv, IInv, [Next]_vars PROVE SequentialInv'
    OBVIOUS
  <2>1. ASSUME NEW r \in Request, \E code \in {0, 200, 201, 204, 400, 401, 403,
                                               404, 409, 500} : Answer(r, code)
        PROVE  \A q \in Request : req'[q].pc = "idle"
    BY <2>1, AnswerEffect DEF OneAtATime, IInv
  <2>2. CASE UNCHANGED vars
    BY <2>2 DEF vars, SequentialInv, OneFriendshipPerPair, Exists, Ends
  <2>3. ASSUME NEW r \in Request, NEW u \in User, NEW t \in User,
               ReceiveRequest(r, u, t)
        PROVE  SequentialInv'
    <3>1. \A q \in Request : req'[q].pc # "write"
      BY <2>1, <2>3 DEF ReceiveRequest, OneAtATime, IInv, TypeOK
    <3>2. QED BY <2>3, <3>1 DEF ReceiveRequest, SequentialInv,
                                OneFriendshipPerPair, Exists, Ends
  <2>4. ASSUME NEW r \in Request, NEW op \in Op \ {"request"}, NEW u \in User,
               NEW f \in Id, ReceiveChange(r, op, u, f)
        PROVE  SequentialInv'
    <3>1. \A q \in Request : req'[q].pc # "write"
      BY <2>1, <2>4 DEF ReceiveChange, OneAtATime, IInv, TypeOK
    <3>2. QED BY <2>4, <3>1 DEF ReceiveChange, SequentialInv,
                                OneFriendshipPerPair, Exists, Ends
  <2>5. ASSUME NEW r \in Request, FindPair(r) PROVE SequentialInv'
    <3>1. UNCHANGED friendships
      BY <2>5 DEF FindPair
    <3>2. CASE Answer(r, 409)
      BY <2>1, <3>1, <3>2 DEF SequentialInv, OneFriendshipPerPair, Exists, Ends
    <3>3. CASE /\ req' = [req EXCEPT ![r].pc = "write"]
               /\ ~DirectionTaken(req[r].user, req[r].peer)
               /\ ~DirectionTaken(req[r].peer, req[r].user)
      <4>1. \A f \in Id : Exists(f) => Ends(f) # {req[r].user, req[r].peer}
        BY <3>3 DEF DirectionTaken, Ends
      <4>2. QED
        <5>1. \A q \in Request : /\ q = r
                                 /\ req'[q].op = "request"
                                 /\ req'[q].user = req[q].user
                                 /\ req'[q].peer = req[q].peer
          BY <2>5, <3>3, WriteEffect DEF FindPair, OneAtATime, IInv
        <5>2. \A f \in Id : (Exists(f)' <=> Exists(f)) /\ Ends(f)' = Ends(f)
          BY <3>1 DEF Exists, Ends
        <5>3. QED
          BY <4>1, <5>1, <5>2 DEF SequentialInv, OneFriendshipPerPair
    <3>4. QED BY <2>5, <3>2, <3>3 DEF FindPair
  <2>6. ASSUME NEW r \in Request, FindRow(r) PROVE SequentialInv'
    <3>1. UNCHANGED friendships
      BY <2>6 DEF FindRow
    <3>2. CASE \E code \in {400, 403, 404} : Answer(r, code)
      <4>1. \A q \in Request : req'[q].pc = "idle"
        BY <2>1, <3>2
      <4>2. QED
        BY <3>1, <4>1 DEF SequentialInv, OneFriendshipPerPair, Exists, Ends
    <3>3. CASE /\ req' = [req EXCEPT ![r].pc = "write"]
               /\ Exists(req[r].row)
               /\ req[r].op = "accept"
                    => friendships[req[r].row].status = "PENDING"
      <4>1. \A q \in Request : /\ q = r
                               /\ req'[q].op = req[q].op /\ req[q].op # "request"
                               /\ req'[q].row = req[q].row
        BY <2>6, <3>3, WriteEffect DEF FindRow, OneAtATime, IInv
      <4>2. OneFriendshipPerPair'
        BY <3>1 DEF SequentialInv, OneFriendshipPerPair, Exists, Ends
      <4>3. QED BY <3>1, <3>3, <4>1, <4>2 DEF SequentialInv, Exists
    <3>4. QED BY <2>6, <3>2, <3>3 DEF FindRow
  <2>7. ASSUME NEW r \in Request, CreateRow(r) PROVE SequentialInv'
    <3> DEFINE u == req[r].user
               t == req[r].peer
               f == created + 1
    <3>1. \A q \in Request : req'[q].pc # "write"
      <4>1. CASE Answer(r, 500)
        BY <2>1, <4>1
      <4>2. CASE f \in Id /\ Notifying(r, f, t)
        BY <2>7, <4>2, NotifyingEffect
           DEF OneAtATime, IInv, CallInv, CallOK, CreateRow
      <4>3. QED BY <2>7, <4>1, <4>2 DEF CreateRow
    <3>2. CASE UNCHANGED friendships
      BY <3>1, <3>2 DEF SequentialInv, OneFriendshipPerPair, Exists, Ends
    <3>3. CASE /\ f \in Id
               /\ friendships' = [friendships EXCEPT ![f] =
                    [initiatorId |-> u, receiverId |-> t, status |-> "PENDING"]]
      <4>1. PICK k \in Id, v \in User, w \in User : k = f /\ v = u /\ w = t
        BY <2>7, <3>3 DEF CreateRow, IInv, CallInv, CallOK
      <4>2. \A g \in Id : friendships'[g] =
                IF g = k THEN [initiatorId |-> v, receiverId |-> w,
                               status |-> "PENDING"]
                         ELSE friendships[g]
        BY <3>3, <4>1 DEF IInv, TypeOK
      <4>3. \A g \in Id : Exists(g) => Ends(g) # {v, w}
        BY <2>7, <4>1 DEF CreateRow, SequentialInv
      <4>4. /\ Ends(k)' = {v, w}
            /\ \A g \in Id : g # k => /\ Ends(g)' = Ends(g)
                                      /\ Exists(g)' <=> Exists(g)
        BY <4>2 DEF Ends, Exists
      <4>5. OneFriendshipPerPair'
        BY <4>3, <4>4 DEF SequentialInv, OneFriendshipPerPair
      <4>6. QED BY <3>1, <4>5 DEF SequentialInv
    <3>4. QED BY <2>7, <3>2, <3>3 DEF CreateRow
  <2>8. ASSUME NEW r \in Request,
               UpdateRow(r) \/ DeleteRow(r) \/ Notify(r) \/ Fail(r)
        PROVE  SequentialInv'
    <3>1. \A q \in Request : req'[q].pc # "write"
      <4>1. CASE \E code \in {0, 200, 201, 204, 500} : Answer(r, code)
        BY <2>1, <4>1
      <4>2. CASE /\ UpdateRow(r) /\ Exists(req[r].row)
                 /\ Notifying(r, req[r].row, friendships[req[r].row].initiatorId)
        <5>1. req[r].row \in Id
          BY <4>2 DEF UpdateRow, IInv, CallInv, CallOK
        <5>2. friendships[req[r].row].initiatorId \in User
          BY <4>2, <5>1 DEF IInv, TypeOK, Exists, Row
        <5>3. QED BY <4>2, <5>1, <5>2, NotifyingEffect DEF OneAtATime, IInv
      <4>3. QED BY <2>8, <4>1, <4>2 DEF UpdateRow, DeleteRow, Notify, Fail
    <3>2. created' = created
      BY <2>8 DEF UpdateRow, DeleteRow, Notify, Fail
    <3>3. \A f \in Id : Exists(f)' => Exists(f) /\ Ends(f)' = Ends(f)
      BY <3>2, StepKeeps DEF TableStep, IInv, TypeOK, Exists, Ends
    <3>4. QED BY <3>1, <3>3 DEF SequentialInv, OneFriendshipPerPair
  <2>9. ASSUME NEW u \in User, DeleteAccount(u) PROVE SequentialInv'
    <3>1. /\ UNCHANGED req
          /\ users' # User
          /\ \A f \in Id : Exists(f)' => friendships'[f] = friendships[f]
      BY <2>9 DEF DeleteAccount, Exists
    <3>2. \A f \in Id : Exists(f)' => Exists(f) /\ Ends(f)' = Ends(f)
      BY <3>1 DEF Exists, Ends
    <3>3. \A r \in Request : (req[r].pc = "write" /\ req[r].op # "request")
                                => req[r].row \in Id
      BY DEF IInv, CallInv, CallOK
    <3>4. QED
      BY <3>1, <3>2, <3>3 DEF SequentialInv, OneFriendshipPerPair
  <2>10. QED
    BY <2>2, <2>3, <2>4, <2>5, <2>6, <2>7, <2>8, <2>9 DEF Next, Serve
<1>3. QED BY <1>1, <1>2, Inductive, PTL DEF Spec

\* Two users share one row while their calls do not overlap: the 409 of the
\* second request is then exact.
THEOREM SequentialFriendship ==
    ASSUME OneAtATime PROVE Spec => []OneFriendshipPerPair
BY SequentialInductive, PTL DEF SequentialInv

\* A call that overlaps with no other accepts only what is pending: the status
\* it read is the status it overwrites.
THEOREM SequentialAccept ==
    ASSUME OneAtATime PROVE Spec => AcceptOnlyPending
<1> DEFINE A == \A f \in Id :
                  (/\ Exists(f) /\ friendships'[f] # NoRow
                   /\ friendships'[f].status = "ACCEPTED"
                   /\ friendships'[f] # friendships[f])
                     => friendships[f].status = "PENDING"
<1>1. SequentialInv /\ IInv /\ [Next]_vars => [A]_vars
  <2> SUFFICES ASSUME SequentialInv, IInv, [Next]_vars,
                      NEW f \in Id, Exists(f), friendships'[f] # NoRow,
                      friendships'[f].status = "ACCEPTED",
                      friendships'[f] # friendships[f]
               PROVE  friendships[f].status = "PENDING"
    OBVIOUS
  <2>1. ASSUME NEW r \in Request, UpdateRow(r)
        PROVE  friendships[f].status = "PENDING"
    <3>1. req[r].row \in Id
      BY <2>1 DEF UpdateRow, IInv, CallInv, CallOK
    <3>2. req[r].row = f
      BY <2>1, <3>1 DEF UpdateRow, IInv, TypeOK
    <3>3. req[r].pc = "write" /\ req[r].op = "accept"
      BY <2>1, <3>1, <3>2 DEF UpdateRow, IInv, TypeOK, Row, Exists
    <3>4. QED BY <3>2, <3>3 DEF SequentialInv
  <2>2. ASSUME NEW r \in Request, CreateRow(r) PROVE FALSE
    BY <2>2 DEF CreateRow, IInv, TypeOK
  <2>3. ASSUME NEW r \in Request, DeleteRow(r) PROVE FALSE
    BY <2>3 DEF DeleteRow, IInv, TypeOK
  <2>4. ASSUME NEW u \in User, DeleteAccount(u) PROVE FALSE
    BY <2>4 DEF DeleteAccount
  <2>5. QED
    BY <2>1, <2>2, <2>3, <2>4 DEF Next, Serve, vars, ReceiveRequest,
       ReceiveChange, FindPair, FindRow, Notify, Fail
<1>2. QED
  BY <1>1, Inductive, SequentialInductive, PTL DEF Spec, AcceptOnlyPending

\* While all accounts exist, the write of a call that overlaps with no other
\* finds its row, or the direction it asks for free: no 500.
THEOREM SequentialErrors ==
    ASSUME OneAtATime PROVE Spec => []ErrorsNeedDeparture
<1>1. SequentialInv => ErrorsNeedDeparture
  BY DEF SequentialInv, ErrorsNeedDeparture, DirectionTaken, Ends
<1>2. QED BY <1>1, SequentialInductive, PTL

\* The write of a call that overlaps with no other is the atomic operation of
\* FriendGraph; nothing else moves its state.
THEOREM SequentialRefinement ==
    ASSUME OneAtATime PROVE Spec => RefinesFriendGraph
<1>1. Init => Graph!Init
  BY DEF Init, Graph!Init, Exists
<1>2. SequentialInv /\ IInv /\ [Next]_vars => [Graph!Next]_(Graph!gvars)
  <2> SUFFICES ASSUME SequentialInv, IInv, [Next]_vars
               PROVE  Graph!Next \/ UNCHANGED Graph!gvars
    OBVIOUS
  <2> DEFINE Live == {g \in Id : Exists(g)}
             Ties == {friendships[g] : g \in Live}
  <2>1. CASE UNCHANGED <<users, friendships>>
    BY <2>1 DEF Graph!gvars, Exists
  <2>2. \A k \in Ties : \E g \in Id : k = friendships[g] /\ Exists(g)
    OBVIOUS
  <2>3. ASSUME NEW r \in Request, CreateRow(r), friendships' # friendships
        PROVE  Graph!Next
    <3>1. PICK f \in Id, u \in User, t \in User :
                 /\ f = created + 1 /\ u = req[r].user /\ t = req[r].peer
                 /\ u # t
      BY <2>3 DEF CreateRow, IInv, CallInv, CallOK
    <3> DEFINE new == [initiatorId |-> u, receiverId |-> t, status |-> "PENDING"]
    <3>2. /\ {u, t} \subseteq users /\ UNCHANGED users
          /\ friendships' = [friendships EXCEPT ![f] = new]
      BY <2>3, <3>1 DEF CreateRow
    <3>3. /\ \A g \in Id : friendships'[g] = IF g = f THEN new ELSE friendships[g]
          /\ ~Exists(f)
          /\ new # NoRow
      BY <3>1, <3>2, NoRowApart
         DEF IInv, TypeOK, Row, FriendshipStatus
    <3>4. {friendships'[g] : g \in {h \in Id : friendships'[h] # NoRow}}
            = Ties \cup {new}
      BY <3>3 DEF Exists
    <3>5. \A k \in Ties : Graph!Ends(k) # {u, t}
      BY <2>2, <2>3, <3>1 DEF Graph!Ends, Ends, CreateRow, SequentialInv
    <3>6. Graph!Ask(u, t)
      BY <3>1, <3>2, <3>4, <3>5 DEF Graph!Ask, Graph!Tie, Exists
    <3>7. QED BY <3>6 DEF Graph!Next
  <2>4. ASSUME NEW r \in Request, UpdateRow(r), friendships' # friendships
        PROVE  Graph!Next
    <3>1. PICK f \in Id : f = req[r].row
      BY <2>4 DEF UpdateRow, IInv, CallInv, CallOK
    <3>2. PICK st \in {"ACCEPTED", "BLOCKED"} :
                 st = IF req[r].op = "accept" THEN "ACCEPTED" ELSE "BLOCKED"
      OBVIOUS
    <3>3. /\ Exists(f) /\ UNCHANGED users
          /\ friendships' = [friendships EXCEPT ![f].status = st]
      BY <2>4, <3>1, <3>2 DEF UpdateRow
    <3>4. PICK old \in Row : old = friendships[f]
      BY <3>3 DEF IInv, TypeOK, Exists
    <3> DEFINE new == Graph!Tie(old.initiatorId, old.receiverId, st)
    <3>5. new \in Row /\ new # NoRow
      BY <3>4, NoRowApart DEF Row, FriendshipStatus, Graph!Tie
    <3>6. \A g \in Id : friendships'[g] = IF g = f THEN new ELSE friendships[g]
      BY <3>3, <3>4 DEF IInv, TypeOK, Row, Graph!Tie
    <3>7. \A g \in Id : (Exists(g) /\ friendships[g] = old) => g = f
      BY <3>3, <3>4 DEF SequentialInv, OneFriendshipPerPair, Ends
    <3>8. old \in Ties
      BY <3>3, <3>4
    <3>9. {friendships'[g] : g \in {h \in Id : friendships'[h] # NoRow}}
            = (Ties \ {old}) \cup {new}
      <4> HIDE DEF new
      <4>1. QED BY <3>3, <3>4, <3>5, <3>6, <3>7 DEF Exists
    <3>10. CASE st = "ACCEPTED"
      <4>1. old.status = "PENDING"
        BY <2>4, <3>1, <3>2, <3>3, <3>4, <3>10 DEF UpdateRow, SequentialInv
      <4>2. Graph!Accept(old)
        BY <3>3, <3>8, <3>9, <3>10, <4>1 DEF Graph!Accept, Exists
      <4>3. QED BY <3>8, <4>2 DEF Graph!Next
    <3>11. CASE st = "BLOCKED"
      <4>1. Graph!Block(old)
        BY <3>3, <3>8, <3>9, <3>11 DEF Graph!Block, Exists
      <4>2. QED BY <3>8, <4>1 DEF Graph!Next
    <3>12. QED BY <3>10, <3>11
  <2>5. ASSUME NEW r \in Request, DeleteRow(r), friendships' # friendships
        PROVE  Graph!Next
    <3>1. PICK f \in Id : f = req[r].row
      BY <2>5 DEF DeleteRow, IInv, CallInv, CallOK
    <3>2. /\ Exists(f) /\ UNCHANGED users
          /\ friendships' = [friendships EXCEPT ![f] = NoRow]
      BY <2>5, <3>1 DEF DeleteRow
    <3>3. PICK old \in Row : old = friendships[f]
      BY <3>2 DEF IInv, TypeOK, Exists
    <3>4. \A g \in Id : friendships'[g] = IF g = f THEN NoRow ELSE friendships[g]
      BY <3>2 DEF IInv, TypeOK
    <3>5. \A g \in Id : (Exists(g) /\ friendships[g] = old) => g = f
      BY <3>2, <3>3 DEF SequentialInv, OneFriendshipPerPair, Ends
    <3>6. old \in Ties
      BY <3>2, <3>3
    <3>7. {friendships'[g] : g \in {h \in Id : friendships'[h] # NoRow}}
            = Ties \ {old}
      BY <3>2, <3>3, <3>4, <3>5 DEF Exists
    <3>8. Graph!Remove(old)
      BY <3>2, <3>6, <3>7 DEF Graph!Remove, Exists
    <3>9. QED BY <3>6, <3>8 DEF Graph!Next
  <2>6. ASSUME NEW u \in User, DeleteAccount(u) PROVE Graph!Next
    <3>1. \A g \in Id : friendships'[g] = IF Exists(g) /\ u \in Ends(g)
                                          THEN NoRow ELSE friendships[g]
      BY <2>6 DEF DeleteAccount
    <3>2. {friendships'[g] : g \in {h \in Id : friendships'[h] # NoRow}}
            = {k \in Ties : u \notin Graph!Ends(k)}
      BY <3>1 DEF Exists, Ends, Graph!Ends
    <3>3. Graph!Leave(u)
      BY <2>6, <3>2 DEF DeleteAccount, Graph!Leave, Exists
    <3>4. QED BY <3>3 DEF Graph!Next
  <2>7. QED
    BY <2>1, <2>3, <2>4, <2>5, <2>6 DEF Next, Serve, vars, ReceiveRequest,
       ReceiveChange, FindPair, FindRow, CreateRow, UpdateRow, DeleteRow,
       Notify, Fail
<1>3. QED
  BY <1>1, <1>2, Inductive, SequentialInductive, PTL
     DEF Spec, RefinesFriendGraph, Graph!Spec
=============================================================================
