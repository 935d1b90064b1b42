--------------------------- MODULE HistoryProofs ---------------------------
(***************************************************************************)
(* Proofs about History: what a client is given that follows the cursors,  *)
(* for every page size, number of messages, sockets and handlers.          *)
(***************************************************************************)
EXTENDS History, GatewayProofs, FiniteSetTheorems

\* What a reader of socket s has still to be given lies beyond its bound, or
\* beyond the message of its cursor.
PageOK(s) ==
    /\ ~reader[s].begun => /\ reader[s].present = {} /\ ~reader[s].live
                           /\ reader[s].cursor = 0 /\ reader[s].pc # "cursor"
    /\ (reader[s].pc = "idle" \/ ~reader[s].begun)
         => reader[s].before = MaxTime + 1
    /\ \A i \in reader[s].present : i <= made
    /\ reader[s].cursor <= made
    /\ \A i \in reader[s].present \cap Stored :
         /\ reader[s].pc = "find" =>
              Given(s, i) \/ messages[i].createdAt < reader[s].before
         /\ reader[s].pc \in {"idle", "cursor"} /\ reader[s].cursor \in Stored =>
              \/ Given(s, i)
              \/ messages[i].createdAt < messages[reader[s].cursor].createdAt
         /\ reader[s].pc = "end" => Given(s, i)

\* Message i was heard, or is about to be emitted.
Said(s, i) == i \in heard[s] \/ \E r \in Request : req[r].msg = i

\* Message i was there before, or was emitted since.
Accounted(s, i) == i \in reader[s].present \/ Said(s, i)

LiveOK(s) ==
    reader[s].live =>
        s \in room /\ \A i \in Stored \ unsaid : Accounted(s, i)

ReaderInv ==
    /\ reader \in [Client -> Paging]
    /\ \A s \in Client : PageOK(s) /\ LiveOK(s)

-----------------------------------------------------------------------------
\* Lemmas about the query of a page.

LEMMA StoredFinite == IsFiniteSet(Stored)
<1>1. IsFiniteSet(MessageId)
  BY FS_Interval, BoundsNat DEF MessageId
<1>2. QED BY <1>1, FS_Subset DEF Stored

\* A query that finds less than it might finds everything.
LEMMA NewestAll ==
    ASSUME NEW M, IsFiniteSet(M), NEW n \in Nat,
           NEW P \in Newest(n + 1, M), Cardinality(P) <= n
    PROVE  P = M
<1>1. P \in SUBSET M
      /\ Cardinality(P) = IF Cardinality(M) < n + 1 THEN Cardinality(M) ELSE n + 1
  BY DEF Newest
<1>2. Cardinality(M) \in Nat
  BY FS_CardinalityType
<1>3. Cardinality(P) = Cardinality(M)
  BY <1>1, <1>2
<1>4. QED BY <1>1, <1>3, FS_Subset

LEMMA NewestFew ==
    ASSUME NEW M, IsFiniteSet(M), NEW n \in Nat, NEW P \in Newest(n, M)
    PROVE  Cardinality(P) <= n
<1>1. Cardinality(M) \in Nat
  BY FS_CardinalityType
<1>2. QED BY <1>1 DEF Newest

\* Who is given a page answers for all that is newer than its last message.
LEMMA PageIsNewest ==
    ASSUME TypeOK, NEW M \in SUBSET Stored, NEW found \in Newest(Limit + 1, M),
           NEW data \in Newest(Limit, found), NEW last \in LastOf(data),
           NEW i \in M \ data
    PROVE  messages[i].createdAt <= messages[last].createdAt
<1>1. data \subseteq found /\ found \subseteq M /\ last \in data
  BY DEF Newest, LastOf
<1>2. CASE i \in found
  BY <1>1, <1>2 DEF Newest
<1>3. CASE i \notin found
  BY <1>1, <1>3 DEF Newest
<1>4. QED BY <1>2, <1>3

LEMMA Times ==
    ASSUME TypeOK, NEW i \in Stored
    PROVE  /\ i \in Nat \ {0} /\ i <= made /\ i \in MessageId
           /\ messages[i].createdAt \in Time
           /\ messages[i].createdAt < MaxTime + 1
<1>1. i \in MessageId /\ i <= made /\ messages[i] \in Message
  BY DEF TypeOK, Stored
<1>2. messages[i].createdAt \in Time
  BY <1>1 DEF Message
<1>3. QED BY <1>1, <1>2, BoundsNat DEF Time, MessageId

\* The answer to a page, in the words of ReaderInv.
LEMMA AnswerEffect ==
    ASSUME IInv, ReaderInv, NEW s \in Client, UNCHANGED vars,
           NEW data \in SUBSET Stored, NEW last \in data \cup {0},
           AnswerPage(s, data, last)
    PROVE  /\ reader' \in [Client -> Paging]
           /\ \A c \in Client : c # s => reader'[c] = reader[c]
           /\ reader'[s].pc = IF last = 0 THEN "end" ELSE "idle"
           /\ reader'[s].cursor = last /\ reader'[s].before = MaxTime + 1
           /\ reader'[s].begun
           /\ reader'[s].present \subseteq Stored \cup reader[s].present
           /\ reader[s].begun => /\ reader'[s].present = reader[s].present
                                 /\ reader'[s].live = reader[s].live
           /\ ~reader[s].begun => /\ reader'[s].present = Stored
                                  /\ reader'[s].live = (s \in room)
           /\ \A i \in Stored : Given(s, i) => Given(s, i)'
           /\ \A i \in Stored, j \in data :
                messages[i].createdAt = messages[j].createdAt => Given(s, i)'
<1> DEFINE page == {[msg |-> i, createdAt |-> messages[i].createdAt] : i \in data}
           new == [pc |-> IF last = 0 THEN "end" ELSE "idle",
                   cursor |-> last,
                   before |-> MaxTime + 1,
                   given |-> reader[s].given \cup page,
                   begun |-> TRUE,
                   live |-> IF reader[s].begun THEN reader[s].live
                            ELSE s \in room,
                   present |-> IF reader[s].begun THEN reader[s].present
                               ELSE Stored]
<1>1. TypeOK /\ reader \in [Client -> Paging]
  BY DEF IInv, ReaderInv
<1>2. page \subseteq [msg : MessageId, createdAt : Time]
  BY <1>1, Times
<1>3. reader[s] \in Paging
  BY <1>1
<1>4. Stored \subseteq MessageId
  BY DEF Stored
<1>5. new \in Paging
  <2>1. last \in MessageId \cup {0}
    BY <1>4
  <2>2. reader[s].given \cup page \subseteq [msg : MessageId, createdAt : Time]
    BY <1>2, <1>3 DEF Paging
  <2>3. (IF reader[s].begun THEN reader[s].present ELSE Stored)
          \subseteq MessageId
    BY <1>3, <1>4 DEF Paging
  <2>4. reader[s].live \in BOOLEAN
    BY <1>3 DEF Paging
  <2>5. (IF reader[s].begun THEN reader[s].live ELSE s \in room) \in BOOLEAN
    <3>1. CASE reader[s].begun
      BY <2>4, <3>1
    <3>2. CASE ~reader[s].begun
      <4>1. (s \in room) \in BOOLEAN
        OBVIOUS
      <4>2. QED BY <3>2, <4>1
    <3>3. QED BY <3>1, <3>2
  <2> HIDE DEF page
  <2>6. QED BY <2>1, <2>2, <2>3, <2>5 DEF Paging
<1>6. reader' = [reader EXCEPT ![s] = new]
  BY DEF AnswerPage
<1>7. reader'[s] = new /\ \A c \in Client : c # s => reader'[c] = reader[c]
  BY <1>1, <1>6
<1>8. reader' \in [Client -> Paging]
  BY <1>1, <1>5, <1>6
<1>9. messages' = messages
  BY DEF vars
<1>10. \A i \in Stored : Given(s, i) => Given(s, i)'
  BY <1>7, <1>9 DEF Given
<1>11. ASSUME NEW i \in Stored, NEW j \in data,
              messages[i].createdAt = messages[j].createdAt
       PROVE  Given(s, i)'
  <2>1. [msg |-> j, createdAt |-> messages[j].createdAt] \in reader'[s].given
    BY <1>7
  <2>2. QED BY <1>9, <1>11, <2>1 DEF Given
<1>12. QED BY <1>7, <1>8, <1>10, <1>11

\* The first page, and every other one, leaves what it owes to the next.
LEMMA FindPageStep ==
    ASSUME IInv, ReaderInv, NEW s \in Client, FindPage(s)
    PROVE  ReaderInv'
<1>1. TypeOK /\ PageOK(s) /\ LiveOK(s) /\ reader[s].pc = "find"
      /\ UNCHANGED vars /\ reader[s] \in Paging
  BY DEF IInv, ReaderInv, FindPage
<1>2. /\ UNCHANGED <<messages, made, room, req, heard, unsaid>>
      /\ Stored' = Stored
  BY <1>1 DEF vars, Stored
<1>0. PICK found \in Newest(Limit + 1, Older(s)) :
        \E data \in Newest(Limit, found) :
          IF data = found THEN AnswerPage(s, data, 0)
          ELSE \E last \in LastOf(data) : AnswerPage(s, data, last)
  BY DEF FindPage
<1>3. PICK data \in Newest(Limit, found) :
        IF data = found THEN AnswerPage(s, data, 0)
        ELSE \E last \in LastOf(data) : AnswerPage(s, data, last)
  BY <1>0
<1>4. data \subseteq found /\ found \subseteq Older(s) /\ Older(s) \subseteq Stored
  BY DEF Newest, Older
<1>5. PICK last \in data \cup {0} :
        /\ AnswerPage(s, data, last)
        /\ data = found => last = 0
        /\ data # found => last \in LastOf(data)
  BY <1>3 DEF LastOf
<1>6. data \in SUBSET Stored
  BY <1>4
<1> HIDE DEF AnswerPage
<1>7. /\ reader' \in [Client -> Paging]
      /\ \A c \in Client : c # s => reader'[c] = reader[c]
      /\ reader'[s].pc = IF last = 0 THEN "end" ELSE "idle"
      /\ reader'[s].cursor = last /\ reader'[s].before = MaxTime + 1
      /\ reader'[s].begun
      /\ reader'[s].present \subseteq Stored \cup reader[s].present
      /\ reader[s].begun => /\ reader'[s].present = reader[s].present
                            /\ reader'[s].live = reader[s].live
      /\ ~reader[s].begun => /\ reader'[s].present = Stored
                             /\ reader'[s].live = (s \in room)
      /\ \A i \in Stored : Given(s, i) => Given(s, i)'
      /\ \A i \in Stored, j \in data :
           messages[i].createdAt = messages[j].createdAt => Given(s, i)'
  BY <1>1, <1>5, <1>6, AnswerEffect
<1>8. \A i \in reader'[s].present \cap Stored : Given(s, i) \/ i \in Older(s)
  <2> SUFFICES ASSUME NEW i \in reader'[s].present \cap Stored
               PROVE  Given(s, i) \/ i \in Older(s)
    OBVIOUS
  <2>1. CASE reader[s].begun
    BY <2>1, <1>1, <1>7 DEF PageOK, Older
  <2>2. CASE ~reader[s].begun
    BY <2>2, <1>1, Times DEF PageOK, Older
  <2>3. QED BY <2>1, <2>2
<1>9. data = found => data = Older(s)
  <2>1. IsFiniteSet(Older(s)) /\ IsFiniteSet(found)
    BY <1>4, StoredFinite, FS_Subset
  <2>2. Cardinality(data) <= Limit
    BY <2>1, LimitType, NewestFew
  <2>3. QED BY <2>1, <2>2, LimitType, NewestAll
<1>10. last # 0 => last \in Stored /\ last \in LastOf(data)
  BY <1>4, <1>5
<1>11. 0 \notin Stored
  BY <1>1, Times
<1>12. ASSUME NEW i \in reader'[s].present \cap Stored
       PROVE  /\ last = 0 => Given(s, i)'
              /\ last # 0 => \/ Given(s, i)'
                            \/ messages[i].createdAt < messages[last].createdAt
  <2>1. CASE Given(s, i)
    BY <2>1, <1>7
  <2>2. CASE i \in data
    BY <2>2, <1>7
  <2>3. CASE i \in Older(s) \ data
    <3>1. last # 0 /\ last \in LastOf(data) /\ last \in data
      <4>1. data # found
        BY <2>3, <1>9
      <4>2. last \in LastOf(data)
        BY <4>1, <1>5
      <4>3. last \in data
        BY <4>2 DEF LastOf
      <4>4. QED BY <4>2, <4>3, <1>6, <1>11
    <3>2. messages[i].createdAt <= messages[last].createdAt
      BY <2>3, <3>1, <1>1, <1>4, PageIsNewest
    <3>3. messages[i].createdAt \in Nat /\ messages[last].createdAt \in Nat
      BY <1>1, <1>10, <3>1, Times DEF Time
    <3>4. CASE messages[i].createdAt = messages[last].createdAt
      BY <3>1, <3>4, <1>7
    <3>5. CASE messages[i].createdAt # messages[last].createdAt
      BY <3>1, <3>2, <3>3, <3>5
    <3>6. QED BY <3>4, <3>5
  <2>4. QED BY <2>1, <2>2, <2>3, <1>8
<1>13. PageOK(s)'
  <2>1. \A i \in reader'[s].present : i <= made
    BY <1>1, <1>7, Times DEF PageOK
  <2>2. last <= made
    BY <1>1, <1>10, Times DEF TypeOK
  <2>3. /\ reader'[s].pc # "find" /\ reader'[s].pc # "cursor"
        /\ reader'[s].pc = "end" <=> last = 0
    BY <1>7
  <2>4. QED BY <1>2, <1>7, <1>12, <2>1, <2>2, <2>3 DEF PageOK
<1>14. LiveOK(s)'
  <2>1. CASE reader[s].begun
    BY <2>1, <1>1, <1>2, <1>7 DEF LiveOK, Accounted, Said
  <2>2. CASE ~reader[s].begun
    BY <2>2, <1>2, <1>7 DEF LiveOK, Accounted, Said
  <2>3. QED BY <2>1, <2>2
<1>15. ASSUME NEW c \in Client, c # s PROVE PageOK(c)' /\ LiveOK(c)'
  BY <1>2, <1>7, <1>15 DEF ReaderInv, PageOK, LiveOK, Given, Accounted, Said
<1>16. QED BY <1>7, <1>13, <1>14, <1>15 DEF ReaderInv

LEMMA AskPageStep ==
    ASSUME IInv, ReaderInv, NEW s \in Client, AskPage(s)
    PROVE  ReaderInv'
<1> DEFINE step == IF reader[s].cursor = 0 THEN "find" ELSE "cursor"
<1>1. /\ reader \in [Client -> Paging] /\ reader[s] \in Paging
      /\ reader[s].pc = "idle" /\ PageOK(s) /\ LiveOK(s)
      /\ reader' = [reader EXCEPT ![s].pc = step]
      /\ UNCHANGED <<messages, made, room, req, heard, unsaid>>
      /\ Stored' = Stored
  BY DEF ReaderInv, AskPage, vars, Stored
<1>2. step \in {"find", "cursor"} /\ (step = "find" <=> reader[s].cursor = 0)
  OBVIOUS
<1> HIDE DEF step
<1>3. /\ reader' \in [Client -> Paging]
      /\ \A c \in Client : c # s => reader'[c] = reader[c]
      /\ reader'[s].pc = step
      /\ UNCHANGED <<reader[s].cursor, reader[s].before, reader[s].given,
                     reader[s].begun, reader[s].live, reader[s].present>>
  BY <1>1, <1>2 DEF Paging
<1>4. PageOK(s)'
  <2>1. \A i \in Stored : i \in reader[s].present =>
          messages[i].createdAt < MaxTime + 1
    BY Times DEF IInv
  <2>2. QED BY <1>1, <1>2, <1>3, <2>1 DEF PageOK, Given
<1>5. LiveOK(s)'
  BY <1>1, <1>3 DEF LiveOK, Accounted, Said
<1>6. ASSUME NEW c \in Client, c # s PROVE PageOK(c)' /\ LiveOK(c)'
  BY <1>1, <1>3, <1>6 DEF ReaderInv, PageOK, LiveOK, Given, Accounted, Said
<1>7. QED BY <1>3, <1>4, <1>5, <1>6 DEF ReaderInv

LEMMA FindCursorStep ==
    ASSUME IInv, ReaderInv, NEW s \in Client, FindCursor(s)
    PROVE  ReaderInv'
<1> DEFINE bound == IF reader[s].cursor \in Stored
                    THEN messages[reader[s].cursor].createdAt
                    ELSE MaxTime + 1
<1>1. /\ reader \in [Client -> Paging] /\ reader[s] \in Paging
      /\ reader[s].pc = "cursor" /\ PageOK(s) /\ LiveOK(s)
      /\ reader' = [reader EXCEPT ![s].pc = "find", ![s].before = bound]
      /\ UNCHANGED <<messages, made, room, req, heard, unsaid>>
      /\ Stored' = Stored
  BY DEF ReaderInv, FindCursor, vars, Stored
<1>2. bound \in Time \cup {MaxTime + 1}
  BY Times DEF IInv
<1>3. ASSUME NEW i \in Stored, i \in reader[s].present
      PROVE  Given(s, i) \/ messages[i].createdAt < bound
  BY <1>1, <1>3, Times DEF IInv, PageOK
<1> HIDE DEF bound
<1>4. /\ reader' \in [Client -> Paging]
      /\ \A c \in Client : c # s => reader'[c] = reader[c]
      /\ reader'[s].pc = "find" /\ reader'[s].before = bound
      /\ UNCHANGED <<reader[s].cursor, reader[s].given,
                     reader[s].begun, reader[s].live, reader[s].present>>
  BY <1>1, <1>2 DEF Paging
<1>5. PageOK(s)'
  BY <1>1, <1>3, <1>4 DEF PageOK, Given
<1>6. LiveOK(s)'
  BY <1>1, <1>4 DEF LiveOK, Accounted, Said
<1>7. ASSUME NEW c \in Client, c # s PROVE PageOK(c)' /\ LiveOK(c)'
  BY <1>1, <1>4, <1>7 DEF ReaderInv, PageOK, LiveOK, Given, Accounted, Said
<1>8. QED BY <1>4, <1>5, <1>6, <1>7 DEF ReaderInv

-----------------------------------------------------------------------------
\* Lemmas about the steps of the gateway.

\* A row does not change, and an id that is gone does not come back.
LEMMA RowsStay ==
    ASSUME IInv, [Next]_vars
    PROVE  /\ made <= made'
           /\ \A i \in Stored' : i <= made =>
                i \in Stored /\ messages'[i] = messages[i]
<1> USE DEF Stored
<1>1. CASE UNCHANGED <<messages, made>>
  BY <1>1 DEF IInv, TypeOK
<1>2. ASSUME NEW r \in Request, CreateMessage(r),
             ~UNCHANGED <<messages, made>>
      PROVE  made' = made + 1 /\ \A i \in MessageId :
               i # made' => messages'[i] = messages[i]
  <2>1. made' = made + 1 /\ \E t \in Time :
          messages' = [messages EXCEPT ![made'] =
                         [sender |-> req[r].user, createdAt |-> t]]
    BY <1>2 DEF CreateMessage
  <2>2. QED BY <2>1 DEF IInv, TypeOK
<1>3. CASE \E r \in Request : CreateMessage(r)
  BY <1>1, <1>2, <1>3 DEF IInv, TypeOK
<1>4. CASE \E u \in User : DeleteAccount(u)
  BY <1>4 DEF IInv, TypeOK, DeleteAccount
<1>5. CASE \/ \E s \in Client : Connect(s) \/ Disconnect(s)
           \/ \E r \in Request, s \in Client, op \in Op :
                ReceiveCommand(r, s, op)
  BY <1>1, <1>5 DEF Connect, Disconnect, ReceiveCommand
<1>6. CASE \/ \E r \in Request, s \in Socket : ReceiveMessage(r, s)
           \/ \E r \in Request, u \in User : ReceivePost(r, u)
  BY <1>1, <1>6 DEF ReceiveMessage, ReceivePost, Submit
<1>7. CASE \E r \in Request : \/ FindParticipant(r) \/ MoveSocket(r)
                              \/ EmitMessage(r) \/ Fail(r)
  BY <1>1, <1>7
     DEF FindParticipant, Admit, MoveSocket, Move, EmitMessage, Emit, Fail
<1>8. CASE UNCHANGED vars
  BY <1>1, <1>8 DEF vars
<1>9. QED BY <1>3, <1>4, <1>5, <1>6, <1>7, <1>8 DEF Next, Serve

\* A slot with no message to emit takes nothing with it.
LEMMA SaidFrame ==
    ASSUME NEW s \in Socket, NEW i \in MessageId, NEW r \in Request,
           req[r].msg = 0, \A q \in Request : q # r => req'[q] = req[q],
           i \in heard[s] => i \in heard'[s]
    PROVE  Said(s, i) => Said(s, i)'
BY DEF Said, MessageId

\* A socket that stays in the room loses no message: one that is stored now and
\* not cut off was so before and is said no less, or is said now.
Kept(s, i) == \/ i \in Stored \ unsaid /\ (Said(s, i) => Said(s, i)')
              \/ Said(s, i)'

LEMMA KeptByCreate ==
    ASSUME IInv, NEW r \in Request, CreateMessage(r),
           NEW s \in Socket, NEW i \in Stored' \ unsaid'
    PROVE  Kept(s, i)
<1>1. req[r].msg = 0 /\ req \in [Request -> Slot] /\ heard' = heard
  BY DEF IInv, TypeOK, SlotInv, SlotOK, CreateMessage
<1>2. i \in MessageId
  BY DEF Stored
<1>3. CASE UNCHANGED <<messages, unsaid>>
  <2>1. req'[r] = Idle \/ req'[r] = [req[r] EXCEPT !.pc = "emit", !.msg = made']
    BY <1>1 DEF CreateMessage, Done
  <2>2. \A q \in Request : q # r => req'[q] = req[q]
    BY <1>1 DEF CreateMessage, Done
  <2>3. QED BY <1>1, <1>2, <1>3, <2>2, SaidFrame DEF Kept, Stored
<1>4. CASE ~UNCHANGED <<messages, unsaid>>
  <2>1. \E t \in Time : messages' = [messages EXCEPT ![made'] =
                          [sender |-> req[r].user, createdAt |-> t]]
    BY <1>4 DEF CreateMessage
  <2>2. CASE Done(r)
    <3>1. i # made' /\ unsaid' = unsaid \cup {made'}
      <4>1. req'[r].pc = "idle"
        BY <2>2, DoneEffect, IdleSlot DEF IInv
      <4>2. req[r] \in Slot /\ req \in [Request -> Slot]
        BY DEF IInv, TypeOK
      <4>3. req' # [req EXCEPT ![r].pc = "emit", ![r].msg = made']
        BY <4>1, <4>2 DEF Slot
      <4>4. QED BY <1>4, <4>3 DEF CreateMessage
    <3>2. i \in Stored \ unsaid
      BY <1>2, <2>1, <3>1 DEF IInv, TypeOK, Stored
    <3>3. \A q \in Request : q # r => req'[q] = req[q]
      BY <2>2, DoneEffect DEF IInv
    <3>4. QED BY <1>1, <1>2, <3>2, <3>3, SaidFrame DEF Kept
  <2>3. CASE ~Done(r)
    <3>1. /\ req' = [req EXCEPT ![r].pc = "emit", ![r].msg = made']
          /\ unsaid' = unsaid
      BY <1>4, <2>3 DEF CreateMessage
    <3>2. req'[r].msg = made' /\ \A q \in Request : q # r => req'[q] = req[q]
      BY <1>1, <3>1 DEF Slot
    <3>3. CASE i = made'
      BY <3>2, <3>3 DEF Kept, Said
    <3>4. CASE i # made'
      <4>1. i \in Stored \ unsaid
        BY <1>2, <2>1, <3>1, <3>4 DEF IInv, TypeOK, Stored
      <4>2. QED BY <1>1, <1>2, <3>2, <4>1, SaidFrame DEF Kept
    <3>5. QED BY <3>3, <3>4
  <2>4. QED BY <2>2, <2>3
<1>5. QED BY <1>3, <1>4

LEMMA KeptByEnd ==
    ASSUME IInv, NEW r \in Request, EmitMessage(r) \/ Fail(r),
           NEW s \in Socket, s \in room, NEW i \in Stored' \ unsaid'
    PROVE  Kept(s, i)
<1>1. /\ UNCHANGED <<messages, room>> /\ Done(r)
      /\ unsaid \subseteq unsaid'
  BY DEF EmitMessage, Emit, Fail
<1>2. i \in Stored \ unsaid /\ i \in MessageId
  BY <1>1 DEF Stored
<1>3. /\ i \in heard[s] => i \in heard'[s]
      /\ req[r].msg = i => i \in heard'[s]
  <2>1. CASE EmitMessage(r)
    BY <2>1 DEF IInv, TypeOK, EmitMessage, Emit
  <2>2. CASE Fail(r)
    BY <1>2, <2>2 DEF Fail, MessageId
  <2>3. QED BY <2>1, <2>2
<1>4. \A q \in Request : q # r => req'[q] = req[q]
  BY <1>1, DoneEffect DEF IInv
<1>5. QED BY <1>2, <1>3, <1>4 DEF Kept, Said

\* The steps that neither write nor emit nor fail.
LEMMA KeptByOthers ==
    ASSUME IInv, NEW r \in Request, req[r].msg = 0,
           \A q \in Request : q # r => req'[q] = req[q],
           UNCHANGED <<messages, unsaid>>,
           NEW s \in Socket, NEW i \in Stored' \ unsaid',
           i \in heard[s] => i \in heard'[s]
    PROVE  Kept(s, i)
<1>1. i \in MessageId /\ i \in Stored \ unsaid
  BY DEF Stored
<1>2. QED BY <1>1, SaidFrame DEF Kept

LEMMA MessagesKept ==
    ASSUME IInv, [Next]_vars, NEW s \in Socket, s \in room, s \in room',
           NEW i \in Stored' \ unsaid'
    PROVE  Kept(s, i)
<1>1. CASE \E c \in Client : Connect(c) \/ Disconnect(c)
  <2>1. PICK c \in Client : Connect(c) \/ Disconnect(c)
    BY <1>1
  <2>2. UNCHANGED <<messages, unsaid, req>> /\ heard'[s] = heard[s]
    BY <2>1 DEF Connect, Disconnect, IInv, TypeOK
  <2>3. QED BY <2>2 DEF Kept, Said, Stored
<1>2. CASE \E r \in Request, c \in Client, op \in Op : ReceiveCommand(r, c, op)
  <2>1. PICK r \in Request, c \in Client, op \in Op : ReceiveCommand(r, c, op)
    BY <1>2
  <2>2. req[r].msg = 0
    BY <2>1 DEF ReceiveCommand, IInv, SlotInv, SlotOK
  <2>3. UNCHANGED <<messages, unsaid, heard>>
    BY <2>1 DEF ReceiveCommand
  <2>4. \A q \in Request : q # r => req'[q] = req[q]
    BY <2>1 DEF ReceiveCommand, IInv, TypeOK
  <2>5. QED BY <2>2, <2>3, <2>4, KeptByOthers
<1>3. ASSUME NEW r \in Request, NEW k, NEW u, Submit(r, k, u) PROVE Kept(s, i)
  <2>1. req[r].msg = 0
    BY <1>3 DEF Submit, IInv, SlotInv, SlotOK
  <2>2. UNCHANGED <<messages, unsaid, heard>>
    BY <1>3 DEF Submit
  <2>3. \A q \in Request : q # r => req'[q] = req[q]
    BY <1>3 DEF Submit, Done, IInv, TypeOK
  <2>4. QED BY <2>1, <2>2, <2>3, KeptByOthers
<1>4. CASE \/ \E r \in Request, c \in Socket : ReceiveMessage(r, c)
           \/ \E r \in Request, u \in User : ReceivePost(r, u)
  BY <1>3, <1>4 DEF ReceiveMessage, ReceivePost
<1>5. ASSUME NEW r \in Request, FindParticipant(r) PROVE Kept(s, i)
  <2>1. req[r].msg = 0
    BY <1>5 DEF FindParticipant, Admit, IInv, SlotInv, SlotOK
  <2>2. UNCHANGED <<messages, unsaid, heard>>
    BY <1>5 DEF FindParticipant, Admit
  <2>3. \A q \in Request : q # r => req'[q] = req[q]
    BY <1>5 DEF FindParticipant, Admit, Goto, Done, IInv, TypeOK
  <2>4. QED BY <2>1, <2>2, <2>3, KeptByOthers
<1>6. ASSUME NEW r \in Request, MoveSocket(r) PROVE Kept(s, i)
  <2>1. req[r].msg = 0
    BY <1>6 DEF MoveSocket, Move, IInv, SlotInv, SlotOK
  <2>2. UNCHANGED <<messages, unsaid>> /\ Done(r)
        /\ heard' = [t \in Socket |-> {j \in heard[t] : t \in room'}]
    BY <1>6 DEF MoveSocket, Move
  <2>3. \A q \in Request : q # r => req'[q] = req[q]
    BY <2>2, DoneEffect DEF IInv
  <2>4. heard'[s] = heard[s]
    BY <2>2
  <2>5. QED BY <2>1, <2>2, <2>3, <2>4, KeptByOthers
<1>7. CASE \E r \in Request : Serve(r) \/ Fail(r)
  BY <1>5, <1>6, <1>7, KeptByCreate, KeptByEnd DEF Serve
<1>8. CASE \E u \in User : DeleteAccount(u)
  <2>1. /\ UNCHANGED <<req, heard>>
        /\ unsaid' = {j \in unsaid : messages'[j] # NoMessage}
        /\ messages'[i] # NoMessage /\ i \in MessageId
    BY <1>8 DEF DeleteAccount, Stored
  <2>2. i \notin unsaid
    BY <2>1
  <2>3. i \in Stored
    BY <1>8, <2>1 DEF DeleteAccount, Stored
  <2>4. QED BY <2>1, <2>2, <2>3 DEF Kept, Said
<1>9. CASE UNCHANGED vars
  BY <1>9 DEF vars, Kept, Said, Stored
<1>10. QED BY <1>1, <1>2, <1>4, <1>7, <1>8, <1>9 DEF Next

LEMMA GatewayStepKeeps ==
    ASSUME IInv, ReaderInv, GatewayStep
    PROVE  ReaderInv'
<1>1. /\ reader \in [Client -> Paging]
      /\ reader' = [s \in Client |->
                      [reader[s] EXCEPT !.live = @ /\ s \in room']]
      /\ [Next]_vars
  BY DEF ReaderInv, GatewayStep
<1>2. ASSUME NEW s \in Client
      PROVE  /\ reader'[s] \in Paging
             /\ UNCHANGED <<reader[s].pc, reader[s].cursor, reader[s].before,
                            reader[s].given, reader[s].begun,
                            reader[s].present>>
             /\ reader'[s].live = (reader[s].live /\ s \in room')
  <2>1. reader[s] \in Paging
    BY <1>1
  <2>2. (reader[s].live /\ s \in room') \in BOOLEAN
    BY Zenon
  <2>3. reader'[s] = [reader[s] EXCEPT !.live = reader[s].live /\ s \in room']
    BY <1>1
  <2>4. QED BY <2>1, <2>2, <2>3 DEF Paging
<1>3. reader' \in [Client -> Paging]
  BY <1>1, <1>2
<1>4. ASSUME NEW s \in Client, PageOK(s) PROVE PageOK(s)'
  <2>1. made \in Nat /\ made' \in Nat /\ made <= made'
        /\ reader[s].cursor \in Nat /\ reader[s].present \subseteq Nat
    <3>1. made \in Nat /\ made' \in Nat
      BY <1>1, Inductive, BoundsNat DEF IInv, TypeOK
    <3>2. reader[s].cursor \in Nat /\ reader[s].present \subseteq Nat
      BY <1>1 DEF Paging, MessageId
    <3>3. QED BY <3>1, <3>2, <1>1, RowsStay
  <2>2. \A i \in reader[s].present : i <= made
    BY <1>4 DEF PageOK
  <2>3. \A i \in reader[s].present \cap Stored' :
          i \in Stored /\ messages'[i] = messages[i]
    BY <1>1, <2>2, RowsStay
  <2>4. reader[s].cursor \in Stored' =>
          /\ reader[s].cursor \in Stored
          /\ messages'[reader[s].cursor] = messages[reader[s].cursor]
    BY <1>1, <1>4, RowsStay DEF PageOK
  <2>5. \A i \in reader[s].present \cap Stored' : Given(s, i) => Given(s, i)'
    BY <1>2, <2>3 DEF Given
  <2>6. ASSUME NEW i \in reader'[s].present \cap Stored'
        PROVE  /\ reader'[s].pc = "find" =>
                    Given(s, i)' \/ messages'[i].createdAt < reader'[s].before
               /\ reader'[s].pc \in {"idle", "cursor"}
                    /\ reader'[s].cursor \in Stored' =>
                    \/ Given(s, i)'
                    \/ messages'[i].createdAt
                         < messages'[reader'[s].cursor].createdAt
               /\ reader'[s].pc = "end" => Given(s, i)'
    BY <1>2, <1>4, <2>3, <2>4, <2>5 DEF PageOK
  <2>7. \A i \in reader'[s].present : i <= made'
    BY <1>2, <2>1, <2>2
  <2>8. reader'[s].cursor <= made'
    BY <1>2, <1>4, <2>1 DEF PageOK
  <2>9. ~reader'[s].begun =>
          /\ reader'[s].present = {} /\ ~reader'[s].live
          /\ reader'[s].cursor = 0 /\ reader'[s].pc # "cursor"
    BY <1>2, <1>4 DEF PageOK
  <2>10. (reader'[s].pc = "idle" \/ ~reader'[s].begun)
           => reader'[s].before = MaxTime + 1
    BY <1>2, <1>4 DEF PageOK
  <2>11. QED BY <2>6, <2>7, <2>8, <2>9, <2>10 DEF PageOK
<1>5. ASSUME NEW s \in Client, LiveOK(s) PROVE LiveOK(s)'
  <2>1. SUFFICES ASSUME reader[s].live, s \in room',
                        NEW i \in Stored' \ unsaid'
                 PROVE  Accounted(s, i)'
    BY <1>2 DEF LiveOK
  <2>2. s \in room /\ s \in Socket
    BY <1>5, <2>1, OwnerType DEF LiveOK
  <2>3. Kept(s, i)
    BY <1>1, <2>1, <2>2, MessagesKept
  <2>4. CASE Said(s, i)'
    BY <2>4 DEF Accounted
  <2>5. CASE i \in Stored \ unsaid /\ (Said(s, i) => Said(s, i)')
    <3>1. i \in reader[s].present \/ Said(s, i)
      BY <1>5, <2>1, <2>5 DEF LiveOK, Accounted
    <3>2. QED BY <1>2, <2>5, <3>1 DEF Accounted
  <2>6. QED BY <2>3, <2>4, <2>5 DEF Kept
<1>6. QED BY <1>3, <1>4, <1>5 DEF ReaderInv

LEMMA ReaderInitially == HistoryInit => ReaderInv
<1> SUFFICES ASSUME HistoryInit PROVE ReaderInv
  OBVIOUS
<1>1. reader = [s \in Client |-> NotBegun] /\ made = 0
  BY DEF HistoryInit, Init
<1>2. NotBegun \in Paging
  BY DEF NotBegun, Paging
<1>3. reader \in [Client -> Paging]
  BY <1>1, <1>2
<1>4. ASSUME NEW s \in Client PROVE PageOK(s) /\ LiveOK(s)
  BY <1>1 DEF NotBegun, PageOK, LiveOK
<1>5. QED BY <1>3, <1>4 DEF ReaderInv

-----------------------------------------------------------------------------
\* A client that pages does nothing to the gateway.
LEMMA GatewaySteps == [HistoryNext]_historyVars => [Next]_vars
BY DEF HistoryNext, GatewayStep, AskPage, FindCursor, FindPage, historyVars

LEMMA ReaderInductive ==
    IInv /\ ReaderInv /\ [HistoryNext]_historyVars => ReaderInv'
<1> SUFFICES ASSUME IInv, ReaderInv, [HistoryNext]_historyVars
             PROVE  ReaderInv'
  OBVIOUS
<1>1. CASE HistoryNext
  BY <1>1, GatewayStepKeeps, AskPageStep, FindCursorStep, FindPageStep
     DEF HistoryNext
<1>2. CASE UNCHANGED historyVars
  <2>1. /\ UNCHANGED <<messages, made, room, req, heard, unsaid, reader>>
        /\ Stored' = Stored
    BY <1>2 DEF historyVars, vars, Stored
  <2>2. QED BY <2>1
     DEF ReaderInv, PageOK, LiveOK, Given, Accounted, Said
<1>3. QED BY <1>1, <1>2

\* The gateway beside clients that page is the gateway: what is proved of it in
\* GatewayProofs holds here.
THEOREM HistoryIsGateway == HistorySpec => Spec
<1>1. HistoryInit => Init
  BY DEF HistoryInit
<1>2. QED BY <1>1, GatewaySteps, PTL DEF HistorySpec, Spec

LEMMA ReaderInvariant == HistorySpec => [](IInv /\ ReaderInv)
<1>1. HistoryInit => IInv
  BY Initially DEF HistoryInit
<1>2. IInv /\ [HistoryNext]_historyVars => IInv'
  BY GatewaySteps, Inductive
<1>3. QED BY <1>1, <1>2, ReaderInitially, ReaderInductive, PTL
          DEF HistorySpec

\* Clients and gateway keep their types and references.
THEOREM HistoryTypeCorrect == HistorySpec => []HistoryTypeOK
<1>1. IInv /\ ReaderInv => HistoryTypeOK
  BY DEF IInv, ReaderInv, HistoryTypeOK
<1>2. QED BY ReaderInvariant, <1>1, PTL

\* Following the cursors to the end misses no message that was there at the
\* start, whatever is written and deleted in between - the message of the
\* cursor included - but for one that shares its createdAt with a given one.
THEOREM PagesAreComplete == HistorySpec => []HistoryComplete
<1>1. ReaderInv => HistoryComplete
  BY DEF ReaderInv, PageOK, HistoryComplete
<1>2. QED BY ReaderInvariant, <1>1, PTL

\* Pages and room together: who joins before he reads, and stays, gets every
\* message that some handler is there to emit.
THEOREM JoinThenReadMissesNothing == HistorySpec => []NothingMissed
<1>1. ReaderInv => NothingMissed
  BY DEF ReaderInv, PageOK, LiveOK, Accounted, Said, NothingMissed
<1>2. QED BY ReaderInvariant, <1>1, PTL
=============================================================================
