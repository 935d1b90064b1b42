--------------------------- MODULE GatewayProofs ---------------------------
(***************************************************************************)
(* Proofs about Gateway for every set of users, sockets and slots, every   *)
(* number of messages, and whichever sockets come and go.                  *)
(***************************************************************************)
EXTENDS Gateway, TLAPS

\* What a handler knows: a command belongs to the socket it came on, and one
\* that is about to move the socket saw a participation that only the end of
\* the account can have taken since.
SlotOK(r) ==
    /\ req[r].op # "send" <=> req[r].pc \in {"lookup", "move"}
    /\ req[r].op # "send" =>
         req[r].socket \in Socket /\ req[r].user = Owner[req[r].socket]
    /\ req[r].pc = "move" /\ req[r].user \in users
         => req[r].user \in participants
    /\ req[r].pc = "write" => req[r].user \in User
    /\ IF req[r].pc = "emit" THEN req[r].msg \in MessageId
                             ELSE req[r].msg = 0

SlotInv == \A r \in Request : SlotOK(r)

\* While it is clear where a client asked to be, all its commands take it there.
AskedInv ==
    \A s \in Socket :
        (/\ sockets[s] = "open" /\ Owner[s] \in users
         /\ asked[s] # "either")
          => \A r \in Commands(s) : req[r].op = asked[s]

\* Nothing was asked on a socket that is not connected yet.
NewInv ==
    \A s \in Socket : sockets[s] = "new" =>
        asked[s] = "leave" /\ Commands(s) = {}

RoomInv == RoomOfMembers /\ AskedInv /\ NewInv /\ RoomAsAsked

IInv == TypeOK /\ SlotInv /\ RoomInv

LEMMA IdleSlot ==
    Idle \in Slot /\ Idle.pc = "idle" /\ Idle.op = "send" /\ Idle.msg = 0
BY DEF Idle, Slot, Op

\* What Done and Goto do to the slots.
LEMMA DoneEffect ==
    ASSUME TypeOK, NEW r \in Request, Done(r)
    PROVE  /\ req' \in [Request -> Slot]
           /\ req'[r] = Idle
           /\ \A q \in Request : q # r => req'[q] = req[q]
BY IdleSlot DEF TypeOK, Done

LEMMA GotoEffect ==
    ASSUME TypeOK, NEW r \in Request,
           NEW step \in {"lookup", "move", "write", "emit"}, Goto(r, step)
    PROVE  /\ req' \in [Request -> Slot]
           /\ req'[r] = [req[r] EXCEPT !.pc = step]
           /\ \A q \in Request : q # r => req'[q] = req[q]
BY DEF TypeOK, Goto, Slot

\* A slot that is left alone knows what it knew, unless a user comes back.
LEMMA SlotFrame ==
    ASSUME NEW q \in Request, SlotOK(q), req'[q] = req[q],
           users' \subseteq users, participants \cap users' \subseteq participants'
    PROVE  SlotOK(q)'
BY DEF SlotOK, MessageId

LEMMA IdleOK ==
    ASSUME NEW r \in Request, req'[r] = Idle
    PROVE  SlotOK(r)'
BY IdleSlot DEF SlotOK

\* A handler that is no command changes nothing about the room but by the room.
LEMMA RoomFrame ==
    ASSUME RoomInv, NEW r \in Request,
           req[r].op = "send", req'[r].op = "send",
           \A q \in Request : q # r => req'[q] = req[q],
           UNCHANGED <<users, participants, sockets, room, asked>>
    PROVE  RoomInv'
<1>1. \A q \in Request : req[q].op # "send" \/ req'[q].op # "send"
                           => req'[q] = req[q]
  OBVIOUS
<1>2. ASSUME NEW s PROVE Commands(s)' = Commands(s)
  BY <1>1 DEF Commands
<1>3. \A s : \A q \in Commands(s) : req'[q].op = req[q].op
  BY <1>1 DEF Commands
<1>4. RoomOfMembers'
  BY DEF RoomInv, RoomOfMembers
<1>5. AskedInv'
  BY <1>2, <1>3 DEF RoomInv, AskedInv
<1>6. RoomAsAsked'
  BY <1>2 DEF RoomInv, RoomAsAsked
<1>7. NewInv'
  BY <1>2 DEF RoomInv, NewInv
<1>8. QED BY <1>4, <1>5, <1>6, <1>7 DEF RoomInv

LEMMA Initially == Init => IInv
<1> SUFFICES ASSUME Init PROVE IInv
  OBVIOUS
<1>1. \A r \in Request : req[r] = Idle
  BY DEF Init
<1>2. TypeOK
  BY BoundsNat, IdleSlot DEF Init, TypeOK, Stored
<1>3. SlotInv
  BY <1>1, IdleSlot DEF SlotInv, SlotOK
<1>4. RoomInv
  BY <1>1, IdleSlot DEF Init, RoomInv, RoomOfMembers, AskedInv, NewInv,
                        RoomAsAsked, Commands
<1>5. QED BY <1>2, <1>3, <1>4 DEF IInv

-----------------------------------------------------------------------------
\* One lemma per action, or per pair of actions that differ in their input.

LEMMA ConnectStep ==
    ASSUME IInv, NEW s \in Client, Connect(s)
    PROVE  IInv'
<1>1. s \in Socket /\ sockets[s] = "new"
  BY OwnerType DEF Connect
<1>2. sockets' = [sockets EXCEPT ![s] = "open"]
  BY DEF Connect
<1>3. TypeOK'
  BY <1>1 DEF IInv, TypeOK, Connect, Stored
<1>4. SlotInv'
  BY SlotFrame DEF IInv, SlotInv, Connect
<1>5. \A t : Commands(t)' = Commands(t)
  BY DEF Connect, Commands
<1>6. RoomOfMembers'
  BY DEF IInv, RoomInv, RoomOfMembers, Connect
<1>7. AskedInv' /\ NewInv'
  BY <1>1, <1>2, <1>5
     DEF IInv, TypeOK, RoomInv, AskedInv, NewInv, Connect, Commands
<1>8. s \notin room /\ asked[s] = "leave"
  BY <1>1 DEF IInv, TypeOK, RoomInv, NewInv
<1>9. RoomAsAsked'
  BY <1>1, <1>2, <1>5, <1>8
     DEF IInv, TypeOK, RoomInv, RoomAsAsked, Connect
<1>10. QED BY <1>3, <1>4, <1>6, <1>7, <1>9 DEF IInv, RoomInv

LEMMA DisconnectStep ==
    ASSUME IInv, NEW s \in Client, Disconnect(s)
    PROVE  IInv'
<1>1. s \in Socket /\ sockets' = [sockets EXCEPT ![s] = "closed"]
  BY OwnerType DEF Disconnect
<1>2. TypeOK'
  BY <1>1 DEF IInv, TypeOK, Disconnect, Stored
<1>3. SlotInv'
  BY SlotFrame DEF IInv, SlotInv, Disconnect
<1>4. \A t : Commands(t)' = Commands(t)
  BY DEF Disconnect, Commands
<1>5. \A t \in Socket : t # s => /\ sockets'[t] = sockets[t]
                               /\ asked'[t] = asked[t]
                               /\ t \in room' <=> t \in room
  BY <1>1 DEF IInv, TypeOK, Disconnect
<1>6. sockets'[s] = "closed"
  BY <1>1 DEF IInv, TypeOK
<1>7. RoomOfMembers'
  BY DEF IInv, RoomInv, RoomOfMembers, Disconnect
<1>8. AskedInv' /\ NewInv'
  BY <1>4, <1>5, <1>6
     DEF IInv, RoomInv, AskedInv, NewInv, Disconnect, Commands
<1>9. RoomAsAsked'
  BY <1>4, <1>5, <1>6 DEF IInv, RoomInv, RoomAsAsked, Disconnect
<1>10. QED BY <1>2, <1>3, <1>7, <1>8, <1>9 DEF IInv, RoomInv

LEMMA ReceiveCommandStep ==
    ASSUME IInv, NEW r \in Request, NEW s \in Client, NEW op \in Op,
           ReceiveCommand(r, s, op)
    PROVE  IInv'
<1> DEFINE slot == [Idle EXCEPT !.pc = "lookup", !.op = op, !.socket = s,
                                !.user = Owner[s]]
<1>1. /\ s \in Socket /\ sockets[s] = "open" /\ op # "send"
      /\ req' = [req EXCEPT ![r] = slot]
  BY OwnerType DEF ReceiveCommand
<1>2. /\ slot \in Slot /\ slot.pc = "lookup" /\ slot.op = op
      /\ slot.socket = s /\ slot.user = Owner[s] /\ slot.msg = 0
  BY <1>1, OwnerType DEF Idle, Slot, Op
<1> HIDE DEF slot
<1>3. /\ req'[r] = slot /\ req' \in [Request -> Slot]
      /\ \A q \in Request : q # r => req'[q] = req[q]
  BY <1>1, <1>2 DEF IInv, TypeOK
<1>4. asked' \in [Socket -> {"join", "leave", "either"}]
  BY <1>1 DEF IInv, TypeOK, ReceiveCommand, Op
<1>5. TypeOK'
  BY <1>3, <1>4 DEF IInv, TypeOK, ReceiveCommand, Stored
<1>6. SlotOK(r)'
  BY <1>1, <1>2, <1>3 DEF SlotOK
<1>7. SlotInv'
  BY <1>3, <1>6, SlotFrame DEF IInv, SlotInv, ReceiveCommand
<1>8. req[r].op = "send"
  BY DEF IInv, SlotInv, SlotOK, ReceiveCommand
<1>9. /\ Commands(s)' = Commands(s) \cup {r}
      /\ \A t \in Socket : t # s => Commands(t)' = Commands(t)
  BY <1>1, <1>2, <1>3, <1>8 DEF Commands
<1>10. \A t \in Socket : \A q \in Commands(t) : req'[q].op = req[q].op
  BY <1>3, <1>8 DEF Commands
<1>11. /\ asked'[s] = IF Commands(s) = {} \/ asked[s] = op THEN op
                      ELSE "either"
       /\ \A t \in Socket : t # s => asked'[t] = asked[t]
  BY <1>1 DEF IInv, TypeOK, ReceiveCommand
<1>12. RoomOfMembers'
  BY DEF IInv, RoomInv, RoomOfMembers, ReceiveCommand
<1>13. AskedInv'
  <2> SUFFICES ASSUME NEW t \in Socket, sockets[t] = "open",
                      Owner[t] \in users, asked'[t] # "either",
                      NEW q \in Commands(t)'
               PROVE  req'[q].op = asked'[t]
    BY DEF AskedInv, ReceiveCommand
  <2>1. CASE t # s
    BY <2>1, <1>9, <1>10, <1>11 DEF IInv, RoomInv, AskedInv
  <2>2. CASE t = s /\ q = r
    BY <2>2, <1>2, <1>3, <1>11
  <2>3. CASE t = s /\ q # r
    BY <2>3, <1>9, <1>10, <1>11 DEF IInv, RoomInv, AskedInv
  <2>4. QED BY <2>1, <2>2, <2>3
<1>14. NewInv'
  BY <1>1, <1>9, <1>11 DEF IInv, RoomInv, NewInv, ReceiveCommand
<1>15. RoomAsAsked'
  BY <1>9, <1>11 DEF IInv, RoomInv, RoomAsAsked, ReceiveCommand
<1>16. QED BY <1>5, <1>7, <1>12, <1>13, <1>14, <1>15 DEF IInv, RoomInv

\* send_message, REST or an image.
LEMMA SubmitStep ==
    ASSUME IInv, NEW r \in Request, NEW s \in Socket \cup {NoSocket},
           NEW u \in User, Submit(r, s, u)
    PROVE  IInv'
<1> DEFINE slot == [Idle EXCEPT !.pc = "write", !.socket = s, !.user = u]
<1>1. req' = [req EXCEPT ![r] = Idle] \/ req' = [req EXCEPT ![r] = slot]
  BY DEF Submit, Done
<1>2. /\ slot \in Slot /\ slot.pc = "write" /\ slot.op = "send"
      /\ slot.user = u /\ slot.msg = 0
  BY DEF Idle, Slot, Op
<1> HIDE DEF slot
<1>3. /\ req' \in [Request -> Slot] /\ req'[r] \in {Idle, slot}
      /\ \A q \in Request : q # r => req'[q] = req[q]
  BY <1>1, <1>2, IdleSlot DEF IInv, TypeOK
<1>4. TypeOK'
  BY <1>3 DEF IInv, TypeOK, Submit, Stored
<1>5. SlotOK(r)'
  BY <1>2, <1>3, IdleOK DEF SlotOK
<1>6. SlotInv'
  BY <1>3, <1>5, SlotFrame DEF IInv, SlotInv, Submit
<1>7. req[r].op = "send" /\ req'[r].op = "send"
  BY <1>2, <1>3, IdleSlot DEF IInv, SlotInv, SlotOK, Submit
<1>8. RoomInv'
  BY <1>3, <1>7, RoomFrame DEF IInv, Submit
<1>9. QED BY <1>4, <1>6, <1>8 DEF IInv

\* A command that ends where the room already is as its user may have it.
LEMMA CommandEnds ==
    ASSUME IInv, NEW r \in Request, NEW s \in Socket,
           req[r].op # "send", req[r].socket = s, Done(r),
           UNCHANGED <<users, participants, sockets, asked>>,
           \A t \in Socket : t # s => (t \in room' <=> t \in room),
           RoomOfMembers',
           (/\ sockets[s] = "open" /\ Owner[s] \in users
            /\ req[r].op = asked[s])
             => (s \in room' <=> asked[s] = "join" /\ Owner[s] \in participants)
    PROVE  RoomInv'
<1>1. /\ req'[r] = Idle
      /\ \A q \in Request : q # r => req'[q] = req[q]
  BY DoneEffect DEF IInv
<1>2. /\ Commands(s)' = Commands(s) \ {r}
      /\ r \in Commands(s)
      /\ \A t \in Socket : t # s => Commands(t)' = Commands(t)
  BY <1>1, IdleSlot DEF Commands
<1>3. \A t \in Socket : \A q \in Commands(t)' : req'[q].op = req[q].op
  BY <1>1, IdleSlot DEF Commands
<1>4. AskedInv'
  BY <1>2, <1>3 DEF IInv, RoomInv, AskedInv
<1>5. NewInv'
  BY <1>2 DEF IInv, RoomInv, NewInv
<1>6. RoomAsAsked'
  <2> SUFFICES ASSUME NEW t \in Socket, sockets[t] = "open",
                      Owner[t] \in users, Commands(t)' = {},
                      asked[t] # "either"
               PROVE  t \in room' <=> asked[t] = "join"
                                      /\ Owner[t] \in participants
    BY DEF RoomAsAsked
  <2>1. CASE t # s
    BY <2>1, <1>2 DEF IInv, RoomInv, RoomAsAsked
  <2>2. CASE t = s
    BY <2>2, <1>2 DEF IInv, RoomInv, AskedInv
  <2>3. QED BY <2>1, <2>2
<1>7. QED BY <1>4, <1>5, <1>6 DEF RoomInv

LEMMA FindParticipantStep ==
    ASSUME IInv, NEW r \in Request, FindParticipant(r)
    PROVE  IInv'
<1> DEFINE s == req[r].socket
<1>1. /\ req[r].pc = "lookup" /\ req[r].op # "send" /\ s \in Socket
      /\ req[r].user = Owner[s] /\ req[r].msg = 0
  BY DEF IInv, SlotInv, SlotOK, FindParticipant, Admit
<1>2. /\ UNCHANGED <<users, participants, messages, made, sockets, room>>
      /\ UNCHANGED <<heard, asked, unsaid>>
  BY DEF FindParticipant, Admit
<1>3. CASE req[r].user \in participants
  <2>1. /\ req' \in [Request -> Slot]
        /\ req'[r] = [req[r] EXCEPT !.pc = "move"]
        /\ \A q \in Request : q # r => req'[q] = req[q]
    BY <1>3, GotoEffect DEF IInv, FindParticipant, Admit
  <2>2. TypeOK'
    BY <1>2, <2>1 DEF IInv, TypeOK, Stored
  <2>3. req[r] \in Slot
    BY DEF IInv, TypeOK
  <2>4. /\ req'[r].pc = "move" /\ req'[r].op = req[r].op
        /\ req'[r].socket = s /\ req'[r].user = req[r].user
        /\ req'[r].msg = 0
    BY <1>1, <2>1, <2>3 DEF Slot
  <2>5. SlotOK(r)'
    BY <1>1, <1>2, <1>3, <2>4 DEF SlotOK
  <2>6. SlotInv'
    BY <1>2, <2>1, <2>5, SlotFrame DEF IInv, SlotInv
  <2>7. \A t : Commands(t)' = Commands(t)
    BY <2>1, <2>4 DEF Commands
  <2>8. \A q \in Request : req'[q].op = req[q].op
    BY <2>1, <2>4
  <2>9. AskedInv'
    BY <1>2, <2>7, <2>8 DEF IInv, RoomInv, AskedInv, Commands
  <2>10. RoomOfMembers' /\ NewInv' /\ RoomAsAsked'
    BY <1>2, <2>7 DEF IInv, RoomInv, RoomOfMembers, NewInv, RoomAsAsked
  <2>11. QED BY <2>2, <2>6, <2>9, <2>10 DEF IInv, RoomInv
<1>4. CASE req[r].user \notin participants
  <2>1. Done(r)
    BY <1>4 DEF FindParticipant, Admit
  <2>2. TypeOK'
    BY <1>2, <2>1, DoneEffect DEF IInv, TypeOK, Stored
  <2>3. SlotInv'
    BY <1>2, <2>1, DoneEffect, IdleOK, SlotFrame DEF IInv, SlotInv
  <2>4. RoomOfMembers'
    BY <1>2 DEF IInv, RoomInv, RoomOfMembers
  <2>5. Owner[s] \in users => s \notin room
    BY <1>1, <1>4 DEF IInv, RoomInv, RoomOfMembers
  <2>6. RoomInv'
    <3>1. Owner[s] \in users =>
            (s \in room' <=> asked[s] = "join" /\ Owner[s] \in participants)
      BY <1>1, <1>2, <1>4, <2>5
    <3>2. /\ UNCHANGED <<users, participants, sockets, asked>>
          /\ \A t \in Socket : t # s => (t \in room' <=> t \in room)
      BY <1>2
    <3>3. QED BY <1>1, <2>1, <2>4, <3>1, <3>2, CommandEnds
  <2>7. QED BY <2>2, <2>3, <2>6 DEF IInv
<1>5. QED BY <1>3, <1>4

LEMMA MoveSocketStep ==
    ASSUME IInv, NEW r \in Request, MoveSocket(r)
    PROVE  IInv'
<1> DEFINE s == req[r].socket
<1>1. /\ req[r].pc = "move" /\ req[r].op \in {"join", "leave"}
      /\ s \in Socket /\ req[r].user = Owner[s]
      /\ Owner[s] \in users => Owner[s] \in participants
  BY DEF IInv, TypeOK, Slot, Op, SlotInv, SlotOK, MoveSocket, Move
<1>2. /\ UNCHANGED <<users, participants, messages, made, sockets>>
      /\ UNCHANGED <<asked, unsaid>>
      /\ Done(r)
      /\ heard' = [t \in Socket |-> {i \in heard[t] : t \in room'}]
  BY DEF MoveSocket, Move
<1>3. room' = IF req[r].op = "leave" THEN room \ {s}
              ELSE room \cup {t \in {s} : sockets[t] = "open"}
  BY DEF MoveSocket, Move
<1>4. heard' \in [Socket -> SUBSET MessageId]
  BY <1>2 DEF IInv, TypeOK
<1>5. room' \subseteq {t \in Socket : sockets[t] = "open"}
  BY <1>1, <1>3 DEF IInv, TypeOK
<1>6. TypeOK'
  BY <1>2, <1>4, <1>5, DoneEffect DEF IInv, TypeOK, Stored
<1>7. SlotInv'
  BY <1>2, DoneEffect, IdleOK, SlotFrame DEF IInv, SlotInv
<1>8. RoomOfMembers'
  BY <1>1, <1>2, <1>3 DEF IInv, RoomInv, RoomOfMembers
<1>9. \A t \in Socket : t # s => (t \in room' <=> t \in room)
  BY <1>3
<1>10. sockets[s] = "open" => (s \in room' <=> req[r].op = "join")
  BY <1>1, <1>3
<1>11. RoomInv'
  <2>1. (/\ sockets[s] = "open" /\ Owner[s] \in users
         /\ req[r].op = asked[s])
          => (s \in room' <=> asked[s] = "join" /\ Owner[s] \in participants)
    BY <1>1, <1>10
  <2>2. UNCHANGED <<users, participants, sockets, asked>>
    BY <1>2
  <2>3. req[r].op # "send"
    BY <1>1
  <2>4. QED BY <1>1, <1>2, <1>8, <1>9, <2>1, <2>2, <2>3, CommandEnds
<1>12. QED BY <1>6, <1>7, <1>11 DEF IInv

LEMMA CreateMessageStep ==
    ASSUME IInv, NEW r \in Request, CreateMessage(r)
    PROVE  IInv'
<1>1. /\ req[r].pc = "write" /\ req[r].op = "send" /\ req[r].user \in User
      /\ UNCHANGED <<users, participants, sockets, room, heard, asked>>
  BY DEF IInv, SlotInv, SlotOK, CreateMessage
<1>2. /\ req' \in [Request -> Slot]
      /\ req'[r].op = "send" /\ SlotOK(r)'
      /\ \A q \in Request : q # r => req'[q] = req[q]
  <2>1. CASE Done(r)
    BY <2>1, DoneEffect, IdleSlot, IdleOK DEF IInv
  <2>2. CASE ~Done(r)
    <3>1. /\ made' \in MessageId
          /\ req' = [req EXCEPT ![r].pc = "emit", ![r].msg = made']
      BY <2>2 DEF CreateMessage
    <3>2. req[r] \in Slot /\ req \in [Request -> Slot]
      BY DEF IInv, TypeOK
    <3>3. /\ req'[r].pc = "emit" /\ req'[r].op = "send"
          /\ req'[r].msg = made' /\ req'[r] \in Slot
      BY <1>1, <3>1, <3>2 DEF Slot
    <3>4. /\ req' \in [Request -> Slot]
          /\ \A q \in Request : q # r => req'[q] = req[q]
      BY <3>1, <3>2, <3>3
    <3>5. SlotOK(r)'
      BY <3>1, <3>3 DEF SlotOK, MessageId
    <3>6. QED BY <3>3, <3>4, <3>5
  <2>3. QED BY <2>1, <2>2
<1>3. /\ made' \in 0 .. MaxMessages
      /\ messages' \in [MessageId -> Message \cup {NoMessage}]
      /\ \A i \in Stored' : i <= made' /\ messages'[i].sender \in users
      /\ unsaid' \subseteq MessageId
  <2>1. CASE UNCHANGED <<messages, made, unsaid>>
    BY <2>1 DEF IInv, TypeOK, Stored
  <2>2. CASE /\ req[r].user \in users
             /\ made' = made + 1 /\ made' \in MessageId
             /\ unsaid' \in {unsaid, unsaid \cup {made'}}
             /\ \E t \in Time :
                  messages' = [messages EXCEPT ![made'] =
                      [sender |-> req[r].user, createdAt |-> t]]
    <3>1. PICK t \in Time : messages' = [messages EXCEPT ![made'] =
                               [sender |-> req[r].user, createdAt |-> t]]
      BY <2>2
    <3>2. messages' \in [MessageId -> Message \cup {NoMessage}]
      BY <1>1, <2>2, <3>1 DEF IInv, TypeOK, Message
    <3>3. ASSUME NEW i \in Stored'
          PROVE  i <= made' /\ messages'[i].sender \in users
      <4>1. CASE i = made'
        BY <4>1, <2>2, <3>1 DEF IInv, TypeOK, MessageId
      <4>2. CASE i # made'
        BY <4>2, <2>2, <3>1, BoundsNat DEF IInv, TypeOK, Stored, MessageId
      <4>3. QED BY <4>1, <4>2
    <3>4. made' \in 0 .. MaxMessages /\ unsaid' \subseteq MessageId
      BY <2>2, BoundsNat DEF IInv, TypeOK, MessageId
    <3>5. QED BY <3>2, <3>3, <3>4
  <2>3. QED BY <2>1, <2>2 DEF CreateMessage
<1>4. TypeOK'
  BY <1>1, <1>2, <1>3 DEF IInv, TypeOK
<1>5. SlotInv'
  BY <1>1, <1>2, SlotFrame DEF IInv, SlotInv
<1>6. RoomInv'
  BY <1>1, <1>2, RoomFrame DEF IInv
<1>7. QED BY <1>4, <1>5, <1>6 DEF IInv

LEMMA EmitMessageStep ==
    ASSUME IInv, NEW r \in Request, EmitMessage(r)
    PROVE  IInv'
<1>1. /\ req[r].op = "send" /\ req[r].msg \in MessageId /\ Done(r)
      /\ UNCHANGED <<users, participants, messages, made, sockets, room>>
      /\ UNCHANGED <<asked, unsaid>>
  BY DEF IInv, SlotInv, SlotOK, EmitMessage, Emit
<1>2. heard' \in [Socket -> SUBSET MessageId]
  BY <1>1 DEF IInv, TypeOK, EmitMessage, Emit
<1>3. TypeOK'
  BY <1>1, <1>2, DoneEffect DEF IInv, TypeOK, Stored
<1>4. SlotInv'
  BY <1>1, DoneEffect, IdleOK, SlotFrame DEF IInv, SlotInv
<1>5. RoomInv'
  BY <1>1, DoneEffect, IdleSlot, RoomFrame DEF IInv
<1>6. QED BY <1>3, <1>4, <1>5 DEF IInv

LEMMA FailStep ==
    ASSUME IInv, NEW r \in Request, Fail(r)
    PROVE  IInv'
<1> DEFINE s == req[r].socket
<1>1. /\ UNCHANGED <<users, participants, messages, made, sockets, room, heard>>
      /\ Done(r)
  BY DEF Fail
<1>2. unsaid' \subseteq MessageId
  BY DEF IInv, TypeOK, Fail, Slot
<1>3. asked' \in [Socket -> {"join", "leave", "either"}]
  BY DEF IInv, TypeOK, Fail
<1>4. TypeOK'
  BY <1>1, <1>2, <1>3, DoneEffect DEF IInv, TypeOK, Stored
<1>5. SlotInv'
  BY <1>1, DoneEffect, IdleOK, SlotFrame DEF IInv, SlotInv
<1>6. RoomOfMembers'
  BY <1>1 DEF IInv, RoomInv, RoomOfMembers
<1>7. CASE req[r].op = "send"
  <2>1. asked' = asked
    BY <1>7 DEF Fail
  <2>2. RoomInv'
    BY <1>1, <1>7, <2>1, DoneEffect, IdleSlot, RoomFrame DEF IInv
  <2>3. QED BY <1>4, <1>5, <2>2 DEF IInv
<1>8. CASE req[r].op # "send"
  <2>1. s \in Socket
    BY <1>8 DEF IInv, SlotInv, SlotOK
  <2>2. /\ sockets[s] = "open" => asked'[s] = "either"
        /\ sockets[s] # "open" => asked' = asked
        /\ \A t \in Socket : t # s => asked'[t] = asked[t]
    BY <1>8, <2>1 DEF IInv, TypeOK, Fail
  <2>3. \A t \in Socket : /\ Commands(t)' \subseteq Commands(t)
                          /\ t # s => Commands(t)' = Commands(t)
    BY <1>1, DoneEffect, IdleSlot DEF IInv, Commands
  <2>4. \A t \in Socket : \A q \in Commands(t)' : req'[q].op = req[q].op
    BY <1>1, DoneEffect, IdleSlot DEF IInv, Commands
  <2>5. AskedInv'
    BY <1>1, <2>2, <2>3, <2>4 DEF IInv, RoomInv, AskedInv
  <2>6. NewInv'
    BY <1>1, <2>1, <2>2, <2>3 DEF IInv, RoomInv, NewInv
  <2>7. RoomAsAsked'
    BY <1>1, <2>2, <2>3 DEF IInv, RoomInv, RoomAsAsked
  <2>8. QED BY <1>4, <1>5, <1>6, <2>5, <2>6, <2>7 DEF IInv, RoomInv
<1>9. QED BY <1>7, <1>8

LEMMA DeleteAccountStep ==
    ASSUME IInv, NEW u \in User, DeleteAccount(u)
    PROVE  IInv'
<1>1. /\ users' = users \ {u} /\ participants' = participants \ {u}
      /\ UNCHANGED <<made, sockets, room, req, heard, asked>>
  BY DEF DeleteAccount
<1>2. messages' = [i \in MessageId |->
                     IF i \in Stored /\ messages[i].sender = u
                     THEN NoMessage ELSE messages[i]]
  BY DEF DeleteAccount
<1>3. messages' \in [MessageId -> Message \cup {NoMessage}]
  BY <1>2 DEF IInv, TypeOK
<1>4. \A i \in Stored' : i <= made /\ messages'[i].sender \in users'
  BY <1>1, <1>2 DEF IInv, TypeOK, Stored
<1>5. TypeOK'
  BY <1>1, <1>3, <1>4 DEF IInv, TypeOK, DeleteAccount
<1>6. SlotInv'
  BY <1>1, SlotFrame DEF IInv, SlotInv
<1>7. \A t : Commands(t)' = Commands(t)
  BY <1>1 DEF Commands
<1>8. RoomInv'
  BY <1>1, <1>7
     DEF IInv, RoomInv, RoomOfMembers, AskedInv, NewInv, RoomAsAsked
<1>9. QED BY <1>5, <1>6, <1>8 DEF IInv

-----------------------------------------------------------------------------
LEMMA Inductive == IInv /\ [Next]_vars => IInv'
<1> SUFFICES ASSUME IInv, [Next]_vars PROVE IInv'
  OBVIOUS
<1>1. CASE \E s \in Client : Connect(s) \/ Disconnect(s)
  BY <1>1, ConnectStep, DisconnectStep
<1>2. CASE \E r \in Request, s \in Client, op \in Op :
             ReceiveCommand(r, s, op)
  BY <1>2, ReceiveCommandStep
<1>3. CASE \E r \in Request, s \in Socket : ReceiveMessage(r, s)
  BY <1>3, SubmitStep, OwnerType DEF ReceiveMessage
<1>4. CASE \E r \in Request, u \in User : ReceivePost(r, u)
  BY <1>4, SubmitStep DEF ReceivePost
<1>5. CASE \E r \in Request : Serve(r)
  BY <1>5, FindParticipantStep, MoveSocketStep, CreateMessageStep,
     EmitMessageStep DEF Serve
<1>6. CASE \E r \in Request : Fail(r)
  BY <1>6, FailStep
<1>7. CASE \E u \in User : DeleteAccount(u)
  BY <1>7, DeleteAccountStep
<1>8. CASE UNCHANGED vars
  <2>1. /\ UNCHANGED <<users, participants, messages, made, sockets, room>>
        /\ UNCHANGED <<req, heard, asked, unsaid>>
    BY <1>8 DEF vars
  <2>2. \A t : Commands(t)' = Commands(t)
    BY <2>1 DEF Commands
  <2>3. TypeOK'
    BY <2>1 DEF IInv, TypeOK, Stored
  <2>4. SlotInv'
    BY <2>1, SlotFrame DEF IInv, SlotInv
  <2>5. RoomInv'
    BY <2>1, <2>2
       DEF IInv, RoomInv, RoomOfMembers, AskedInv, NewInv, RoomAsAsked
  <2>6. QED BY <2>3, <2>4, <2>5 DEF IInv
<1>9. QED BY <1>1, <1>2, <1>3, <1>4, <1>5, <1>6, <1>7, <1>8 DEF Next

LEMMA Invariant == Spec => []IInv
BY Initially, Inductive, PTL DEF Spec

\* Sockets, room, rows and slots keep their types and references, whatever the
\* handlers and the accounts do in between.
THEOREM TypeCorrect == Spec => []TypeOK
<1>1. IInv => TypeOK
  BY DEF IInv
<1>2. QED BY Invariant, <1>1, PTL

\* 'Access denied' holds although the lookup and socket.join are two steps: only
\* the deletion of the account lets a socket be in the room of a chat that its
\* user is not in.
THEOREM RoomsHoldMembers == Spec => []RoomOfMembers
<1>1. IInv => RoomOfMembers
  BY DEF IInv, RoomInv
<1>2. QED BY Invariant, <1>1, PTL

\* However many joins or leaves a client has in flight, once they are through it
\* is where it asked to be, if it did not ask for both at once.
THEOREM RoomIsAsAsked == Spec => []RoomAsAsked
<1>1. IInv => RoomAsAsked
  BY DEF IInv, RoomInv
<1>2. QED BY Invariant, <1>1, PTL
=============================================================================
