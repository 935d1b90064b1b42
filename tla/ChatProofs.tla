----------------------------- MODULE ChatProofs -----------------------------
(***************************************************************************)
(* Proofs about Chat for every set of users and slots and every number of  *)
(* chats and messages.                                                     *)
(***************************************************************************)
EXTENDS Chat, TLAPS

\* What a call knows of its own: the open of a match, or a message on its way,
\* let in while its sender was in the chat, which it writes under an id of its
\* own before it announces it, to somebody else who was in the chat.
SlotOK(r) ==
    /\ req[r].pc \in {"match", "chat", "create"} => req[r].match \in Pairs
    /\ req[r].pc \in {"check", "upload", "write", "emit", "notify", "push"} =>
         req[r].via \in Via /\ req[r].user \in User /\ req[r].chat \in ChatId
    /\ (/\ req[r].pc \in {"upload", "write", "emit", "notify", "push"}
        /\ req[r].user \in users) => IsParticipant(req[r].chat, req[r].user)
    /\ IF req[r].pc \in {"emit", "notify", "push"}
       THEN req[r].msg \in MessageId /\ req[r].msg <= made.messages
       ELSE req[r].msg = 0
    /\ req[r].pc = "emit" => req[r].via = "socket"
    /\ req[r].pc \in {"notify", "push"} /\ req[r].via = "socket" =>
         Sent("new_message", req[r].msg)
    /\ req[r].pc = "push" =>
         /\ req[r].to \in User /\ req[r].to # req[r].user
         /\ req[r].to \in users => IsParticipant(req[r].chat, req[r].to)
         /\ req[r].via = "socket" => Sent("chat_updated", req[r].msg)
    /\ req[r].msg # 0 /\ messages[req[r].msg] # NoMessage =>
         messages[req[r].msg] = [chat |-> req[r].chat, sender |-> req[r].user,
                                 via |-> req[r].via]

SlotInv == \A r \in Request : SlotOK(r)

\* No two calls announce one message.
MessagesApart ==
    \A r, q \in Request : req[r].msg # 0 /\ req[r].msg = req[q].msg => r = q

\* The recipient is told last, his list at once and his device in the end.
ToldLast ==
    \A e \in events :
        /\ e.msg <= made.messages
        /\ \A r \in Request : req[r].msg = e.msg =>
             /\ e.kind # "push"
             /\ e.kind = "chat_updated" =>
                  req[r].pc = "push" /\ e.to = req[r].to

\* What the call of message i has to say has been said.
Heard(i) ==
    /\ messages[i].via = "socket" => Sent("new_message", i)
    /\ \/ Participants(messages[i].chat) = {messages[i].sender}
       \/ /\ messages[i].via = "socket" => Sent("chat_updated", i)
          /\ Sent("push", i) \/ i \in silent

\* The key of matchId.
ChatsKeyed ==
    \A c, d \in ChatId : chats[c] \in Pairs /\ chats[c] = chats[d] => c = d

\* A chat that was returned is still the one of its match, or the match is gone
\* with one of its users, who does not come back.
OpenedInv ==
    \A p \in opened :
        /\ chats[p.chat] \in {p.match, NoMatch}
        /\ p.match \subseteq users => chats[p.chat] = p.match

\* The tables, the calls with what they have sent, and both.
TableInv == /\ ChatsKeyed /\ OpenedInv /\ OpenIsStable
            /\ MembersAreMatch /\ AuthorsAreMembers

CallInv == /\ SlotInv /\ MessagesApart /\ ToldLast
           /\ EventsToRecipient /\ MessageDelivered

IInv == TypeOK /\ TableInv /\ CallInv

-----------------------------------------------------------------------------
\* Two users make a pair, and one of them does not.
LEMMA PairOfTwo ==
    ASSUME NEW m \in Pairs
    PROVE  /\ m \subseteq User /\ m # NoMatch /\ m # NoChat
           /\ \A u \in m : \A s, t \in m \ {u} : s = t
<1>1. PICK u, t \in User : m = {u, t}
  BY DEF Pairs
<1>2. QED BY <1>1, NullsApart

\* What a reference of a chat may be.
LEMMA ChatRef ==
    ASSUME TypeOK, NEW c \in ChatId
    PROVE  /\ chats[c] \in Pairs =>
                chats[c] \in matches /\ chats[c] \subseteq users
           /\ chats[c] \in Pairs \cup {NoMatch, NoChat}
BY NullsApart DEF TypeOK

LEMMA IdleSlot ==
    ASSUME NEW code \in {0, 200, 201, 401, 403, 404, 500}
    PROVE  /\ Idle(code) \in Slot /\ Idle(code).pc = "idle"
           /\ Idle(code).msg = 0
BY DEF Idle, Slot, Via

\* What Answer and Goto do to the slots.
LEMMA AnswerEffect ==
    ASSUME TypeOK, NEW r \in Request,
           NEW code \in {0, 200, 201, 401, 403, 404, 500},
           Answer(r, code)
    PROVE  /\ req' \in [Request -> Slot]
           /\ req'[r] = Idle(code)
           /\ \A q \in Request : q # r => req'[q] = req[q]
BY IdleSlot DEF TypeOK, Answer

LEMMA GotoEffect ==
    ASSUME TypeOK, NEW r \in Request,
           NEW step \in {"chat", "create", "upload", "write", "notify"},
           Goto(r, step)
    PROVE  /\ req' \in [Request -> Slot]
           /\ req'[r] = [req[r] EXCEPT !.pc = step]
           /\ req'[r].pc = step
           /\ UNCHANGED <<req[r].via, req[r].user, req[r].match,
                          req[r].chat, req[r].msg, req[r].to>>
           /\ \A q \in Request : q # r => req'[q] = req[q]
<1>1. req[r] \in Slot /\ req \in [Request -> Slot]
  BY DEF TypeOK
<1>2. QED BY <1>1 DEF Goto, Slot

LEMMA IdleOK ==
    ASSUME NEW r \in Request,
           NEW code \in {0, 200, 201, 401, 403, 404, 500},
           req'[r] = Idle(code)
    PROVE  SlotOK(r)'
BY IdleSlot DEF SlotOK

\* A slot that is left alone knows what it knew, unless a user comes back, a
\* message changes, or an event is taken back.
LEMMA SlotFrame ==
    ASSUME TypeOK, NEW q \in Request, SlotOK(q), req'[q] = req[q],
           users' \subseteq users,
           \A p \in participants : p.user \in users' => p \in participants',
           made' \in [chats : 0 .. MaxChats, messages : 0 .. MaxMessages],
           made.messages <= made'.messages,
           \A i \in MessageId : i <= made.messages =>
               messages'[i] \in {messages[i], NoMessage},
           events \subseteq events'
    PROVE  SlotOK(q)'
<1>1. made.messages \in Nat /\ made'.messages \in Nat
  BY BoundsNat DEF TypeOK
<1>2. (/\ req[q].pc \in {"upload", "write", "emit", "notify", "push"}
       /\ req[q].user \in users')
        => IsParticipant(req[q].chat, req[q].user)'
  BY DEF SlotOK, IsParticipant
<1>3. IF req[q].pc \in {"emit", "notify", "push"}
      THEN req[q].msg \in MessageId /\ req[q].msg <= made'.messages
      ELSE req[q].msg = 0
  BY <1>1 DEF SlotOK, MessageId
<1>4. /\ req[q].pc \in {"notify", "push"} /\ req[q].via = "socket" =>
           Sent("new_message", req[q].msg)'
      /\ req[q].pc = "push" /\ req[q].via = "socket" =>
           Sent("chat_updated", req[q].msg)'
  BY DEF SlotOK, Sent
<1>5. req[q].msg # 0 /\ messages'[req[q].msg] # NoMessage =>
        messages'[req[q].msg] = [chat |-> req[q].chat, sender |-> req[q].user,
                                 via |-> req[q].via]
  BY DEF SlotOK
<1>6. req[q].pc = "push" =>
        /\ req[q].to \in User /\ req[q].to # req[q].user
        /\ req[q].to \in users' => IsParticipant(req[q].chat, req[q].to)'
  BY DEF SlotOK, IsParticipant
<1>7. QED BY <1>2, <1>3, <1>4, <1>5, <1>6 DEF SlotOK

\* The tables, what was opened and what they are compared with do not change.
LEMMA TableFrame ==
    ASSUME TableInv, UNCHANGED <<users, chats, participants, messages, opened>>
    PROVE  TableInv'
BY DEF TableInv, ChatsKeyed, OpenedInv, OpenIsStable, MembersAreMatch,
       AuthorsAreMembers, Participants, IsParticipant

\* A call that has no message, before and after, leaves those of the others.
LEMMA CallFrame ==
    ASSUME IInv, NEW r \in Request, req' \in [Request -> Slot],
           req[r].msg = 0, req'[r].msg = 0, SlotOK(r)',
           \A q \in Request : q # r => req'[q] = req[q],
           UNCHANGED <<users, participants, messages, made, events, cutOff,
                       silent>>
    PROVE  CallInv'
<1>1. \A q \in Request : req'[q].msg = req[q].msg
  OBVIOUS
<1>2. SlotInv'
  <2> SUFFICES ASSUME NEW q \in Request, q # r PROVE SlotOK(q)'
    BY DEF SlotInv
  <2>1. made.messages <= made'.messages
    BY BoundsNat DEF IInv, TypeOK
  <2>2. QED BY <2>1, SlotFrame DEF IInv, TypeOK, CallInv, SlotInv
<1>3. MessagesApart' /\ ToldLast'
  <2>1. MessagesApart'
    BY <1>1 DEF IInv, CallInv, MessagesApart
  <2>2. \A e \in events : e.msg # 0
    BY DEF IInv, TypeOK, MessageId
  <2>3. QED BY <2>1, <2>2 DEF IInv, CallInv, ToldLast
<1>4. EventsToRecipient'
  BY DEF IInv, CallInv, EventsToRecipient, IsParticipant
<1>5. MessageDelivered'
  <2> SUFFICES ASSUME NEW i \in MessageId, messages[i] # NoMessage
               PROVE  \/ Heard(i)'
                      \/ \E q \in Request :
                           /\ req'[q].msg = i
                           /\ req'[q].pc \in {"emit", "notify", "push"}
                      \/ i \in cutOff
    BY DEF MessageDelivered, Heard
  <2>1. \A q \in Request : req[q].msg = i => q # r
    BY DEF MessageId
  <2>2. QED BY <2>1 DEF IInv, CallInv, MessageDelivered, Heard, Sent,
                        Participants, IsParticipant
<1>6. QED BY <1>2, <1>3, <1>4, <1>5 DEF CallInv

\* One event more, the first of its kind for its message, that tells somebody
\* else in the chat.
LEMMA SentOnce ==
    ASSUME EventsToRecipient, NEW i, NEW to, NEW kind,
           kind # "new_message",
           events \subseteq events',
           \A e \in events' \ events :
               e.kind = kind /\ e.msg = i /\ e.to = to,
           \A e \in events : e.msg = i => e.kind # kind,
           messages[i] # NoMessage =>
             /\ to # messages[i].sender
             /\ to \in users => IsParticipant(messages[i].chat, to),
           UNCHANGED <<users, participants, messages>>
    PROVE  EventsToRecipient'
<1> SUFFICES ASSUME NEW e \in events', messages[e.msg] # NoMessage
             PROVE  IF e.kind = "new_message"
                    THEN messages[e.msg].via = "socket"
                    ELSE /\ e.to # messages[e.msg].sender
                         /\ e.to \in users =>
                              IsParticipant(messages[e.msg].chat, e.to)
                         /\ \A f \in events' :
                              f.msg = e.msg /\ f.kind = e.kind => f.to = e.to
  BY DEF EventsToRecipient, IsParticipant
<1>1. CASE e \in events
  <2>1. \A f \in events' : f.msg = e.msg /\ f.kind = e.kind => f \in events
    BY <1>1
  <2>2. QED BY <1>1, <2>1 DEF EventsToRecipient
<1>2. CASE e \notin events
  <2>1. e.kind = kind /\ e.msg = i /\ e.to = to
    BY <1>2
  <2>2. \A f \in events' : f.msg = i /\ f.kind = kind => f.to = to
    OBVIOUS
  <2>3. QED BY <2>1, <2>2
<1>3. QED BY <1>1, <1>2

LEMMA Initially == Init => IInv
<1> SUFFICES ASSUME Init PROVE IInv
  OBVIOUS
<1>1. \A r \in Request : req[r] = Idle(0)
  BY DEF Init
<1>2. TypeOK
  BY BoundsNat, IdleSlot DEF Init, TypeOK
<1>3. \A c \in ChatId : chats[c] = NoChat
  BY DEF Init
<1>4. TableInv
  BY <1>3, NullsApart DEF Init, TableInv, ChatsKeyed, OpenedInv, OpenIsStable,
          MembersAreMatch, AuthorsAreMembers, Participants, IsParticipant
<1>5. SlotInv /\ MessagesApart
  BY <1>1, IdleSlot DEF SlotInv, SlotOK, MessagesApart
<1>6. ToldLast /\ EventsToRecipient /\ MessageDelivered
  BY DEF Init, ToldLast, EventsToRecipient, MessageDelivered
<1>7. QED BY <1>2, <1>4, <1>5, <1>6 DEF IInv, CallInv

-----------------------------------------------------------------------------
\* One lemma per action.

LEMMA MakeMatchStep ==
    ASSUME IInv, NEW m \in Pairs, MakeMatch(m)
    PROVE  IInv'
<1>1. /\ UNCHANGED <<users, chats, participants, messages, made, req>>
      /\ UNCHANGED <<events, opened, cutOff, silent>>
      /\ matches' = matches \cup {m} /\ m \subseteq users
  BY DEF MakeMatch
<1>2. TypeOK'
  BY <1>1 DEF IInv, TypeOK
<1>3. TableInv'
  BY <1>1, TableFrame DEF IInv
<1>4. SlotInv'
  BY <1>1, SlotFrame, BoundsNat DEF IInv, TypeOK, CallInv, SlotInv
<1>5. MessagesApart' /\ ToldLast' /\ EventsToRecipient' /\ MessageDelivered'
  BY <1>1 DEF IInv, CallInv, MessagesApart, ToldLast, EventsToRecipient,
              MessageDelivered, Sent, Participants, IsParticipant
<1>6. QED BY <1>2, <1>3, <1>4, <1>5 DEF IInv, CallInv

LEMMA ReceiveOpenStep ==
    ASSUME IInv, NEW r \in Request, NEW u \in User, NEW m \in Pairs,
           ReceiveOpen(r, u, m)
    PROVE  IInv'
<1> DEFINE slot == [pc |-> "match", via |-> "open", user |-> u, match |-> m,
                    chat |-> 0, msg |-> 0, to |-> NoUser, reply |-> 0]
<1>1. /\ UNCHANGED <<users, matches, chats, participants, messages, made>>
      /\ UNCHANGED <<events, opened, cutOff, silent>>
      /\ req' = [req EXCEPT ![r] = Idle(401)] \/ req' = [req EXCEPT ![r] = slot]
  BY DEF ReceiveOpen, Answer
<1>2. slot \in Slot /\ slot.pc = "match" /\ slot.match \in Pairs /\ slot.msg = 0
  BY DEF Slot
<1> HIDE DEF slot
<1>3. /\ req' \in [Request -> Slot] /\ req'[r] \in {Idle(401), slot}
      /\ \A q \in Request : q # r => req'[q] = req[q]
  BY <1>1, <1>2, IdleSlot DEF IInv, TypeOK
<1>4. SlotOK(r)'
  BY <1>2, <1>3, IdleOK DEF SlotOK
<1>5. req[r].msg = 0 /\ req'[r].msg = 0
  <2>1. req[r].pc = "idle"
    BY DEF ReceiveOpen
  <2>2. req[r].msg = 0
    BY <2>1 DEF IInv, CallInv, SlotInv, SlotOK
  <2>3. QED BY <1>2, <1>3, <2>2, IdleSlot
<1>6. TypeOK'
  BY <1>1, <1>3 DEF IInv, TypeOK
<1>7. TableInv' /\ CallInv'
  BY <1>1, <1>3, <1>4, <1>5, TableFrame, CallFrame DEF IInv
<1>8. QED BY <1>6, <1>7 DEF IInv

LEMMA ReceiveSendStep ==
    ASSUME IInv, NEW r \in Request, NEW via \in Via, NEW u \in User,
           NEW c \in ChatId, ReceiveSend(r, via, u, c)
    PROVE  IInv'
<1> DEFINE slot == [pc |-> "check", via |-> via, user |-> u, match |-> NoMatch,
                    chat |-> c, msg |-> 0, to |-> NoUser, reply |-> 0]
<1>1. /\ UNCHANGED <<users, matches, chats, participants, messages, made>>
      /\ UNCHANGED <<events, opened, cutOff, silent>>
      /\ req' = [req EXCEPT ![r] = Idle(401)] \/ req' = [req EXCEPT ![r] = slot]
  BY DEF ReceiveSend, Answer
<1>2. /\ slot \in Slot /\ slot.pc = "check" /\ slot.via \in Via
      /\ slot.user \in User /\ slot.chat \in ChatId /\ slot.msg = 0
  BY DEF Slot
<1> HIDE DEF slot
<1>3. /\ req' \in [Request -> Slot] /\ req'[r] \in {Idle(401), slot}
      /\ \A q \in Request : q # r => req'[q] = req[q]
  BY <1>1, <1>2, IdleSlot DEF IInv, TypeOK
<1>4. SlotOK(r)'
  BY <1>2, <1>3, IdleOK DEF SlotOK
<1>5. req[r].msg = 0 /\ req'[r].msg = 0
  <2>1. req[r].pc = "idle"
    BY DEF ReceiveSend
  <2>2. req[r].msg = 0
    BY <2>1 DEF IInv, CallInv, SlotInv, SlotOK
  <2>3. QED BY <1>2, <1>3, <2>2, IdleSlot
<1>6. TypeOK'
  BY <1>1, <1>3 DEF IInv, TypeOK
<1>7. TableInv' /\ CallInv'
  BY <1>1, <1>3, <1>4, <1>5, TableFrame, CallFrame DEF IInv
<1>8. QED BY <1>6, <1>7 DEF IInv

\* The steps that only look something up, or upload: the call goes on or is
\* refused.
LEMMA LookupStep ==
    ASSUME IInv, NEW r \in Request,
           FindMatch(r) \/ CheckParticipant(r) \/ Upload(r)
    PROVE  IInv'
<1>1. /\ UNCHANGED <<users, matches, chats, participants, messages, made>>
      /\ UNCHANGED <<events, opened, cutOff, silent>>
  BY DEF FindMatch, CheckParticipant, Upload
<1>2. /\ req[r].msg = 0 /\ SlotOK(r) /\ TypeOK
      /\ req[r].pc \in {"match", "check", "upload"}
  BY DEF FindMatch, CheckParticipant, Upload, IInv, CallInv, SlotInv, SlotOK
<1>3. /\ req' \in [Request -> Slot] /\ SlotOK(r)' /\ req'[r].msg = 0
      /\ \A q \in Request : q # r => req'[q] = req[q]
  <2>1. CASE Answer(r, 403) \/ Answer(r, 404)
    BY <1>2, <2>1, AnswerEffect, IdleOK, IdleSlot
  <2>2. CASE FindMatch(r) /\ Goto(r, "chat")
    <3>1. req'[r].pc = "chat" /\ req'[r].match \in Pairs /\ req'[r].msg = 0
      BY <1>2, <2>2, GotoEffect DEF FindMatch, SlotOK
    <3>2. SlotOK(r)'
      BY <3>1 DEF SlotOK
    <3>3. QED BY <1>2, <2>2, <3>1, <3>2, GotoEffect
  <2>3. CASE CheckParticipant(r) /\ ~Answer(r, 403)
    <3>1. /\ IsParticipant(req[r].chat, req[r].user)
          /\ Goto(r, "upload") \/ Goto(r, "write")
      BY <2>3 DEF CheckParticipant
    <3>2. /\ req' \in [Request -> Slot] /\ req'[r].pc \in {"upload", "write"}
          /\ UNCHANGED <<req[r].via, req[r].user, req[r].chat, req[r].msg>>
          /\ \A q \in Request : q # r => req'[q] = req[q]
      BY <1>2, <3>1, GotoEffect
    <3>3. SlotOK(r)'
      BY <1>1, <1>2, <2>3, <3>1, <3>2
         DEF SlotOK, CheckParticipant, IsParticipant
    <3>4. QED BY <1>2, <3>2, <3>3
  <2>4. CASE Upload(r)
    <3>1. /\ req' \in [Request -> Slot] /\ req'[r].pc = "write"
          /\ UNCHANGED <<req[r].via, req[r].user, req[r].chat, req[r].msg>>
          /\ \A q \in Request : q # r => req'[q] = req[q]
      BY <1>2, <2>4, GotoEffect DEF Upload
    <3>2. SlotOK(r)'
      BY <1>1, <1>2, <2>4, <3>1 DEF SlotOK, Upload, IsParticipant
    <3>3. QED BY <1>2, <3>1, <3>2
  <2>5. QED BY <2>1, <2>2, <2>3, <2>4 DEF FindMatch
<1>4. TypeOK'
  BY <1>1, <1>3 DEF IInv, TypeOK
<1>5. TableInv' /\ CallInv'
  BY <1>1, <1>2, <1>3, TableFrame, CallFrame DEF IInv
<1>6. QED BY <1>4, <1>5 DEF IInv

LEMMA FindChatStep ==
    ASSUME IInv, NEW r \in Request, FindChat(r)
    PROVE  IInv'
<1>1. /\ UNCHANGED <<users, matches, chats, participants, messages, made>>
      /\ UNCHANGED <<events, cutOff, silent>>
      /\ req[r].pc = "chat" /\ TypeOK
  BY DEF FindChat, IInv
<1>2. req[r].msg = 0 /\ req[r].match \in Pairs
  BY <1>1 DEF IInv, CallInv, SlotInv, SlotOK
<1>3. /\ req' \in [Request -> Slot] /\ SlotOK(r)' /\ req'[r].msg = 0
      /\ \A q \in Request : q # r => req'[q] = req[q]
  <2>1. CASE Answer(r, 200)
    BY <1>1, <2>1, AnswerEffect, IdleOK, IdleSlot
  <2>2. CASE Goto(r, "create")
    <3>1. /\ req'[r].pc = "create" /\ req'[r].match \in Pairs
          /\ req'[r].msg = 0
      BY <1>1, <1>2, <2>2, GotoEffect
    <3>2. SlotOK(r)'
      BY <3>1 DEF SlotOK
    <3>3. QED BY <1>1, <2>2, <3>1, <3>2, GotoEffect
  <2>3. QED BY <2>1, <2>2 DEF FindChat
<1>4. CallInv'
  BY <1>1, <1>2, <1>3, CallFrame DEF IInv
<1>5. CASE UNCHANGED opened
  <2>1. TypeOK'
    BY <1>1, <1>3, <1>5 DEF TypeOK
  <2>2. QED BY <1>1, <1>4, <1>5, <2>1, TableFrame DEF IInv
<1>6. CASE \E c \in ChatOf(req[r].match) :
             opened' = opened \cup {[match |-> req[r].match, chat |-> c]}
  <2>1. PICK c \in ChatId :
          /\ chats[c] = req[r].match
          /\ opened' = opened \cup {[match |-> req[r].match, chat |-> c]}
    BY <1>6 DEF ChatOf
  <2>2. req[r].match \subseteq users /\ req[r].match # NoMatch
    BY <1>1, <1>2, <2>1, ChatRef, PairOfTwo
  <2>3. TypeOK'
    BY <1>1, <1>2, <1>3, <2>1 DEF TypeOK
  <2>4. OpenedInv'
    BY <1>1, <2>1 DEF IInv, TableInv, OpenedInv
  <2>5. OpenIsStable'
    <3>1. \A p \in opened : p.match = req[r].match <=> p.chat = c
      <4>1. SUFFICES ASSUME NEW p \in opened
                     PROVE  p.match = req[r].match <=> p.chat = c
        OBVIOUS
      <4>2. /\ chats[p.chat] \in {p.match, NoMatch} /\ p.chat \in ChatId
            /\ p.match \subseteq users => chats[p.chat] = p.match
        BY DEF IInv, TypeOK, TableInv, OpenedInv
      <4>3. p.chat = c => p.match = req[r].match
        BY <2>1, <2>2, <4>2
      <4>4. p.match = req[r].match => p.chat = c
        BY <1>2, <2>1, <2>2, <4>2 DEF IInv, TableInv, ChatsKeyed
      <4>5. QED BY <4>3, <4>4
    <3>2. QED BY <2>1, <3>1 DEF IInv, TableInv, OpenIsStable
  <2>6. ChatsKeyed' /\ MembersAreMatch' /\ AuthorsAreMembers'
    BY <1>1 DEF IInv, TableInv, ChatsKeyed, MembersAreMatch, AuthorsAreMembers,
                Participants, IsParticipant
  <2>7. QED BY <1>4, <2>3, <2>4, <2>5, <2>6 DEF IInv, TableInv
<1>7. QED BY <1>5, <1>6 DEF FindChat

\* The insert of a chat, under an id that nobody has heard of.
LEMMA CreateChatStep ==
    ASSUME IInv, NEW r \in Request, CreateChat(r)
    PROVE  IInv'
<1>0. PICK m, c : m = req[r].match /\ c = made.chats + 1
  OBVIOUS
<1>1. /\ UNCHANGED <<users, matches, messages, events, cutOff, silent>>
      /\ req[r].pc = "create" /\ TypeOK
      /\ Answer(r, 500) \/ Answer(r, 200)
  BY DEF CreateChat, InsertChat, IInv
<1>2. req[r].msg = 0 /\ m \in Pairs
  BY <1>0, <1>1 DEF IInv, CallInv, SlotInv, SlotOK
<1>3. /\ req' \in [Request -> Slot] /\ SlotOK(r)' /\ req'[r].msg = 0
      /\ \A q \in Request : q # r => req'[q] = req[q]
  BY <1>1, AnswerEffect, IdleOK, IdleSlot
<1>4. CASE UNCHANGED <<chats, participants, made, opened>>
  <2>1. TypeOK'
    BY <1>1, <1>3, <1>4 DEF TypeOK
  <2>2. TableInv' /\ CallInv'
    BY <1>1, <1>2, <1>3, <1>4, TableFrame, CallFrame DEF IInv
  <2>3. QED BY <2>1, <2>2 DEF IInv
<1>5. CASE /\ ChatOf(m) = {} /\ m \in matches /\ c \in ChatId
           /\ chats' = [chats EXCEPT ![c] = m]
           /\ participants' = participants \cup
                                {[chat |-> c, user |-> u] : u \in m}
           /\ made' = [made EXCEPT !.chats = c]
           /\ opened' = opened \cup {[match |-> m, chat |-> c]}
  <2>1. /\ m \subseteq users /\ m # NoMatch /\ m # NoChat
        /\ m \subseteq User
    BY <1>1, <1>2, <1>5, PairOfTwo DEF TypeOK
  <2>2. /\ made.chats \in 0 .. MaxChats /\ made.messages \in 0 .. MaxMessages
        /\ made'.chats = c /\ made'.messages = made.messages
        /\ made' \in [chats : 0 .. MaxChats, messages : 0 .. MaxMessages]
    BY <1>0, <1>1, <1>5, BoundsNat DEF TypeOK, ChatId
  <2>3. /\ chats[c] = NoChat /\ chats'[c] = m
        /\ \A d \in ChatId : d # c => chats'[d] = chats[d] /\ chats[d] # m
    BY <1>0, <1>1, <1>5, <2>2 DEF TypeOK, ChatOf
  <2>4. /\ Participants(c) = {} /\ Participants(c)' = m
        /\ \A d \in ChatId : d # c => Participants(d)' = Participants(d)
        /\ \A d : \A u \in User : IsParticipant(d, u) => IsParticipant(d, u)'
    <3>1. Participants(c) = {}
      BY <1>5, <2>3 DEF IInv, TableInv, MembersAreMatch
    <3>2. \A d : \A u \in User : IsParticipant(d, u)' <=>
            IsParticipant(d, u) \/ (d = c /\ u \in m)
      BY <1>5 DEF IsParticipant
    <3>3. QED BY <2>1, <3>1, <3>2 DEF Participants, IsParticipant
  <2>5. TypeOK'
    <3>1. chats' \in [ChatId -> matches \cup {NoMatch, NoChat}]
      BY <1>1, <1>5 DEF TypeOK
    <3>2. \A d \in ChatId : d > made'.chats => chats'[d] = NoChat
      BY <1>0, <1>1, <2>2, <2>3 DEF TypeOK, ChatId
    <3>3. participants' \subseteq [chat : ChatId, user : users]
      BY <1>1, <1>5, <2>1 DEF TypeOK
    <3>4. opened' \subseteq [match : Pairs, chat : ChatId]
      BY <1>1, <1>2, <1>5 DEF TypeOK
    <3>5. QED BY <1>1, <1>3, <2>2, <3>1, <3>2, <3>3, <3>4 DEF TypeOK
  <2>6. ChatsKeyed'
    BY <2>3 DEF IInv, TableInv, ChatsKeyed
  <2>7. \A p \in opened : p.chat # c /\ p.match # m
    <3>1. SUFFICES ASSUME NEW p \in opened PROVE p.chat # c /\ p.match # m
      OBVIOUS
    <3>2. /\ p.chat \in ChatId /\ p.match \in Pairs
          /\ chats[p.chat] \in {p.match, NoMatch}
          /\ p.match \subseteq users => chats[p.chat] = p.match
      BY <1>1 DEF TypeOK, IInv, TableInv, OpenedInv
    <3>3. p.chat # c
      BY <2>3, <3>2, NullsApart
    <3>4. p.match # m
      BY <2>1, <2>3, <3>2, <3>3
    <3>5. QED BY <3>3, <3>4
  <2>8. OpenedInv' /\ OpenIsStable'
    <3>1. OpenedInv'
      BY <1>1, <1>5, <2>3, <2>7 DEF TypeOK, IInv, TableInv, OpenedInv
    <3>2. OpenIsStable'
      BY <1>5, <2>7 DEF IInv, TableInv, OpenIsStable
    <3>3. QED BY <3>1, <3>2
  <2>9. MembersAreMatch'
    BY <2>1, <2>3, <2>4, NullsApart DEF IInv, TableInv, MembersAreMatch
  <2>10. AuthorsAreMembers'
    BY <1>1, <2>4 DEF IInv, TypeOK, Message, TableInv, AuthorsAreMembers
  <2>11. SlotInv'
    <3>1. \A p \in participants : p \in participants'
      BY <1>5
    <3>2. ASSUME NEW q \in Request, q # r PROVE SlotOK(q)'
      BY <1>1, <1>3, <2>2, <3>1, <3>2, SlotFrame
         DEF IInv, CallInv, SlotInv
    <3>3. QED BY <1>3, <3>2 DEF SlotInv
  <2>12. \A q \in Request : req'[q].msg = req[q].msg
    BY <1>2, <1>3
  <2>13. MessagesApart' /\ ToldLast'
    <3>1. MessagesApart'
      BY <2>12 DEF IInv, CallInv, MessagesApart
    <3>2. \A e \in events : e.msg # 0
      BY <1>1 DEF TypeOK, MessageId
    <3>3. QED BY <1>1, <1>2, <1>3, <2>2, <3>1, <3>2
              DEF IInv, CallInv, ToldLast
  <2>14. EventsToRecipient'
    <3>1. \A e \in events :
            e.kind # "new_message" /\ e.to \in users => e.to \in User
      BY <1>1 DEF TypeOK
    <3>2. QED BY <1>1, <2>4, <3>1 DEF IInv, CallInv, EventsToRecipient
  <2>15. MessageDelivered'
    <3>1. \A i \in MessageId : messages[i] # NoMessage =>
            Participants(messages[i].chat)' = Participants(messages[i].chat)
      <4> SUFFICES ASSUME NEW i \in MessageId, messages[i] # NoMessage
                   PROVE  messages[i].chat \in ChatId \ {c}
        BY <1>1, <2>4
      <4>1. messages[i].chat \in ChatId /\ messages[i].sender \in User
        BY <1>1 DEF TypeOK, Message
      <4>2. IsParticipant(messages[i].chat, messages[i].sender)
        BY DEF IInv, TableInv, AuthorsAreMembers
      <4>3. QED BY <2>4, <4>1, <4>2 DEF Participants
    <3>2. \A i \in MessageId, q \in Request : req[q].msg = i =>
            req'[q] = req[q]
      BY <1>2, <1>3 DEF MessageId
    <3>3. QED BY <1>1, <3>1, <3>2
              DEF IInv, CallInv, MessageDelivered, Sent
  <2>16. QED BY <2>5, <2>6, <2>8, <2>9, <2>10, <2>11, <2>13, <2>14, <2>15
             DEF IInv, TableInv, CallInv
<1>6. QED BY <1>0, <1>4, <1>5 DEF CreateChat, InsertChat

\* The insert of a message, under an id that no call and no event has.
LEMMA WriteMessageStep ==
    ASSUME IInv, NEW r \in Request, WriteMessage(r)
    PROVE  IInv'
<1>0. PICK i : i = made.messages + 1
  OBVIOUS
<1>1. /\ UNCHANGED <<users, matches, chats, participants, events, opened>>
      /\ UNCHANGED <<cutOff, silent>>
      /\ req[r].pc = "write" /\ TypeOK
  BY DEF WriteMessage, InsertMessage, IInv
<1>2. req[r].msg = 0 /\ SlotOK(r)
  BY <1>1 DEF IInv, CallInv, SlotInv, SlotOK
<1>3. CASE Answer(r, 500) /\ UNCHANGED <<messages, made>>
  <2>1. /\ req' \in [Request -> Slot] /\ SlotOK(r)' /\ req'[r].msg = 0
        /\ \A q \in Request : q # r => req'[q] = req[q]
    BY <1>1, <1>3, AnswerEffect, IdleOK, IdleSlot
  <2>2. TypeOK'
    BY <1>1, <1>3, <2>1 DEF TypeOK
  <2>3. TableInv' /\ CallInv'
    BY <1>1, <1>2, <1>3, <2>1, TableFrame, CallFrame DEF IInv
  <2>4. QED BY <2>2, <2>3 DEF IInv
<1>4. CASE /\ req[r].user \in users /\ i \in MessageId
           /\ messages' = [messages EXCEPT ![i] =
                [chat |-> req[r].chat, sender |-> req[r].user,
                 via |-> req[r].via]]
           /\ made' = [made EXCEPT !.messages = i]
           /\ req' = [req EXCEPT ![r].msg = i,
                                 ![r].pc = IF req[r].via = "socket"
                                           THEN "emit" ELSE "notify"]
  <2>1. PICK new : new = [chat |-> req[r].chat, sender |-> req[r].user,
                          via |-> req[r].via]
    OBVIOUS
  <2>2. /\ new \in Message /\ new.chat = req[r].chat
        /\ new.sender = req[r].user /\ new.via = req[r].via
        /\ IsParticipant(new.chat, new.sender)
    BY <1>1, <1>2, <1>4, <2>1 DEF Message, SlotOK
  <2>3. /\ made.chats \in 0 .. MaxChats /\ made.messages \in 0 .. MaxMessages
        /\ made'.chats = made.chats /\ made'.messages = i
        /\ made' \in [chats : 0 .. MaxChats, messages : 0 .. MaxMessages]
        /\ made.messages <= made'.messages /\ ~(i <= made.messages) /\ i # 0
    <3>1. made \in [chats : 0 .. MaxChats, messages : 0 .. MaxMessages]
      BY <1>1 DEF TypeOK
    <3>2. made' = [made EXCEPT !.messages = i] /\ i \in 1 .. MaxMessages
      BY <1>4 DEF MessageId
    <3>3. QED BY <1>0, <3>1, <3>2, BoundsNat
  <2>4. /\ messages'[i] = new
        /\ \A j \in MessageId : j # i => messages'[j] = messages[j]
    BY <1>1, <1>4, <2>1 DEF TypeOK
  <2>5. /\ req' \in [Request -> Slot] /\ req'[r].msg = i
        /\ req'[r].pc = IF req[r].via = "socket" THEN "emit" ELSE "notify"
        /\ UNCHANGED <<req[r].via, req[r].user, req[r].chat>>
        /\ \A q \in Request : q # r => req'[q] = req[q]
    <3>1. req \in [Request -> Slot] /\ req[r] \in Slot
      BY <1>1 DEF TypeOK
    <3>2. PICK step : step = IF req[r].via = "socket" THEN "emit" ELSE "notify"
      OBVIOUS
    <3>3. step \in {"emit", "notify"} /\ i \in MessageId
      BY <1>4, <3>2
    <3>4. req' = [req EXCEPT ![r].msg = i, ![r].pc = step]
      BY <1>4, <3>2
    <3>5. PICK slot : slot = [req[r] EXCEPT !.msg = i, !.pc = step]
      OBVIOUS
    <3>6. /\ slot \in Slot /\ slot.msg = i /\ slot.pc = step
          /\ slot.via = req[r].via /\ slot.user = req[r].user
          /\ slot.chat = req[r].chat
      <4>1. PICK named : named = [req[r] EXCEPT !.msg = i]
        OBVIOUS
      <4>2. /\ named \in Slot /\ named.msg = i
            /\ named.via = req[r].via /\ named.user = req[r].user
            /\ named.chat = req[r].chat
        BY <3>1, <3>3, <4>1 DEF Slot
      <4>3. slot = [named EXCEPT !.pc = step]
        BY <3>5, <4>1
      <4>4. QED BY <3>3, <4>2, <4>3 DEF Slot
    <3>7. \A q \in Request : req'[q] = IF q = r THEN slot ELSE req[q]
      BY <3>1, <3>4, <3>5
    <3>8. req' = [q \in Request |-> req'[q]]
      BY <3>1, <3>4
    <3>9. req' \in [Request -> Slot]
      BY <3>1, <3>6, <3>7, <3>8
    <3>10. QED BY <3>2, <3>6, <3>7, <3>9
  <2>6. TypeOK'
    <3>1. messages' \in [MessageId -> Message \cup {NoMessage}]
      BY <1>1, <1>4, <2>1, <2>2 DEF TypeOK
    <3>2. \A j \in MessageId : j > made'.messages => messages'[j] = NoMessage
      BY <1>0, <1>1, <2>3, <2>4 DEF TypeOK, MessageId
    <3>3. \A c \in ChatId : c > made'.chats => chats'[c] = NoChat
      BY <1>1, <2>3 DEF TypeOK
    <3>4. QED BY <1>1, <2>3, <2>5, <3>1, <3>2, <3>3 DEF TypeOK
  <2>7. TableInv'
    <3>1. AuthorsAreMembers'
      BY <1>1, <2>2, <2>4 DEF IInv, TableInv, AuthorsAreMembers, IsParticipant
    <3>2. QED BY <1>1, <3>1 DEF IInv, TableInv, ChatsKeyed, OpenedInv,
                OpenIsStable, MembersAreMatch, Participants, IsParticipant
  <2>8. SlotInv'
    <3>1. ASSUME NEW q \in Request, q # r PROVE SlotOK(q)'
      <4>1. /\ SlotOK(q) /\ req'[q] = req[q]
            /\ \A j \in MessageId : j <= made.messages =>
                 messages'[j] \in {messages[j], NoMessage}
        BY <2>3, <2>4, <2>5, <3>1 DEF IInv, CallInv, SlotInv
      <4>2. QED BY <1>1, <2>3, <4>1, SlotFrame
    <3>2. SlotOK(r)'
      <4>1. req'[r].pc \in {"emit", "notify"} /\ i <= made'.messages
        BY <2>3, <2>5
      <4>2. /\ req'[r].pc = "emit" => req'[r].via = "socket"
            /\ ~(req'[r].pc = "notify" /\ req'[r].via = "socket")
        BY <2>5
      <4>3. messages'[i] = [chat |-> req'[r].chat, sender |-> req'[r].user,
                            via |-> req'[r].via]
        BY <2>1, <2>4, <2>5
      <4>4. QED BY <1>1, <1>2, <1>4, <2>2, <2>5, <4>1, <4>2, <4>3
                DEF SlotOK, IsParticipant
    <3>3. QED BY <3>1, <3>2 DEF SlotInv
  <2>9. \A q \in Request : req[q].msg # i
    BY <2>3 DEF IInv, CallInv, SlotInv, SlotOK
  <2>10. MessagesApart'
    BY <1>2, <2>5, <2>9 DEF IInv, CallInv, MessagesApart
  <2>11. \A e \in events : e.msg \in MessageId /\ e.msg # i
    BY <1>1, <2>3 DEF TypeOK, IInv, CallInv, ToldLast
  <2>12. ToldLast'
    <3>1. \A e \in events : e.msg <= made'.messages
      BY <1>0, <2>3, <2>11 DEF MessageId, IInv, CallInv, ToldLast
    <3>2. \A e \in events : \A q \in Request :
            req'[q].msg = e.msg => req'[q] = req[q]
      BY <2>5, <2>11
    <3>3. QED BY <1>1, <3>1, <3>2 DEF IInv, CallInv, ToldLast
  <2>13. EventsToRecipient'
    BY <1>1, <2>4, <2>11 DEF IInv, CallInv, EventsToRecipient, IsParticipant
  <2>14. MessageDelivered'
    <3>1. ASSUME NEW j \in MessageId, j # i, messages[j] # NoMessage
          PROVE  \/ Heard(j)
                 \/ \E q \in Request :
                      /\ req'[q].msg = j
                      /\ req'[q].pc \in {"emit", "notify", "push"}
                 \/ j \in cutOff
      <4>1. \A q \in Request : req[q].msg = j => q # r
        BY <1>2 DEF MessageId
      <4>2. QED BY <2>5, <3>1, <4>1 DEF IInv, CallInv, MessageDelivered, Heard
    <3>2. req'[r].msg = i /\ req'[r].pc \in {"emit", "notify"}
      BY <2>5
    <3>3. QED BY <1>1, <2>4, <3>1, <3>2
              DEF MessageDelivered, Heard, Sent, Participants, IsParticipant
  <2>15. QED BY <2>6, <2>7, <2>8, <2>10, <2>12, <2>13, <2>14
             DEF IInv, CallInv
<1>5. QED BY <1>0, <1>1, <1>3, <1>4 DEF WriteMessage, InsertMessage

\* The room has the message before the recipient is told.
LEMMA EmitMessageStep ==
    ASSUME IInv, NEW r \in Request, EmitMessage(r)
    PROVE  IInv'
<1>0. PICK new :
        new = [kind |-> "new_message", msg |-> req[r].msg, to |-> NoUser]
  OBVIOUS
<1>1. /\ UNCHANGED <<users, matches, chats, participants, messages, made>>
      /\ UNCHANGED <<opened, cutOff, silent>>
      /\ req[r].pc = "emit" /\ TypeOK /\ Goto(r, "notify")
      /\ events' = events \cup {new}
  BY <1>0 DEF EmitMessage, IInv
<1>2. /\ SlotOK(r) /\ req[r].msg \in MessageId
      /\ req[r].msg <= made.messages /\ req[r].via = "socket"
  BY <1>1 DEF IInv, CallInv, SlotInv, SlotOK
<1>3. /\ new.kind = "new_message" /\ new.msg = req[r].msg
      /\ new \in [kind : {"new_message", "chat_updated", "push"},
                  msg : MessageId, to : User \cup {NoUser}]
  BY <1>0, <1>2
<1>4. /\ req' \in [Request -> Slot] /\ req'[r].pc = "notify"
      /\ UNCHANGED <<req[r].via, req[r].user, req[r].chat, req[r].msg>>
      /\ \A q \in Request : q # r => req'[q] = req[q]
  BY <1>1, GotoEffect
<1>5. TypeOK'
  BY <1>1, <1>3, <1>4 DEF TypeOK
<1>6. TableInv'
  BY <1>1, TableFrame DEF IInv
<1>7. SlotInv'
  <2>1. SlotOK(r)'
    <3>1. Sent("new_message", req[r].msg)'
      BY <1>1, <1>3, <1>4 DEF Sent
    <3>2. QED BY <1>1, <1>2, <1>4, <3>1 DEF SlotOK, IsParticipant
  <2>2. ASSUME NEW q \in Request, q # r PROVE SlotOK(q)'
    BY <1>1, <1>4, <2>2, SlotFrame, BoundsNat
       DEF IInv, TypeOK, CallInv, SlotInv
  <2>3. QED BY <2>1, <2>2 DEF SlotInv
<1>8. \A q \in Request : req'[q].msg = req[q].msg
  BY <1>4
<1>9. MessagesApart' /\ ToldLast'
  <2>1. MessagesApart'
    BY <1>8 DEF IInv, CallInv, MessagesApart
  <2>2. \A e \in events : e.msg = req[r].msg => e.kind # "chat_updated"
    BY <1>1 DEF IInv, CallInv, ToldLast
  <2>3. QED BY <1>1, <1>2, <1>3, <1>4, <1>8, <2>1, <2>2
            DEF IInv, CallInv, ToldLast
<1>10. EventsToRecipient'
  <2>1. messages[new.msg] # NoMessage => messages[new.msg].via = "socket"
    BY <1>2, <1>3 DEF SlotOK, MessageId
  <2>2. QED BY <1>1, <1>3, <2>1
            DEF IInv, CallInv, EventsToRecipient, IsParticipant
<1>11. MessageDelivered'
  <2>1. \A q \in Request : req[q].pc \in {"emit", "notify", "push"} =>
          req'[q].pc \in {"emit", "notify", "push"}
    BY <1>4
  <2>2. QED BY <1>1, <1>8, <2>1 DEF IInv, CallInv, MessageDelivered, Sent,
                                    Participants, IsParticipant
<1>12. QED BY <1>5, <1>6, <1>7, <1>9, <1>10, <1>11 DEF IInv, CallInv

\* The recipient, if there is one, is looked up, and his list learns now of a
\* message of the socket; his device comes next.
LEMMA NotifyRecipientStep ==
    ASSUME IInv, NEW r \in Request, NotifyRecipient(r)
    PROVE  IInv'
<1>0. PICK i : i = req[r].msg
  OBVIOUS
<1>1. /\ UNCHANGED <<users, matches, chats, participants, messages, made>>
      /\ UNCHANGED <<opened, cutOff, silent>>
      /\ req[r].pc = "notify" /\ TypeOK
  BY DEF NotifyRecipient, Tell, IInv
<1>2. /\ SlotOK(r) /\ i \in MessageId /\ i # 0 /\ i <= made.messages
      /\ \A e \in events : e.msg = i => e.kind = "new_message"
      /\ \A q \in Request : q # r => req[q].msg # i
  <2>1. /\ SlotOK(r) /\ i \in MessageId /\ i # 0 /\ i <= made.messages
        /\ \A q \in Request : q # r => req[q].msg # i
    BY <1>0, <1>1 DEF IInv, CallInv, SlotInv, SlotOK, MessageId, MessagesApart
  <2>2. \A e \in events : e.kind \in {"new_message", "chat_updated", "push"}
    BY <1>1 DEF TypeOK
  <2>3. QED BY <1>0, <1>1, <2>1, <2>2 DEF IInv, CallInv, ToldLast
<1>3. messages[i] # NoMessage =>
        /\ messages[i].chat = req[r].chat /\ messages[i].sender = req[r].user
        /\ messages[i].via = req[r].via
  BY <1>0, <1>2 DEF SlotOK
<1>4. TableInv'
  BY <1>1, TableFrame DEF IInv
<1>5. CASE Others(r) = {} /\ Answer(r, 201) /\ UNCHANGED events
  <2>1. /\ req' \in [Request -> Slot] /\ SlotOK(r)' /\ req'[r].msg = 0
        /\ \A q \in Request : q # r => req'[q] = req[q]
    BY <1>1, <1>5, AnswerEffect, IdleOK, IdleSlot
  <2>2. TypeOK'
    BY <1>1, <1>5, <2>1 DEF TypeOK
  <2>3. SlotInv'
    <3>1. ASSUME NEW q \in Request, q # r PROVE SlotOK(q)'
      BY <1>1, <1>5, <2>1, <3>1, SlotFrame, BoundsNat
         DEF IInv, TypeOK, CallInv, SlotInv
    <3>2. QED BY <2>1, <3>1 DEF SlotInv
  <2>4. MessagesApart' /\ ToldLast'
    <3>1. \A e \in events : e.msg # 0
      BY <1>1 DEF TypeOK, MessageId
    <3>2. MessagesApart'
      BY <2>1 DEF IInv, CallInv, MessagesApart
    <3>3. QED BY <1>1, <1>5, <2>1, <3>1, <3>2 DEF IInv, CallInv, ToldLast
  <2>5. EventsToRecipient'
    BY <1>1, <1>5 DEF IInv, CallInv, EventsToRecipient, IsParticipant
  <2>6. MessageDelivered'
    <3>1. messages[i] # NoMessage => Heard(i)
      <4> SUFFICES ASSUME messages[i] # NoMessage PROVE Heard(i)
        OBVIOUS
      <4>1. messages[i].sender \in Participants(messages[i].chat)
        BY <1>1, <1>2 DEF TypeOK, Message, IInv, TableInv, AuthorsAreMembers,
                          Participants
      <4>2. Participants(messages[i].chat) = {messages[i].sender}
        BY <1>3, <1>5, <4>1 DEF Others
      <4>3. messages[i].via = "socket" => Sent("new_message", i)
        BY <1>0, <1>1, <1>2, <1>3 DEF SlotOK
      <4>4. QED BY <4>2, <4>3 DEF Heard
    <3>2. \A j \in MessageId, q \in Request :
            j # i /\ req[q].msg = j => req'[q] = req[q]
      BY <1>0, <2>1
    <3>3. \A j \in MessageId : Heard(j) => Heard(j)'
      BY <1>1, <1>5 DEF Heard, Sent, Participants, IsParticipant
    <3>4. ASSUME NEW j \in MessageId, messages[j] # NoMessage
          PROVE  \/ Heard(j)'
                 \/ \E q \in Request :
                      /\ req'[q].msg = j
                      /\ req'[q].pc \in {"emit", "notify", "push"}
                 \/ j \in cutOff
      BY <3>1, <3>2, <3>3, <3>4 DEF IInv, CallInv, MessageDelivered, Heard
    <3>5. QED BY <1>1, <3>4 DEF MessageDelivered, Heard
  <2>7. QED BY <1>4, <2>2, <2>3, <2>4, <2>5, <2>6 DEF IInv, CallInv
<1>6. ASSUME NEW to \in Others(r),
             events' = events \cup
               {[kind |-> k, msg |-> i, to |-> to] : k \in Emitted(r)},
             req' = [req EXCEPT ![r].pc = "push", ![r].to = to]
      PROVE  IInv'
  <2>1. /\ to \in User /\ to # req[r].user
        /\ IsParticipant(req[r].chat, to)
    BY <1>6 DEF Others, Participants
  <2>2. /\ req' \in [Request -> Slot] /\ req'[r].pc = "push"
        /\ req'[r].to = to
        /\ UNCHANGED <<req[r].via, req[r].user, req[r].chat, req[r].msg>>
        /\ \A q \in Request : q # r => req'[q] = req[q]
    <3>1. req \in [Request -> Slot] /\ req[r] \in Slot
      BY <1>1 DEF TypeOK
    <3>2. PICK slot : slot = [req[r] EXCEPT !.pc = "push", !.to = to]
      OBVIOUS
    <3>3. /\ slot \in Slot /\ slot.pc = "push" /\ slot.to = to
          /\ slot.via = req[r].via /\ slot.user = req[r].user
          /\ slot.chat = req[r].chat /\ slot.msg = req[r].msg
      <4>1. PICK gone : gone = [req[r] EXCEPT !.pc = "push"]
        OBVIOUS
      <4>2. /\ gone \in Slot /\ gone.pc = "push"
            /\ gone.via = req[r].via /\ gone.user = req[r].user
            /\ gone.chat = req[r].chat /\ gone.msg = req[r].msg
        <5>1. PICK step : step = "push"
          OBVIOUS
        <5>2. gone = [req[r] EXCEPT !.pc = step]
          BY <4>1, <5>1
        <5>3. /\ gone \in Slot /\ gone.pc = step
              /\ gone.via = req[r].via /\ gone.user = req[r].user
              /\ gone.chat = req[r].chat /\ gone.msg = req[r].msg
          BY <3>1, <5>1, <5>2 DEF Slot
        <5>4. QED BY <5>1, <5>3
      <4>3. slot = [gone EXCEPT !.to = to]
        BY <3>2, <4>1
      <4>4. QED BY <2>1, <4>2, <4>3 DEF Slot
    <3>4. \A q \in Request : req'[q] = IF q = r THEN slot ELSE req[q]
      BY <1>6, <3>1, <3>2
    <3>5. req' = [q \in Request |-> req'[q]]
      BY <1>6, <3>1
    <3>6. req' \in [Request -> Slot]
      BY <3>1, <3>3, <3>4, <3>5
    <3>7. QED BY <3>3, <3>4, <3>6
  <2>3. \A q \in Request : req'[q].msg = req[q].msg
    BY <2>2
  <2>4. /\ events \subseteq events'
        /\ \A e \in events' \ events :
             /\ e.kind = "chat_updated" /\ e.msg = i /\ e.to = to
             /\ e \in [kind : {"new_message", "chat_updated", "push"},
                       msg : MessageId, to : User \cup {NoUser}]
    BY <1>2, <1>6, <2>1 DEF Emitted
  <2>5. req[r].via = "socket" => Sent("chat_updated", i)'
    <3>1. req[r].via = "socket" =>
            [kind |-> "chat_updated", msg |-> i, to |-> to] \in events'
      BY <1>6 DEF Emitted
    <3>2. QED BY <3>1 DEF Sent
  <2>6. TypeOK'
    <3>1. events' \subseteq [kind : {"new_message", "chat_updated", "push"},
                             msg : MessageId, to : User \cup {NoUser}]
      BY <1>1, <2>4 DEF TypeOK
    <3>2. QED BY <1>1, <2>2, <3>1 DEF TypeOK
  <2>7. SlotInv'
    <3>1. ASSUME NEW q \in Request, q # r PROVE SlotOK(q)'
      BY <1>1, <2>2, <2>4, <3>1, SlotFrame, BoundsNat
         DEF IInv, TypeOK, CallInv, SlotInv
    <3>2. req[r].via = "socket" => Sent("new_message", i)'
      BY <1>0, <1>1, <1>2, <2>4 DEF SlotOK, Sent
    <3>3. SlotOK(r)'
      BY <1>0, <1>1, <1>2, <2>1, <2>2, <2>5, <3>2 DEF SlotOK, IsParticipant
    <3>4. QED BY <3>1, <3>3 DEF SlotInv
  <2>8. MessagesApart'
    BY <2>3 DEF IInv, CallInv, MessagesApart
  <2>9. ToldLast'
    <3>1. \A e \in events' : e.msg <= made.messages
      BY <1>2, <2>4 DEF IInv, CallInv, ToldLast
    <3>2. ASSUME NEW e \in events', NEW q \in Request, req'[q].msg = e.msg
          PROVE  /\ e.kind # "push"
                 /\ e.kind = "chat_updated" =>
                      req'[q].pc = "push" /\ e.to = req'[q].to
      <4>1. CASE e \notin events
        BY <1>0, <1>2, <2>2, <2>4, <3>2, <4>1
      <4>2. CASE e \in events /\ q # r
        BY <2>2, <3>2, <4>2 DEF IInv, CallInv, ToldLast
      <4>3. CASE e \in events /\ q = r
        BY <1>0, <1>2, <2>3, <3>2, <4>3
      <4>4. QED BY <4>1, <4>2, <4>3
    <3>3. QED BY <1>1, <3>1, <3>2 DEF ToldLast
  <2>10. EventsToRecipient'
    BY <1>1, <1>2, <1>3, <2>1, <2>4, SentOnce DEF IInv, CallInv
  <2>11. MessageDelivered'
    <3>1. \A q \in Request : req[q].pc \in {"emit", "notify", "push"} =>
            req'[q].pc \in {"emit", "notify", "push"}
      BY <2>2
    <3>2. \A j \in MessageId : Heard(j) => Heard(j)'
      BY <1>1, <2>4 DEF Heard, Sent, Participants, IsParticipant
    <3>3. QED BY <1>1, <2>3, <3>1, <3>2
              DEF IInv, CallInv, MessageDelivered, Heard
  <2>12. QED BY <1>4, <2>6, <2>7, <2>8, <2>9, <2>10, <2>11 DEF IInv, CallInv
<1>7. QED BY <1>0, <1>5, <1>6 DEF NotifyRecipient, Tell

\* The end of a call that has written a message: the push is sent or not.
LEMMA PushStep ==
    ASSUME IInv, NEW r \in Request, Push(r)
    PROVE  IInv'
<1>0. PICK i, to, new : /\ i = req[r].msg /\ to = req[r].to
                        /\ new = [kind |-> "push", msg |-> i, to |-> to]
  OBVIOUS
<1>1. /\ UNCHANGED <<users, matches, chats, participants, messages, made>>
      /\ UNCHANGED <<opened, cutOff>>
      /\ req[r].pc = "push" /\ TypeOK /\ Answer(r, 201)
      /\ \/ events' = events \cup {new} /\ to \in users /\ UNCHANGED silent
         \/ silent' = silent \cup {i} /\ UNCHANGED events
  BY <1>0 DEF Push, IInv
<1>2. /\ SlotOK(r) /\ i \in MessageId /\ i # 0 /\ i <= made.messages
      /\ to \in User /\ to # req[r].user
      /\ to \in users => IsParticipant(req[r].chat, to)
      /\ req[r].via = "socket" =>
           Sent("new_message", i) /\ Sent("chat_updated", i)
      /\ \A e \in events : e.msg = i => e.kind # "push"
      /\ \A q \in Request : q # r => req[q].msg # i
  <2>1. /\ SlotOK(r) /\ i \in MessageId /\ i # 0 /\ i <= made.messages
        /\ to \in User /\ to # req[r].user
        /\ to \in users => IsParticipant(req[r].chat, to)
        /\ req[r].via = "socket" =>
             Sent("new_message", i) /\ Sent("chat_updated", i)
    BY <1>0, <1>1 DEF IInv, CallInv, SlotInv, SlotOK, MessageId
  <2>2. QED BY <1>0, <2>1 DEF IInv, CallInv, ToldLast, MessagesApart
<1>3. messages[i] # NoMessage =>
        /\ messages[i].chat = req[r].chat /\ messages[i].sender = req[r].user
        /\ messages[i].via = req[r].via
  BY <1>0, <1>2 DEF SlotOK
<1>4. /\ req' \in [Request -> Slot] /\ SlotOK(r)' /\ req'[r].msg = 0
      /\ \A q \in Request : q # r => req'[q] = req[q]
  BY <1>1, AnswerEffect, IdleOK, IdleSlot
<1>5. /\ new.kind = "push" /\ new.msg = i /\ new.to = to
      /\ new \in [kind : {"new_message", "chat_updated", "push"},
                  msg : MessageId, to : User \cup {NoUser}]
      /\ events \subseteq events' /\ silent \subseteq silent'
      /\ new \in events' \/ i \in silent'
      /\ events' \ events \subseteq {new}
  BY <1>0, <1>1, <1>2
<1>6. TypeOK'
  <2>1. events' \subseteq [kind : {"new_message", "chat_updated", "push"},
                           msg : MessageId, to : User \cup {NoUser}]
    BY <1>1, <1>5 DEF TypeOK
  <2>2. silent' \subseteq MessageId
    BY <1>1, <1>2 DEF TypeOK
  <2>3. QED BY <1>1, <1>4, <2>1, <2>2 DEF TypeOK
<1>7. TableInv'
  BY <1>1, TableFrame DEF IInv
<1>8. SlotInv'
  <2>1. ASSUME NEW q \in Request, q # r PROVE SlotOK(q)'
    BY <1>1, <1>4, <1>5, <2>1, SlotFrame, BoundsNat
       DEF IInv, TypeOK, CallInv, SlotInv
  <2>2. QED BY <1>4, <2>1 DEF SlotInv
<1>9. MessagesApart'
  BY <1>4 DEF IInv, CallInv, MessagesApart
<1>10. ToldLast'
  <2>1. \A e \in events' : e.msg <= made.messages
    BY <1>2, <1>5 DEF IInv, CallInv, ToldLast
  <2>2. ASSUME NEW e \in events', NEW q \in Request, req'[q].msg = e.msg
        PROVE  /\ e.kind # "push"
               /\ e.kind = "chat_updated" =>
                    req'[q].pc = "push" /\ e.to = req'[q].to
    <3>1. q # r
      <4>1. e.msg # 0
        BY <1>6 DEF TypeOK, MessageId
      <4>2. QED BY <1>4, <2>2, <4>1
    <3>2. req'[q] = req[q] /\ req[q].msg # i
      BY <1>2, <1>4, <3>1
    <3>3. e \in events
      BY <1>5, <2>2, <3>2
    <3>4. QED BY <2>2, <3>2, <3>3 DEF IInv, CallInv, ToldLast
  <2>3. QED BY <1>1, <2>1, <2>2 DEF ToldLast
<1>11. EventsToRecipient'
  <2>1. CASE UNCHANGED events
    BY <1>1, <2>1 DEF IInv, CallInv, EventsToRecipient, IsParticipant
  <2>2. CASE events' = events \cup {new} /\ to \in users
    <3>1. \A e \in events' \ events :
            e.kind = "push" /\ e.msg = i /\ e.to = to
      BY <1>5, <2>2
    <3>2. QED BY <1>1, <1>2, <1>3, <1>5, <2>2, <3>1, SentOnce DEF IInv, CallInv
  <2>3. QED BY <1>1, <2>1, <2>2
<1>12. MessageDelivered'
  <2>1. ASSUME messages[i] # NoMessage PROVE Heard(i)'
    <3>1. Sent("push", i)' \/ i \in silent'
      BY <1>5 DEF Sent
    <3>2. messages[i].via = "socket" =>
            Sent("new_message", i)' /\ Sent("chat_updated", i)'
      BY <1>2, <1>3, <1>5, <2>1 DEF Sent
    <3>3. QED BY <1>1, <3>1, <3>2 DEF Heard
  <2>2. \A j \in MessageId, q \in Request :
          j # i /\ req[q].msg = j => req'[q] = req[q]
    BY <1>0, <1>4
  <2>3. \A j \in MessageId : Heard(j) => Heard(j)'
    BY <1>1, <1>5 DEF Heard, Sent, Participants, IsParticipant
  <2>4. ASSUME NEW j \in MessageId, messages[j] # NoMessage
        PROVE  \/ Heard(j)'
               \/ \E q \in Request :
                    /\ req'[q].msg = j
                    /\ req'[q].pc \in {"emit", "notify", "push"}
               \/ j \in cutOff
    BY <2>1, <2>2, <2>3, <2>4 DEF IInv, CallInv, MessageDelivered, Heard
  <2>5. QED BY <1>1, <2>4 DEF MessageDelivered, Heard
<1>13. QED BY <1>6, <1>7, <1>8, <1>9, <1>10, <1>11, <1>12 DEF IInv, CallInv

\* A call that breaks off leaves its message, if it has one, on record.
LEMMA FailStep ==
    ASSUME IInv, NEW r \in Request, Fail(r)
    PROVE  IInv'
<1>1. /\ UNCHANGED <<users, matches, chats, participants, messages, made>>
      /\ UNCHANGED <<events, opened, silent>>
      /\ cutOff' = cutOff \cup ({req[r].msg} \ {0})
      /\ TypeOK /\ Answer(r, 0)
  BY DEF Fail, IInv
<1>2. /\ req' \in [Request -> Slot] /\ SlotOK(r)' /\ req'[r].msg = 0
      /\ \A q \in Request : q # r => req'[q] = req[q]
  BY <1>1, AnswerEffect, IdleOK, IdleSlot
<1>3. req[r].msg \in MessageId \cup {0}
  BY <1>1 DEF TypeOK, Slot
<1>4. TypeOK'
  BY <1>1, <1>2, <1>3 DEF TypeOK
<1>5. TableInv'
  BY <1>1, TableFrame DEF IInv
<1>6. SlotInv'
  <2>1. ASSUME NEW q \in Request, q # r PROVE SlotOK(q)'
    BY <1>1, <1>2, <2>1, SlotFrame, BoundsNat
       DEF IInv, TypeOK, CallInv, SlotInv
  <2>2. QED BY <1>2, <2>1 DEF SlotInv
<1>7. MessagesApart'
  BY <1>2 DEF IInv, CallInv, MessagesApart
<1>8. ToldLast'
  <2>1. \A e \in events : e.msg # 0
    BY <1>1 DEF TypeOK, MessageId
  <2>2. QED BY <1>1, <1>2, <2>1 DEF IInv, CallInv, ToldLast
<1>9. EventsToRecipient'
  BY <1>1 DEF IInv, CallInv, EventsToRecipient, IsParticipant
<1>10. MessageDelivered'
  <2>1. \A j \in MessageId : req[r].msg = j => j \in cutOff'
    BY <1>1 DEF MessageId
  <2>2. QED BY <1>1, <1>2, <2>1 DEF IInv, CallInv, MessageDelivered, Sent,
                                    Participants, IsParticipant
<1>11. QED BY <1>4, <1>5, <1>6, <1>7, <1>8, <1>9, <1>10 DEF IInv, CallInv

\* A user leaves every chat, with his messages and his matches.
LEMMA DeleteAccountStep ==
    ASSUME IInv, NEW u \in User, DeleteAccount(u)
    PROVE  IInv'
<1>1. /\ users' = users \ {u}
      /\ matches' = {m \in matches : u \notin m}
      /\ participants' = {p \in participants : p.user # u}
      /\ UNCHANGED <<made, req, events, opened, cutOff, silent>> /\ TypeOK
  BY DEF DeleteAccount, IInv
<1>2. \A c \in ChatId : chats'[c] = IF chats[c] \in Pairs /\ u \in chats[c]
                                    THEN NoMatch ELSE chats[c]
  BY DEF DeleteAccount
<1>3. \A i \in MessageId :
        /\ messages'[i] \in {messages[i], NoMessage}
        /\ messages'[i] # NoMessage =>
             messages'[i] = messages[i] /\ messages[i].sender # u
  BY DEF DeleteAccount
<1>4. \A c : \A t \in User :
        IsParticipant(c, t)' <=> IsParticipant(c, t) /\ t # u
  BY <1>1 DEF IsParticipant
<1>5. \A c : Participants(c)' = Participants(c) \ {u}
  BY <1>4 DEF Participants
<1>6. TypeOK'
  <2>1. chats' \in [ChatId -> matches' \cup {NoMatch, NoChat}]
    <3>1. \A c \in ChatId : chats'[c] \in matches' \cup {NoMatch, NoChat}
      BY <1>1, <1>2, ChatRef, NullsApart
    <3>2. chats' = [c \in ChatId |-> chats'[c]]
      BY DEF DeleteAccount
    <3>3. QED BY <3>1, <3>2
  <2>2. \A c \in ChatId : c > made.chats => chats'[c] = NoChat
    BY <1>1, <1>2, NullsApart DEF TypeOK
  <2>3. messages' \in [MessageId -> Message \cup {NoMessage}]
    <3>1. \A i \in MessageId : messages'[i] \in Message \cup {NoMessage}
      BY <1>1, <1>3 DEF TypeOK
    <3>2. messages' = [i \in MessageId |-> messages'[i]]
      BY DEF DeleteAccount
    <3>3. QED BY <3>1, <3>2
  <2>4. \A i \in MessageId : i > made.messages => messages'[i] = NoMessage
    BY <1>1, <1>3 DEF TypeOK
  <2>5. \A m \in matches' : m \subseteq users'
    BY <1>1 DEF TypeOK
  <2>6. participants' \subseteq [chat : ChatId, user : users']
    BY <1>1 DEF TypeOK
  <2>7. QED BY <1>1, <2>1, <2>2, <2>3, <2>4, <2>5, <2>6 DEF TypeOK
<1>7. ChatsKeyed'
  BY <1>2, NullsApart DEF IInv, TableInv, ChatsKeyed
<1>8. OpenedInv' /\ OpenIsStable'
  <2>1. ASSUME NEW p \in opened
        PROVE  /\ chats'[p.chat] \in {p.match, NoMatch}
               /\ p.match \subseteq users' => chats'[p.chat] = p.match
    <3>1. /\ p.chat \in ChatId /\ p.match \in Pairs
          /\ chats[p.chat] \in {p.match, NoMatch}
          /\ p.match \subseteq users => chats[p.chat] = p.match
      BY <1>1, <2>1 DEF TypeOK, IInv, TableInv, OpenedInv
    <3>2. QED BY <1>1, <1>2, <3>1
  <2>2. QED BY <1>1, <2>1 DEF IInv, TableInv, OpenedInv, OpenIsStable
<1>9. MembersAreMatch'
  <2> SUFFICES ASSUME NEW c \in ChatId
               PROVE  /\ chats'[c] \in Pairs => Participants(c)' = chats'[c]
                      /\ chats'[c] = NoChat => Participants(c)' = {}
                      /\ chats'[c] = NoMatch =>
                           \A s, t \in Participants(c)' : s = t
    BY DEF MembersAreMatch
  <2>1. /\ chats[c] \in Pairs => Participants(c) = chats[c]
        /\ chats[c] = NoChat => Participants(c) = {}
        /\ chats[c] = NoMatch => \A s, t \in Participants(c) : s = t
    BY DEF IInv, TableInv, MembersAreMatch
  <2>2. CASE chats[c] \in Pairs /\ u \in chats[c]
    BY <1>2, <1>5, <2>1, <2>2, PairOfTwo, NullsApart
  <2>3. CASE ~(chats[c] \in Pairs /\ u \in chats[c])
    BY <1>2, <1>5, <2>1, <2>3
  <2>4. QED BY <2>2, <2>3
<1>10. AuthorsAreMembers'
  <2> SUFFICES ASSUME NEW i \in MessageId, messages'[i] # NoMessage
               PROVE  [chat |-> messages'[i].chat, user |-> messages'[i].sender]
                        \in participants'
    BY DEF AuthorsAreMembers, IsParticipant
  <2>1. /\ messages'[i] = messages[i] /\ messages[i].sender # u
        /\ messages[i].sender \in User
    BY <1>1, <1>3 DEF TypeOK, Message
  <2>2. QED BY <1>4, <2>1 DEF IInv, TableInv, AuthorsAreMembers, IsParticipant
<1>11. SlotInv'
  <2>1. /\ users' \subseteq users /\ events \subseteq events'
        /\ \A p \in participants : p.user \in users' => p \in participants'
        /\ made' \in [chats : 0 .. MaxChats, messages : 0 .. MaxMessages]
        /\ made.messages <= made'.messages
    BY <1>1, BoundsNat DEF TypeOK
  <2>2. QED BY <1>1, <1>3, <2>1, SlotFrame DEF IInv, CallInv, SlotInv
<1>12. MessagesApart' /\ ToldLast'
  BY <1>1 DEF IInv, CallInv, MessagesApart, ToldLast
<1>13. EventsToRecipient'
  <2> SUFFICES ASSUME NEW e \in events, messages'[e.msg] # NoMessage
               PROVE  IF e.kind = "new_message"
                      THEN messages'[e.msg].via = "socket"
                      ELSE /\ e.to # messages'[e.msg].sender
                           /\ e.to \in users' =>
                                [chat |-> messages'[e.msg].chat, user |-> e.to]
                                  \in participants'
                           /\ \A f \in events :
                                f.msg = e.msg /\ f.kind = e.kind => f.to = e.to
    BY <1>1 DEF EventsToRecipient, IsParticipant
  <2>1. messages'[e.msg] = messages[e.msg] /\ users \subseteq User
    BY <1>1, <1>3 DEF TypeOK
  <2>2. e.to \in users' => e.to \in users /\ e.to # u
    BY <1>1
  <2>3. QED BY <1>4, <2>1, <2>2
            DEF IInv, CallInv, EventsToRecipient, IsParticipant
<1>14. MessageDelivered'
  <2> SUFFICES ASSUME NEW j \in MessageId, messages'[j] # NoMessage
               PROVE  \/ Heard(j)'
                      \/ \E q \in Request :
                           /\ req[q].msg = j
                           /\ req[q].pc \in {"emit", "notify", "push"}
                      \/ j \in cutOff
    BY <1>1 DEF MessageDelivered, Heard
  <2>1. messages'[j] = messages[j] /\ messages[j].sender # u
    BY <1>3
  <2>2. Participants(messages[j].chat) = {messages[j].sender} =>
          Participants(messages[j].chat) \ {u} = {messages[j].sender}
    BY <2>1
  <2>3. PICK c : c = messages[j].chat
    OBVIOUS
  <2>4. \/ Heard(j)
        \/ \E q \in Request : /\ req[q].msg = j
                              /\ req[q].pc \in {"emit", "notify", "push"}
        \/ j \in cutOff
    BY <2>1 DEF IInv, CallInv, MessageDelivered, Heard
  <2>5. Heard(j) => Heard(j)'
    <3>1. /\ Participants(c)' = Participants(c) \ {u}
          /\ messages'[j].chat = c
      BY <1>5, <2>1, <2>3
    <3>2. {t \in User : [chat |-> messages'[j].chat, user |-> t]
                          \in participants'} = Participants(c) \ {u}
      BY <3>1 DEF Participants, IsParticipant
    <3>3. QED BY <1>1, <2>1, <2>2, <2>3, <3>2
              DEF Heard, Sent, Participants, IsParticipant
  <2>6. QED BY <2>4, <2>5
<1>15. QED BY <1>6, <1>7, <1>8, <1>9, <1>10, <1>11, <1>12, <1>13, <1>14
           DEF IInv, TableInv, CallInv

-----------------------------------------------------------------------------
LEMMA Stuttering == IInv /\ UNCHANGED vars => IInv'
<1> SUFFICES ASSUME IInv, UNCHANGED vars PROVE IInv'
  OBVIOUS
<1>1. /\ UNCHANGED <<users, matches, chats, participants, messages, made, req>>
      /\ UNCHANGED <<events, opened, cutOff, silent>>
  BY DEF vars
<1>2. TypeOK'
  BY <1>1 DEF IInv, TypeOK
<1>3. TableInv'
  BY <1>1, TableFrame DEF IInv
<1>4. SlotInv'
  BY <1>1, SlotFrame, BoundsNat DEF IInv, TypeOK, CallInv, SlotInv
<1>5. MessagesApart' /\ ToldLast' /\ EventsToRecipient' /\ MessageDelivered'
  BY <1>1 DEF IInv, CallInv, MessagesApart, ToldLast, EventsToRecipient,
              MessageDelivered, Sent, Participants, IsParticipant
<1>6. QED BY <1>2, <1>3, <1>4, <1>5 DEF IInv, CallInv

LEMMA Inductive == IInv /\ [Next]_vars => IInv'
<1> SUFFICES ASSUME IInv, Next PROVE IInv'
  BY Stuttering
<1>1. CASE \E m \in Pairs : MakeMatch(m)
  BY <1>1, MakeMatchStep
<1>2. CASE \E r \in Request, u \in User, m \in Pairs : ReceiveOpen(r, u, m)
  BY <1>2, ReceiveOpenStep
<1>3. CASE \E r \in Request, via \in Via, u \in User, c \in ChatId :
             ReceiveSend(r, via, u, c)
  BY <1>3, ReceiveSendStep
<1>4. ASSUME NEW r \in Request, Serve(r) \/ Fail(r) PROVE IInv'
  <2>1. CASE FindMatch(r) \/ CheckParticipant(r) \/ Upload(r)
    BY <2>1, LookupStep
  <2>2. CASE FindChat(r)
    BY <2>2, FindChatStep
  <2>3. CASE CreateChat(r)
    BY <2>3, CreateChatStep
  <2>4. CASE WriteMessage(r)
    BY <2>4, WriteMessageStep
  <2>5. CASE EmitMessage(r)
    BY <2>5, EmitMessageStep
  <2>6. CASE NotifyRecipient(r)
    BY <2>6, NotifyRecipientStep
  <2>7. CASE Push(r)
    BY <2>7, PushStep
  <2>8. CASE Fail(r)
    BY <2>8, FailStep
  <2>9. QED BY <1>4, <2>1, <2>2, <2>3, <2>4, <2>5, <2>6, <2>7, <2>8 DEF Serve
<1>5. CASE \E u \in User : DeleteAccount(u)
  BY <1>5, DeleteAccountStep
<1>6. QED BY <1>1, <1>2, <1>3, <1>4, <1>5 DEF Next

LEMMA Invariant == Spec => []IInv
BY Initially, Inductive, PTL DEF Spec

-----------------------------------------------------------------------------
\* The tables refer to rows that exist and the slots hold calls of the right
\* shape, whatever the order of opens, messages and deleted accounts.
THEOREM TypeCorrect == Spec => []TypeOK
<1>1. IInv => TypeOK
  BY DEF IInv
<1>2. QED BY <1>1, Invariant, PTL

\* The participants openChat has inserted are the users of the match as long as
\* it is there, and at most the one who stayed when it is gone.
THEOREM MembersMatch == Spec => []MembersAreMatch
<1>1. IInv => MembersAreMatch
  BY DEF IInv, TableInv
<1>2. QED BY <1>1, Invariant, PTL

\* The author of a stored message is in its chat: the foreign key of the sender
\* makes up for the time between assertParticipant and the insert.
THEOREM AuthorsIn == Spec => []AuthorsAreMembers
<1>1. IInv => AuthorsAreMembers
  BY DEF IInv, TableInv
<1>2. QED BY <1>1, Invariant, PTL

\* openChat returns one chat for one match, now and later, though two opens may
\* look for it at once and both insert it: the key of matchId stops the second.
THEOREM OneChatPerMatch == Spec => []OpenIsStable
<1>1. IInv => OpenIsStable
  BY DEF IInv, TableInv
<1>2. QED BY <1>1, Invariant, PTL

\* What the gateway and the notifications send of a message goes to the other
\* participant, to one of them, and the room hears only of the socket's.
THEOREM ToldTheRecipient == Spec => []EventsToRecipient
<1>1. IInv => EventsToRecipient
  BY DEF IInv, CallInv
<1>2. QED BY <1>1, Invariant, PTL

\* What the check of a participant saw holds until the call ends, or its user's
\* account does.
THEOREM CheckHolds == Spec => []CheckOutlivesUpload
<1>1. IInv => CheckOutlivesUpload
  BY DEF IInv, CallInv, SlotInv, SlotOK, CheckOutlivesUpload
<1>2. QED BY <1>1, Invariant, PTL

\* A stored message has reached the room and the recipient's list if it came
\* over the socket, and sendToUser has had its push, unless its call is still
\* running, was cut off, or found nobody to tell.
THEOREM NoneForgotten == Spec => []MessageDelivered
<1>1. IInv => MessageDelivered
  BY DEF IInv, CallInv
<1>2. QED BY <1>1, Invariant, PTL
=============================================================================
