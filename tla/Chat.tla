-------------------------------- MODULE Chat --------------------------------
(***************************************************************************)
(* The chat of a match: ChatService.openChat and the three ways a message  *)
(* gets into it - sendMessage of ChatService (REST), send_message of the   *)
(* gateway (WebSocket) and uploadChatImage of FilesService.  They are one  *)
(* handler three times, with differences that matter: only the gateway     *)
(* emits to the room of the chat and to the personal room of the           *)
(* recipient, and only the upload waits between check and write.           *)
(* Matches are made by Matching and go with their users; a match is known  *)
(* by its pair of users, which is the key of its table.                    *)
(***************************************************************************)
EXTENDS Naturals

CONSTANTS User, Request,
          NoUser, NoMatch, NoChat, NoMessage,
          MaxChats,           \* bound on the chats ever created
          MaxMessages         \* bound on the messages ever written

ASSUME BoundsNat == MaxChats \in Nat /\ MaxMessages \in Nat

VARIABLES users,              \* ids in table users
          matches,            \* table matches, by pair
          chats,              \* table chats: id -> its match, or NoChat
          participants,       \* table chat_participants: [chat, user]
          messages,           \* table messages: id -> [chat, sender, via]
          made,               \* ids handed out: [chats, messages]
          req,                \* the requests, slot by slot
          events,             \* sent to clients: [kind, msg, to]
          opened,             \* history: [match, chat] of each chat returned
          cutOff,             \* history: messages whose call failed afterwards
          silent              \* history: messages whose push sendToUser gave up

vars == <<users, matches, chats, participants, messages, made, req, events,
          opened, cutOff, silent>>

ChatId == 1 .. MaxChats
MessageId == 1 .. MaxMessages

Pairs == {{u, t} : u, t \in User} \ {{u} : u \in User}

ASSUME NullsApart == /\ NoUser \notin User
                     /\ NoMatch \notin Pairs
                     /\ NoChat \notin Pairs \cup {NoMatch}

Via == {"rest", "socket", "image"}

Message == [chat : ChatId, sender : User, via : Via]

Slot == [pc : {"idle", "match", "chat", "create",
               "check", "upload", "write", "emit", "notify", "push"},
         via : Via \cup {"open"}, user : User \cup {NoUser},
         match : Pairs \cup {NoMatch}, chat : ChatId \cup {0},
         msg : MessageId \cup {0}, to : User \cup {NoUser},
         reply : {0, 200, 201, 401, 403, 404, 500}]

Idle(code) == [pc |-> "idle", via |-> "open", user |-> NoUser,
               match |-> NoMatch, chat |-> 0, msg |-> 0, to |-> NoUser,
               reply |-> code]

\* @unique matchId of chats: the chat of a match, if there is one.
ChatOf(m) == {c \in ChatId : chats[c] = m}

IsParticipant(c, u) == [chat |-> c, user |-> u] \in participants

Participants(c) == {u \in User : IsParticipant(c, u)}

-----------------------------------------------------------------------------
Init ==
    /\ users = User
    /\ matches = {}
    /\ chats = [c \in ChatId |-> NoChat]
    /\ participants = {}
    /\ messages = [i \in MessageId |-> NoMessage]
    /\ made = [chats |-> 0, messages |-> 0]
    /\ req = [r \in Request |-> Idle(0)]
    /\ events = {}
    /\ opened = {}
    /\ cutOff = {}
    /\ silent = {}

Goto(r, step) == req' = [req EXCEPT ![r].pc = step]

Answer(r, code) == req' = [req EXCEPT ![r] = Idle(code)]

\* External: Matching pairs two users who like each other.
MakeMatch(m) ==
    /\ m \subseteq users /\ m \notin matches
    /\ matches' = matches \cup {m}
    /\ UNCHANGED <<users, chats, participants, messages, made, req, events,
                   opened, cutOff, silent>>

\* POST /chat/matches/:matchId/open.
ReceiveOpen(r, u, m) ==
    /\ req[r].pc = "idle"
    /\ IF u \notin users THEN Answer(r, 401)
       ELSE req' = [req EXCEPT ![r] = [pc |-> "match", via |-> "open",
                      user |-> u, match |-> m, chat |-> 0, msg |-> 0,
                      to |-> NoUser, reply |-> 0]]
    /\ UNCHANGED <<users, matches, chats, participants, messages, made, events,
                   opened, cutOff, silent>>

\* A message for a chat: POST /chat/:chatId/messages, the event send_message,
\* POST /files/chat/:chatId/image.  A socket was let in by its token and is
\* not looked up again, so that its user may be gone; the other two pass the
\* guard.
ReceiveSend(r, via, u, c) ==
    /\ req[r].pc = "idle"
    /\ IF via # "socket" /\ u \notin users THEN Answer(r, 401)
       ELSE req' = [req EXCEPT ![r] = [pc |-> "check", via |-> via,
                      user |-> u, match |-> NoMatch, chat |-> c, msg |-> 0,
                      to |-> NoUser, reply |-> 0]]
    /\ UNCHANGED <<users, matches, chats, participants, messages, made, events,
                   opened, cutOff, silent>>

FindMatch(r) ==
    /\ req[r].pc = "match"
    /\ IF req[r].match \notin matches          THEN Answer(r, 404)
       ELSE IF req[r].user \notin req[r].match THEN Answer(r, 403)
       ELSE Goto(r, "chat")
    /\ UNCHANGED <<users, matches, chats, participants, messages, made, events,
                   opened, cutOff, silent>>

\* The chat of the match, if somebody has opened it before.
FindChat(r) ==
    /\ req[r].pc = "chat"
    /\ \/ /\ ChatOf(req[r].match) = {}
          /\ Goto(r, "create")
          /\ UNCHANGED opened
       \/ \E c \in ChatOf(req[r].match) :
            /\ opened' = opened \cup {[match |-> req[r].match, chat |-> c]}
            /\ Answer(r, 200)
    /\ UNCHANGED <<users, matches, chats, participants, messages, made, events,
                   cutOff, silent>>

\* The insert of a chat with its participants, unless a key refuses it (500).
InsertChat(r, refused, members) ==
    /\ req[r].pc = "create"
    /\ LET m == req[r].match
           c == made.chats + 1
       IN  IF refused
           THEN /\ Answer(r, 500)
                /\ UNCHANGED <<chats, participants, made, opened>>
           ELSE /\ c \in ChatId
                /\ chats' = [chats EXCEPT ![c] = m]
                /\ participants' = participants \cup
                                     {[chat |-> c, user |-> u] : u \in members}
                /\ made' = [made EXCEPT !.chats = c]
                /\ opened' = opened \cup {[match |-> m, chat |-> c]}
                /\ Answer(r, 200)
    /\ UNCHANGED <<users, matches, messages, events, cutOff, silent>>

\* Fault: no unique key on matchId.
CreateChatUnkeyed(r) ==
    InsertChat(r, req[r].match \notin matches, req[r].match)

\* Fault: only the one who opens the chat gets into it.
CreateChatAlone(r) ==
    InsertChat(r, ChatOf(req[r].match) # {} \/ req[r].match \notin matches,
               {req[r].user})

\* openChat: both users of the match, in one transaction; the key of matchId
\* and the foreign keys hold.
CreateChat(r) ==
    InsertChat(r, ChatOf(req[r].match) # {} \/ req[r].match \notin matches,
               req[r].match)

\* Fault: nobody is looked up.
CheckNothing(r) ==
    /\ req[r].pc = "check"
    /\ Goto(r, IF req[r].via = "image" THEN "upload" ELSE "write")
    /\ UNCHANGED <<users, matches, chats, participants, messages, made, events,
                   opened, cutOff, silent>>

\* assertParticipant, or the same lookup in the gateway and the upload.
CheckParticipant(r) ==
    /\ req[r].pc = "check"
    /\ IF IsParticipant(req[r].chat, req[r].user)
       THEN Goto(r, IF req[r].via = "image" THEN "upload" ELSE "write")
       ELSE Answer(r, 403)
    /\ UNCHANGED <<users, matches, chats, participants, messages, made, events,
                   opened, cutOff, silent>>

\* External: Cloudinary takes the image.
Upload(r) ==
    /\ req[r].pc = "upload"
    /\ Goto(r, "write")
    /\ UNCHANGED <<users, matches, chats, participants, messages, made, events,
                   opened, cutOff, silent>>

\* The insert of a message, unless a key refuses it (500).
InsertMessage(r, refused) ==
    /\ req[r].pc = "write"
    /\ LET i == made.messages + 1
       IN  IF refused
           THEN Answer(r, 500) /\ UNCHANGED <<messages, made>>
           ELSE /\ i \in MessageId
                /\ messages' = [messages EXCEPT ![i] =
                     [chat |-> req[r].chat, sender |-> req[r].user,
                      via |-> req[r].via]]
                /\ made' = [made EXCEPT !.messages = i]
                /\ req' = [req EXCEPT ![r].msg = i,
                                      ![r].pc = IF req[r].via = "socket"
                                                THEN "emit" ELSE "notify"]
    /\ UNCHANGED <<users, matches, chats, participants, events, opened, cutOff,
                   silent>>

\* Fault: no foreign key from messages to their senders.
WriteMessageUnkeyed(r) == InsertMessage(r, FALSE)

\* The transaction: the message, and the time of the chat (left out).  A
\* sender who is gone violates the foreign key.
WriteMessage(r) == InsertMessage(r, req[r].user \notin users)

\* new_message to the room of the chat, by the gateway alone.
EmitMessage(r) ==
    /\ req[r].pc = "emit"
    /\ events' = events \cup
         {[kind |-> "new_message", msg |-> req[r].msg, to |-> NoUser]}
    /\ Goto(r, "notify")
    /\ UNCHANGED <<users, matches, chats, participants, messages, made, opened,
                   cutOff, silent>>

\* The query for the recipient, who is one of those found, and what is emitted
\* to him at once; without one the notification ends.
Tell(r, found, kinds) ==
    /\ req[r].pc = "notify"
    /\ \/ found = {} /\ Answer(r, 201) /\ UNCHANGED events
       \/ \E to \in found :
            /\ events' = events \cup
                 {[kind |-> k, msg |-> req[r].msg, to |-> to] : k \in kinds}
            /\ req' = [req EXCEPT ![r].pc = "push", ![r].to = to]
    /\ UNCHANGED <<users, matches, chats, participants, messages, made, opened,
                   cutOff, silent>>

Others(r) == Participants(req[r].chat) \ {req[r].user}

\* chat_updated goes to the personal room, and only from the gateway.
Emitted(r) == IF req[r].via = "socket" THEN {"chat_updated"} ELSE {}

\* Fault: any participant, where the query excludes the sender.
NotifyAnyone(r) == Tell(r, Participants(req[r].chat), Emitted(r))

\* Fault: only the gateway notifies.
NotifyOverSocket(r) ==
    Tell(r, IF req[r].via = "socket" THEN Others(r) ELSE {}, Emitted(r))

\* The notification, which the call does not wait for: to the first other
\* participant, if there is one.
NotifyRecipient(r) == Tell(r, Others(r), Emitted(r))

\* sendToUser: the device of the recipient is looked up and the push handed to
\* FCM - or nothing is sent, for want of a device, which a user who is gone has
\* not, or because FCM refuses and the error is only logged.
Push(r) ==
    /\ req[r].pc = "push"
    /\ \/ /\ req[r].to \in users
          /\ events' = events \cup
               {[kind |-> "push", msg |-> req[r].msg, to |-> req[r].to]}
          /\ UNCHANGED silent
       \/ silent' = silent \cup {req[r].msg} /\ UNCHANGED events
    /\ Answer(r, 201)
    /\ UNCHANGED <<users, matches, chats, participants, messages, made, opened,
                   cutOff>>

\* The database or Cloudinary fails, or the process stops.
Fail(r) ==
    /\ req[r].pc # "idle"
    /\ cutOff' = cutOff \cup ({req[r].msg} \ {0})
    /\ Answer(r, 0)
    /\ UNCHANGED <<users, matches, chats, participants, messages, made, events,
                   opened, silent>>

\* Fault: a chat keeps the reference to a match that is gone.
DeleteKeepingChats(u) ==
    /\ u \in users
    /\ users' = users \ {u}
    /\ matches' = {m \in matches : u \notin m}
    /\ participants' = {p \in participants : p.user # u}
    /\ messages' = [i \in MessageId |->
                      IF messages[i] # NoMessage /\ messages[i].sender = u
                      THEN NoMessage ELSE messages[i]]
    /\ UNCHANGED <<chats, made, req, events, opened, cutOff, silent>>

\* The delete of a user takes matches, participations and messages along; a
\* chat stays behind without its match (onDelete: SetNull).
DeleteAccount(u) ==
    /\ u \in users
    /\ users' = users \ {u}
    /\ matches' = {m \in matches : u \notin m}
    /\ chats' = [c \in ChatId |->
                   IF chats[c] \in Pairs /\ u \in chats[c] THEN NoMatch
                                                           ELSE chats[c]]
    /\ participants' = {p \in participants : p.user # u}
    /\ messages' = [i \in MessageId |->
                      IF messages[i] # NoMessage /\ messages[i].sender = u
                      THEN NoMessage ELSE messages[i]]
    /\ UNCHANGED <<made, req, events, opened, cutOff, silent>>

Serve(r) == \/ FindMatch(r)
            \/ FindChat(r)
            \/ CreateChat(r)
            \/ CheckParticipant(r)
            \/ Upload(r)
            \/ WriteMessage(r)
            \/ EmitMessage(r)
            \/ NotifyRecipient(r)
            \/ Push(r)

Next ==
    \/ \E m \in Pairs : MakeMatch(m)
    \/ \E r \in Request, u \in User, m \in Pairs : ReceiveOpen(r, u, m)
    \/ \E r \in Request, via \in Via, u \in User, c \in ChatId :
         ReceiveSend(r, via, u, c)
    \/ \E r \in Request : Serve(r) \/ Fail(r)
    \/ \E u \in User : DeleteAccount(u)

Spec == Init /\ [][Next]_vars

-----------------------------------------------------------------------------
\* Every table holds rows of its type that refer to rows which exist, and a
\* slot holds a call of the right shape.
TypeOK ==
    /\ users \subseteq User
    /\ matches \subseteq Pairs
    /\ \A m \in matches : m \subseteq users
    /\ made \in [chats : 0 .. MaxChats, messages : 0 .. MaxMessages]
    /\ chats \in [ChatId -> matches \cup {NoMatch, NoChat}]
    /\ \A c \in ChatId : c > made.chats => chats[c] = NoChat
    /\ participants \subseteq [chat : ChatId, user : users]
    /\ messages \in [MessageId -> Message \cup {NoMessage}]
    /\ \A i \in MessageId : i > made.messages => messages[i] = NoMessage
    /\ req \in [Request -> Slot]
    /\ events \subseteq [kind : {"new_message", "chat_updated", "push"},
                         msg : MessageId, to : User \cup {NoUser}]
    /\ opened \subseteq [match : Pairs, chat : ChatId]
    /\ cutOff \subseteq MessageId /\ silent \subseteq MessageId

\* A chat and its match agree about who is in it, at every moment of an open
\* that races with another one or with the end of an account: both users while
\* there is a match, at most the one who stayed when it is gone.
MembersAreMatch ==
    \A c \in ChatId :
        /\ chats[c] \in Pairs => Participants(c) = chats[c]
        /\ chats[c] = NoChat => Participants(c) = {}
        /\ chats[c] = NoMatch => \A u, t \in Participants(c) : u = t

\* The author of every message is in the chat, though he was only looked up
\* before an upload, and perhaps deleted during it.
AuthorsAreMembers ==
    \A i \in MessageId : messages[i] # NoMessage =>
        IsParticipant(messages[i].chat, messages[i].sender)

\* "Abrir (o recuperar) el chat de un match": whoever opens the chat of a match
\* and is given one is given the same one, and no other match shares it.
OpenIsStable ==
    \A p, q \in opened : p.match = q.match <=> p.chat = q.chat

\* A message is announced to one user, who is the other one of the chat and
\* never its author; only a message sent over the socket reaches the room.
EventsToRecipient ==
    \A e \in events : messages[e.msg] # NoMessage =>
        IF e.kind = "new_message"
        THEN messages[e.msg].via = "socket"
        ELSE /\ e.to # messages[e.msg].sender
             /\ e.to \in users => IsParticipant(messages[e.msg].chat, e.to)
             /\ \A f \in events :
                  f.msg = e.msg /\ f.kind = e.kind => f.to = e.to

\* A call that is about to write or to announce was let in by the check, and
\* what the check saw stays true until the account of the sender is deleted.
CheckOutlivesUpload ==
    \A r \in Request :
        (/\ req[r].pc \in {"upload", "write", "emit", "notify", "push"}
         /\ req[r].user \in users) => IsParticipant(req[r].chat, req[r].user)

\* "Abrir ... idempotente": an open of a match that exists is not refused.
OpenNeverFails ==
    [][\A r \in Request :
          (req[r].pc = "create" /\ req[r].match \in matches)
            => req'[r].reply # 500]_vars

Sent(kind, i) == \E e \in events : e.kind = kind /\ e.msg = i

\* No message is stored and then forgotten by its call: as long as it is there
\* and its author not alone in the chat, the room and the recipient's list have
\* heard of it if it came over the socket, and the recipient's push was handed
\* to FCM or given up by sendToUser.  The call may still be at it, or have
\* failed.  More the code does not promise: a message over REST whose push was
\* given up has told nobody.
MessageDelivered ==
    \A i \in MessageId : messages[i] # NoMessage =>
        \/ /\ messages[i].via = "socket" => Sent("new_message", i)
           /\ \/ Participants(messages[i].chat) = {messages[i].sender}
              \/ /\ messages[i].via = "socket" => Sent("chat_updated", i)
                 /\ Sent("push", i) \/ i \in silent
        \/ \E r \in Request : /\ req[r].msg = i
                              /\ req[r].pc \in {"emit", "notify", "push"}
        \/ i \in cutOff
=============================================================================
