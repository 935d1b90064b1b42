------------------------------ MODULE Gateway ------------------------------
(***************************************************************************)
(* The sockets of ChatGateway and the room of one chat: join_chat,         *)
(* leave_chat and send_message, and the messages of the chat, which also   *)
(* come over REST and with images.  The handlers of one socket run         *)
(* concurrently: each starts with a query, and neither acknowledges.       *)
(* A message is emitted after its commit, to whoever is in the room then.  *)
(* What follows the emission (notifyRecipient) is in Chat.                 *)
(* A client that connects again has another socket.                        *)
(***************************************************************************)
EXTENDS Naturals

CONSTANTS User, Socket, Request,
          Owner,              \* the user in the token of a socket
          Client,             \* sockets that come, go, join and leave; the
                              \* others are connected and send
          NoUser, NoSocket, NoMessage,
          MaxMessages,        \* bound on the messages ever written
          MaxTime             \* number of different times of messages

ASSUME OwnerType == Owner \in [Socket -> User] /\ Client \subseteq Socket
ASSUME BoundsNat == MaxMessages \in Nat /\ MaxTime \in Nat
ASSUME NullsApart == NoUser \notin User /\ NoSocket \notin Socket

VARIABLES users,              \* ids in table users
          participants,       \* users in chat_participants of the chat
          messages,           \* messages of the chat: id -> row, or NoMessage
          made,               \* message ids handed out
          sockets,            \* state of each socket
          room,               \* sockets in the room of the chat
          req,                \* the handlers in flight, slot by slot
          heard,              \* new_message events a socket in the room got
          asked,              \* history: where a socket asked to be, if clear
          unsaid              \* history: messages that nobody will emit: not
                              \* sent over a socket, or cut off by a failure

vars == <<users, participants, messages, made, sockets, room, req,
          heard, asked, unsaid>>

MessageId == 1 .. MaxMessages
Time == 1 .. MaxTime

Message == [sender : User, createdAt : Time]

Stored == {i \in MessageId : messages[i] # NoMessage}

Op == {"join", "leave", "send"}

Slot == [pc : {"idle", "lookup", "move", "write", "emit"},
         op : Op, socket : Socket \cup {NoSocket}, user : User \cup {NoUser},
         msg : MessageId \cup {0}]

Idle == [pc |-> "idle", op |-> "send", socket |-> NoSocket, user |-> NoUser,
         msg |-> 0]

\* The join and leave handlers of socket s in flight.
Commands(s) == {r \in Request : req[r].socket = s /\ req[r].op # "send"}

-----------------------------------------------------------------------------
Init ==
    /\ users = User
    /\ \E u, t \in User : u # t /\ participants = {u, t}
    /\ messages = [i \in MessageId |-> NoMessage]
    /\ made = 0
    /\ sockets = [s \in Socket |-> IF s \in Client THEN "new" ELSE "open"]
    /\ room = {}
    /\ req = [r \in Request |-> Idle]
    /\ heard = [s \in Socket |-> {}]
    /\ asked = [s \in Socket |-> "leave"]
    /\ unsaid = {}

Goto(r, step) == req' = [req EXCEPT ![r].pc = step]

Done(r) == req' = [req EXCEPT ![r] = Idle]

\* handleConnection with a valid token.  The token is verified, the user is not
\* looked up: he may be gone.  (His personal room is his open sockets.)
Connect(s) ==
    /\ sockets[s] = "new"
    /\ sockets' = [sockets EXCEPT ![s] = "open"]
    /\ UNCHANGED <<users, participants, messages, made, room, req,
                   heard, asked, unsaid>>

\* Socket.io takes a socket that closes out of its rooms.
Disconnect(s) ==
    /\ sockets[s] = "open"
    /\ sockets' = [sockets EXCEPT ![s] = "closed"]
    /\ room' = room \ {s}
    /\ heard' = [heard EXCEPT ![s] = {}]
    /\ asked' = [asked EXCEPT ![s] = "leave"]
    /\ UNCHANGED <<users, participants, messages, made, req, unsaid>>

\* join_chat or leave_chat.  Where the client asked to be is clear unless the
\* other command is still in flight.
ReceiveCommand(r, s, op) ==
    /\ req[r].pc = "idle" /\ sockets[s] = "open" /\ op # "send"
    /\ req' = [req EXCEPT ![r] =
                 [Idle EXCEPT !.pc = "lookup", !.op = op, !.socket = s,
                              !.user = Owner[s]]]
    /\ asked' = [asked EXCEPT ![s] =
                   IF Commands(s) = {} \/ @ = op THEN op ELSE "either"]
    /\ UNCHANGED <<users, participants, messages, made, sockets, room,
                   heard, unsaid>>

\* A message is asked for and let in, or refused, by the first query: it is one
\* step with the arrival, on which nothing depends.
Submit(r, s, u) ==
    /\ req[r].pc = "idle"
    /\ IF u \notin participants THEN Done(r)
       ELSE req' = [req EXCEPT ![r] =
                      [Idle EXCEPT !.pc = "write", !.socket = s, !.user = u]]
    /\ UNCHANGED <<users, participants, messages, made, sockets, room, heard,
                   asked, unsaid>>

\* send_message.
ReceiveMessage(r, s) == sockets[s] = "open" /\ Submit(r, s, Owner[s])

\* A message over REST or with an image.
ReceivePost(r, u) == Submit(r, NoSocket, u)

Admit(r, allowed) ==
    /\ req[r].pc = "lookup"
    /\ IF allowed THEN Goto(r, "move") ELSE Done(r)
    /\ UNCHANGED <<users, participants, messages, made, sockets, room, heard,
                   asked, unsaid>>

\* Fault: a socket may join whatever it names.
FindAnyParticipant(r) == Admit(r, TRUE)

\* The lookup both commands begin with; 'Access denied'.
FindParticipant(r) == Admit(r, req[r].user \in participants)

Move(r, moved) ==
    /\ req[r].pc = "move"
    /\ room' = moved
    /\ heard' = [s \in Socket |-> {i \in heard[s] : s \in moved}]
    /\ Done(r)
    /\ UNCHANGED <<users, participants, messages, made, sockets, asked,
                   unsaid>>

\* Fault: the handler leaves the personal room.
MoveIntoOnly(r) ==
    Move(r, room \cup {s \in {req[r].socket} :
                         req[r].op = "join" /\ sockets[s] = "open"})

\* socket.join, which does nothing on a socket that has closed, or socket.leave.
MoveSocket(r) ==
    Move(r, IF req[r].op = "leave" THEN room \ {req[r].socket}
            ELSE room \cup {s \in {req[r].socket} : sockets[s] = "open"})

\* The transaction, which a sender who is gone violates.  createdAt is taken from
\* a clock of its own before the commit: messages that are committed in one
\* order may be stamped in another, or alike.
CreateMessage(r) ==
    /\ req[r].pc = "write"
    /\ IF req[r].user \notin users
       THEN Done(r) /\ UNCHANGED <<messages, made, unsaid>>
       ELSE /\ made + 1 \in MessageId
            /\ made' = made + 1
            /\ \E t \in Time :
                 messages' = [messages EXCEPT ![made'] =
                     [sender |-> req[r].user, createdAt |-> t]]
            /\ IF req[r].socket = NoSocket
               THEN Done(r) /\ unsaid' = unsaid \cup {made'}
               ELSE /\ req' = [req EXCEPT ![r].pc = "emit", ![r].msg = made']
                    /\ UNCHANGED unsaid
    /\ UNCHANGED <<users, participants, sockets, room, heard, asked>>

Emit(r, to) ==
    /\ req[r].pc = "emit"
    /\ heard' = [s \in Socket |->
                   heard[s] \cup {i \in {req[r].msg} : s \in to}]
    /\ Done(r)
    /\ UNCHANGED <<users, participants, messages, made, sockets, room,
                   asked, unsaid>>

\* Fault: socket.to, which leaves the sending socket out.
EmitToOthers(r) == Emit(r, room \ {req[r].socket})

\* server.to(chatId).emit, also to the socket that sent.
EmitMessage(r) == Emit(r, room)

\* A query fails or the process stops.
Fail(r) ==
    /\ req[r].pc # "idle"
    /\ unsaid' = unsaid \cup ({req[r].msg} \ {0})
    /\ asked' = IF req[r].op = "send" \/ sockets[req[r].socket] # "open"
                THEN asked
                ELSE [asked EXCEPT ![req[r].socket] = "either"]
    /\ Done(r)
    /\ UNCHANGED <<users, participants, messages, made, sockets, room,
                   heard>>

\* Fault: the messages of a deleted user stay.
DeleteKeepingMessages(u) ==
    /\ u \in participants
    /\ users' = users \ {u}
    /\ participants' = participants \ {u}
    /\ UNCHANGED <<messages, made, sockets, room, req, heard, asked,
                   unsaid>>

\* The cascade: participations and messages go, the sockets stay.  (Nobody else
\* has anything here.)
DeleteAccount(u) ==
    /\ u \in participants
    /\ users' = users \ {u}
    /\ participants' = participants \ {u}
    /\ messages' = [i \in MessageId |->
                      IF i \in Stored /\ messages[i].sender = u
                      THEN NoMessage ELSE messages[i]]
    /\ unsaid' = {i \in unsaid : messages'[i] # NoMessage}
    /\ UNCHANGED <<made, sockets, room, req, heard, asked>>

Serve(r) == \/ FindParticipant(r)
            \/ MoveSocket(r)
            \/ CreateMessage(r)
            \/ EmitMessage(r)

Next == \/ \E s \in Client : Connect(s) \/ Disconnect(s)
        \/ \E r \in Request, s \in Client, op \in Op : ReceiveCommand(r, s, op)
        \/ \E r \in Request, s \in Socket : ReceiveMessage(r, s)
        \/ \E r \in Request, u \in User : ReceivePost(r, u)
        \/ \E r \in Request : Serve(r) \/ Fail(r)
        \/ \E u \in User : DeleteAccount(u)

Spec == Init /\ [][Next]_vars

-----------------------------------------------------------------------------
\* Rooms, rows and slots hold values of their types; rows refer to users who
\* exist, and only open sockets are in the room.
TypeOK ==
    /\ users \subseteq User
    /\ participants \subseteq users
    /\ made \in 0 .. MaxMessages
    /\ messages \in [MessageId -> Message \cup {NoMessage}]
    /\ \A i \in Stored : i <= made /\ messages[i].sender \in users
    /\ sockets \in [Socket -> {"new", "open", "closed"}]
    /\ room \subseteq {s \in Socket : sockets[s] = "open"}
    /\ req \in [Request -> Slot]
    /\ heard \in [Socket -> SUBSET MessageId]
    /\ asked \in [Socket -> {"join", "leave", "either"}]
    /\ unsaid \subseteq MessageId

\* 'Access denied': the lookup before socket.join is all that keeps others out
\* of the room.  Whoever is in it is a participant still, or his account was
\* deleted after he was let in.
RoomOfMembers ==
    \A s \in room : Owner[s] \in users => Owner[s] \in participants

\* Join and leave each wait for a query and may overtake each other.  Once the
\* commands of a client are through, and no join was in flight together with a
\* leave, it is where it asked to be, for as long as its account and its
\* connection last.
RoomAsAsked ==
    \A s \in Socket :
        (/\ sockets[s] = "open" /\ Owner[s] \in users
         /\ Commands(s) = {} /\ asked[s] # "either")
          => (s \in room <=> asked[s] = "join" /\ Owner[s] \in participants)
=============================================================================
