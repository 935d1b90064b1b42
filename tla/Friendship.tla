----------------------------- MODULE Friendship -----------------------------
(***************************************************************************)
(* The handlers of src/friendships/friendships.service.ts that change      *)
(* state.  Each reads the row it is about, decides, and writes in a second *)
(* query without repeating what it checked: between the two any other      *)
(* request, and the delete of an account, may run.  A request slot holds   *)
(* one call from the guard to its answer, and then the notification it     *)
(* leaves running (void notify...), until that has been sent.              *)
(***************************************************************************)
EXTENDS Naturals

CONSTANTS User, Request,
          NoUser,             \* no user in this field of a slot
          NoRow,              \* no row under this id
          MaxRows             \* bound on the friendships ever created

ASSUME MaxRowsNat == MaxRows \in Nat
ASSUME NoUserApart == NoUser \notin User

Id == 1 .. MaxRows

FriendshipStatus == {"PENDING", "ACCEPTED", "BLOCKED"}

Row == [initiatorId : User, receiverId : User, status : FriendshipStatus]

ASSUME NoRowApart == NoRow \notin Row

VARIABLES users,              \* ids in table users
          friendships,        \* table friendships: id -> row or NoRow
          created,            \* ids handed out so far; cuids are never reused
          req,                \* the requests, slot by slot
          pushes,             \* push notifications sent: [kind, row, to]
          crossed             \* history: rows of the table inserted while a
                              \* request of the other user, which had found
                              \* nothing, had still its own to insert

vars == <<users, friendships, created, req, pushes, crossed>>

Op == {"request", "accept", "block", "remove"}

Slot == [pc : {"idle", "find", "write", "notify"}, op : Op,
         user : User \cup {NoUser}, peer : User \cup {NoUser},
         row : Id \cup {0}]

Idle == [pc |-> "idle", op |-> "request", user |-> NoUser, peer |-> NoUser,
         row |-> 0]

Exists(f) == friendships[f] # NoRow

Ends(f) == {friendships[f].initiatorId, friendships[f].receiverId}

\* @@unique([initiatorId, receiverId]) of friendships.
DirectionTaken(u, t) ==
    \E f \in Id : /\ Exists(f)
                  /\ friendships[f].initiatorId = u
                  /\ friendships[f].receiverId = t

-----------------------------------------------------------------------------
Init ==
    /\ users = User
    /\ friendships = [f \in Id |-> NoRow]
    /\ created = 0
    /\ req = [r \in Request |-> Idle]
    /\ pushes = {}
    /\ crossed = {}

\* The status of an answer is for the client; no later call depends on it.
Answer(r, status) == req' = [req EXCEPT ![r] = Idle]

\* The write is done; the row is all the notification needs to know.
Notifying(r, f, to) ==
    req' = [req EXCEPT ![r] = [pc |-> "notify", op |-> req[r].op,
                  user |-> req[r].user, peer |-> to, row |-> f]]

\* POST /friendships/request.  Only the request to oneself is refused before
\* the first query.
ReceiveRequest(r, u, t) ==
    /\ req[r].pc = "idle"
    /\ IF u \notin users THEN Answer(r, 401)
       ELSE IF u = t     THEN Answer(r, 400)
       ELSE req' = [req EXCEPT ![r] = [pc |-> "find", op |-> "request",
                      user |-> u, peer |-> t, row |-> 0]]
    /\ UNCHANGED <<users, friendships, created, pushes, crossed>>

\* PATCH /friendships/:id/accept, PATCH /friendships/:id/block and
\* DELETE /friendships/:id, for any id.
ReceiveChange(r, op, u, f) ==
    /\ req[r].pc = "idle"
    /\ IF u \notin users THEN Answer(r, 401)
       ELSE req' = [req EXCEPT ![r] = [pc |-> "find", op |-> op,
                      user |-> u, peer |-> NoUser, row |-> f]]
    /\ UNCHANGED <<users, friendships, created, pushes, crossed>>

\* Fault: only the direction of the request is looked at.
FindOneDirection(r) ==
    /\ req[r].pc = "find" /\ req[r].op = "request"
    /\ IF DirectionTaken(req[r].user, req[r].peer)
       THEN Answer(r, 409)
       ELSE req' = [req EXCEPT ![r].pc = "write"]
    /\ UNCHANGED <<users, friendships, created, pushes, crossed>>

\* Fault: only the other direction is looked at.
FindOtherDirection(r) ==
    /\ req[r].pc = "find" /\ req[r].op = "request"
    /\ IF DirectionTaken(req[r].peer, req[r].user)
       THEN Answer(r, 409)
       ELSE req' = [req EXCEPT ![r].pc = "write"]
    /\ UNCHANGED <<users, friendships, created, pushes, crossed>>

\* request: 409 if there is a row of the two in either direction.
FindPair(r) ==
    /\ req[r].pc = "find" /\ req[r].op = "request"
    /\ LET u == req[r].user
           t == req[r].peer
       IN  IF DirectionTaken(u, t) \/ DirectionTaken(t, u)
           THEN Answer(r, 409)
           ELSE req' = [req EXCEPT ![r].pc = "write"]
    /\ UNCHANGED <<users, friendships, created, pushes, crossed>>

\* Fault: either party may accept.
FindRowOfEither(r) ==
    /\ req[r].pc = "find" /\ req[r].op # "request"
    /\ LET f == req[r].row
       IN  IF ~Exists(f)                THEN Answer(r, 404)
           ELSE IF req[r].user \notin Ends(f) THEN Answer(r, 403)
           ELSE IF req[r].op = "accept" /\ friendships[f].status # "PENDING"
                                        THEN Answer(r, 400)
           ELSE req' = [req EXCEPT ![r].pc = "write"]
    /\ UNCHANGED <<users, friendships, created, pushes, crossed>>

\* Fault: the status is not looked at.
FindRowOfAnyStatus(r) ==
    /\ req[r].pc = "find" /\ req[r].op # "request"
    /\ LET f == req[r].row
           allowed == IF req[r].op = "accept"
                      THEN {friendships[f].receiverId} ELSE Ends(f)
       IN  IF ~Exists(f)                THEN Answer(r, 404)
           ELSE IF req[r].user \notin allowed THEN Answer(r, 403)
           ELSE req' = [req EXCEPT ![r].pc = "write"]
    /\ UNCHANGED <<users, friendships, created, pushes, crossed>>

\* accept, block, remove: 404, 403 and, to accept, 400 if not PENDING.
FindRow(r) ==
    /\ req[r].pc = "find" /\ req[r].op # "request"
    /\ LET f == req[r].row
           u == req[r].user
           allowed == IF req[r].op = "accept"
                      THEN {friendships[f].receiverId} ELSE Ends(f)
       IN  IF ~Exists(f)         THEN Answer(r, 404)
           ELSE IF u \notin allowed THEN Answer(r, 403)
           ELSE IF req[r].op = "accept" /\ friendships[f].status # "PENDING"
                                 THEN Answer(r, 400)
           ELSE req' = [req EXCEPT ![r].pc = "write"]
    /\ UNCHANGED <<users, friendships, created, pushes, crossed>>

\* The request of the other user has found nothing and is at its insert too.
Crossing(r) ==
    \E q \in Request :
        /\ req[q].pc = "write" /\ req[q].op = "request"
        /\ req[q].user = req[r].peer /\ req[q].peer = req[r].user

\* request: the insert; its key and its foreign keys may refuse it (500).
CreateRow(r) ==
    /\ req[r].pc = "write" /\ req[r].op = "request"
    /\ LET u == req[r].user
           t == req[r].peer
           f == created + 1
       IN  IF DirectionTaken(u, t) \/ ~({u, t} \subseteq users)
           THEN Answer(r, 500) /\ UNCHANGED <<friendships, created, crossed>>
           ELSE /\ f \in Id
                /\ friendships' = [friendships EXCEPT ![f] =
                     [initiatorId |-> u, receiverId |-> t, status |-> "PENDING"]]
                /\ created' = f
                /\ crossed' = IF Crossing(r) THEN crossed \cup {f} ELSE crossed
                /\ Notifying(r, f, t)
    /\ UNCHANGED <<users, pushes>>

\* Fault: the acceptance is told to the one who accepted.
UpdateRowTellSelf(r) ==
    /\ req[r].pc = "write" /\ req[r].op \in {"accept", "block"}
    /\ LET f == req[r].row
           new == IF req[r].op = "accept" THEN "ACCEPTED" ELSE "BLOCKED"
       IN  IF ~Exists(f)
           THEN Answer(r, 500) /\ UNCHANGED friendships
           ELSE /\ friendships' = [friendships EXCEPT ![f].status = new]
                /\ IF req[r].op = "accept"
                   THEN Notifying(r, f, req[r].user)
                   ELSE Answer(r, 200)
    /\ UNCHANGED <<users, created, pushes, crossed>>

\* accept, block: the update by id, whatever the row has become; a row that
\* is gone is an unhandled Prisma error (500).
UpdateRow(r) ==
    /\ req[r].pc = "write" /\ req[r].op \in {"accept", "block"}
    /\ LET f == req[r].row
           new == IF req[r].op = "accept" THEN "ACCEPTED" ELSE "BLOCKED"
       IN  IF ~Exists(f)
           THEN Answer(r, 500) /\ UNCHANGED friendships
           ELSE /\ friendships' = [friendships EXCEPT ![f].status = new]
                /\ IF req[r].op = "accept"
                   THEN Notifying(r, f, friendships[f].initiatorId)
                   ELSE Answer(r, 200)
    /\ UNCHANGED <<users, created, pushes, crossed>>

\* remove: the delete by id.
DeleteRow(r) ==
    /\ req[r].pc = "write" /\ req[r].op = "remove"
    /\ IF Exists(req[r].row)
       THEN /\ friendships' = [friendships EXCEPT ![req[r].row] = NoRow]
            /\ crossed' = crossed \ {req[r].row}
            /\ Answer(r, 204)
       ELSE Answer(r, 500) /\ UNCHANGED <<friendships, crossed>>
    /\ UNCHANGED <<users, created, pushes>>

\* notifyFriendRequest, notifyFriendAccepted: to the receiver of a request,
\* to the initiator of an accepted one.  That sendToUser sends nothing, because
\* there is no device or FCM refuses, is a Fail here: no one waits for it.
Notify(r) ==
    /\ req[r].pc = "notify"
    /\ pushes' = pushes \cup
         {[kind |-> req[r].op, row |-> req[r].row, to |-> req[r].peer]}
    /\ Answer(r, IF req[r].op = "request" THEN 201 ELSE 200)
    /\ UNCHANGED <<users, friendships, created, crossed>>

\* Fault: the requests received are left behind.
DeleteOwnRows(u) ==
    /\ u \in users
    /\ users' = users \ {u}
    /\ friendships' = [f \in Id |-> IF Exists(f) /\ u = friendships[f].initiatorId
                                    THEN NoRow ELSE friendships[f]]
    /\ crossed' = {f \in crossed : friendships'[f] # NoRow}
    /\ UNCHANGED <<created, req, pushes>>

\* The delete of a user takes the rows of both directions along.
DeleteAccount(u) ==
    /\ u \in users
    /\ users' = users \ {u}
    /\ friendships' = [f \in Id |-> IF Exists(f) /\ u \in Ends(f)
                                    THEN NoRow ELSE friendships[f]]
    /\ crossed' = {f \in crossed : friendships'[f] # NoRow}
    /\ UNCHANGED <<created, req, pushes>>

\* The database fails or the process stops: the call ends without its writes
\* to come, and nothing is sent in their place.
Fail(r) ==
    /\ req[r].pc # "idle"
    /\ Answer(r, 0)
    /\ UNCHANGED <<users, friendships, created, pushes, crossed>>

Serve(r) == \/ FindPair(r)
            \/ FindRow(r)
            \/ CreateRow(r)
            \/ UpdateRow(r)
            \/ DeleteRow(r)
            \/ Notify(r)

Next ==
    \/ \E r \in Request, u, t \in User : ReceiveRequest(r, u, t)
    \/ \E r \in Request, op \in Op \ {"request"}, u \in User, f \in Id :
         ReceiveChange(r, op, u, f)
    \/ \E r \in Request : Serve(r) \/ Fail(r)
    \/ \E u \in User : DeleteAccount(u)

Spec == Init /\ [][Next]_vars

-----------------------------------------------------------------------------
\* Rows have ids that were handed out and parties that exist and differ; slots
\* hold a call of the right shape.
TypeOK ==
    /\ users \subseteq User
    /\ friendships \in [Id -> Row \cup {NoRow}]
    /\ created \in 0 .. MaxRows
    /\ \A f \in Id : Exists(f) => /\ f <= created
                                  /\ Ends(f) \subseteq users
                                  /\ friendships[f].initiatorId
                                       # friendships[f].receiverId
    /\ req \in [Request -> Slot]
    /\ pushes \subseteq [kind : {"request", "accept"}, row : Id, to : User]
    /\ crossed \subseteq Id

\* A row changes or goes only because one of its users leaves, or in the write
\* of a request by one of them - by the receiver if it becomes ACCEPTED: what
\* a request was allowed to do when it read the row it is still allowed to do
\* when it writes, whatever happened to ids and rows in between.
OnlyParties ==
    [][\A f \in Id : (Exists(f) /\ friendships'[f] # friendships[f]) =>
          \/ ~(Ends(f) \subseteq users')
          \/ \E r \in Request :
               /\ req[r].pc = "write" /\ req'[r].pc # "write"
               /\ req[r].row = f
               /\ req[r].user \in Ends(f)
               /\ (friendships'[f] # NoRow /\ friendships'[f].status = "ACCEPTED")
                    => req[r].user = friendships[f].receiverId]_vars

\* Two users have two rows only if they asked each other at the same time: one
\* row in each direction, the older one inserted while the call that found
\* nothing and inserted the other was in flight.  Whatever else overlaps,
\* neither a repeated request nor an answer to one makes a second row.
TwoRowsOnlyIfCrossed ==
    \A f, g \in Id :
        (Exists(f) /\ Exists(g) /\ f < g /\ Ends(f) = Ends(g)) =>
            /\ friendships[f].initiatorId = friendships[g].receiverId
            /\ f \in crossed

\* A notification outlives its call, but what it says is never wrong of a row
\* that is still there: an acceptance is told to the initiator, and the row is
\* no longer pending; a request is told to the receiver.
PushesTruthful ==
    \A p \in pushes : Exists(p.row) =>
        IF p.kind = "accept"
        THEN /\ p.to = friendships[p.row].initiatorId
             /\ friendships[p.row].status # "PENDING"
        ELSE p.to = friendships[p.row].receiverId

\* 'Friendship already exists between these users': two users share one row.
OneFriendshipPerPair ==
    \A f, g \in Id : (Exists(f) /\ Exists(g) /\ Ends(f) = Ends(g)) => f = g

\* 'Friendship is not in PENDING status': only a pending row is accepted.
AcceptOnlyPending ==
    [][\A f \in Id :
          (/\ Exists(f) /\ friendships'[f] # NoRow
           /\ friendships'[f].status = "ACCEPTED"
           /\ friendships'[f] # friendships[f])
             => friendships[f].status = "PENDING"]_vars

\* A database error that nobody handles (500) takes a second actor: while all
\* accounts exist, the write of a call made alone finds its row, or the
\* direction it asks for still free.
ErrorsNeedDeparture ==
    users = User =>
        \A r \in Request : req[r].pc = "write" =>
            IF req[r].op = "request"
            THEN ~DirectionTaken(req[r].user, req[r].peer)
            ELSE Exists(req[r].row)

-----------------------------------------------------------------------------
\* The rows without their ids.
Graph == INSTANCE FriendGraph
             WITH ties <- {friendships[f] : f \in {g \in Id : Exists(g)}}

\* Calls that do not overlap see one atomic operation each.
RefinesFriendGraph == Graph!Spec
=============================================================================
