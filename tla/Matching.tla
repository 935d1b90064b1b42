------------------------------ MODULE Matching ------------------------------
(***************************************************************************)
(* The swipe handler of src/matches/matches.service.ts as it runs on       *)
(* Postgres: every await is a point where any other request, on this       *)
(* instance of the server or on another, may take its steps.  A request    *)
(* slot holds one POST /matches/swipe from the guard that admits it to     *)
(* its answer, and is then free for the next one.  DeleteAccount is        *)
(* DELETE /users/me with the cascades of schema.prisma.  Fail is an error  *)
(* of the database or a crash of the process while a request is in flight: *)
(* nothing the handler did before is undone, there being no transaction.   *)
(***************************************************************************)
EXTENDS Naturals, FiniteSets

CONSTANTS User,               \* user ids (numbers: the handler sorts ids)
          Request,            \* slots for concurrent swipe requests
          NoUser,             \* fills the fields of a slot not yet used
          MaxFailures         \* bound on the requests that fail

ASSUME UserOrdered == User \subseteq Nat
ASSUME NoUserApart == NoUser \notin User
ASSUME MaxFailuresNat == MaxFailures \in Nat

VARIABLES users,              \* ids in table users
          swipes,             \* rows of swipe_records
          matches,            \* rows of matches
          req,                \* the requests, slot by slot
          newMatch,           \* new_match events emitted: to whom, about whom
          failures,           \* requests that failed so far
          dropped             \* history: pair and step of each failed request

vars == <<users, swipes, matches, req, newMatch, failures, dropped>>

Action == {"LIKE", "PASS"}

\* The awaits of swipe, each named for the step that is still to be taken.
Step == {"existing", "insert", "reverse", "pair", "notify", "push"}

Status == {0, 201, 400, 401, 409, 500}

Swipe == [userId : User, targetId : User, action : Action]

Match == [user1Id : User, user2Id : User]

Slot == [pc : Step \cup {"idle"}, user : User \cup {NoUser},
         target : User \cup {NoUser}, action : Action, status : Status]

SwipeRow(u, t, a) == [userId |-> u, targetId |-> t, action |-> a]

\* [userId, dto.targetId].sort() as the columns of a match.
SortedPair(u, t) == IF u < t THEN [user1Id |-> u, user2Id |-> t]
                             ELSE [user1Id |-> t, user2Id |-> u]

\* @@unique([userId, targetId]) of swipe_records.
SwipeKeyTaken(u, t) == \E s \in swipes : s.userId = u /\ s.targetId = t

\* @@unique([user1Id, user2Id]) of matches.
MatchKeyTaken(m) == m \in matches

Parties(m) == {m.user1Id, m.user2Id}

Likes(u, t) == SwipeRow(u, t, "LIKE") \in swipes

MutualLike(u, t) == Likes(u, t) /\ Likes(t, u)

Matched(u, t) == SortedPair(u, t) \in matches

-----------------------------------------------------------------------------
Init ==
    /\ users = User
    /\ swipes = {}
    /\ matches = {}
    /\ req = [r \in Request |-> [pc |-> "idle", user |-> NoUser,
                target |-> NoUser, action |-> "PASS", status |-> 0]]
    /\ newMatch = [e \in User \X User |-> 0]
    /\ failures = 0
    /\ dropped = {}

Goto(r, step) == req' = [req EXCEPT ![r].pc = step]

Answer(r, code) == req' = [req EXCEPT ![r].pc = "idle", ![r].status = code]

\* A request arrives.  The guard refuses a user who is gone, the handler one
\* who swipes on himself; the target is any id the client sends.
Receive(r, u, t, a) ==
    /\ req[r].pc = "idle"
    /\ LET refusal == IF u \notin users THEN 401 ELSE 400
           refused == u \notin users \/ u = t
       IN  req' = [req EXCEPT ![r] =
                     [pc     |-> IF refused THEN "idle" ELSE "existing",
                      user   |-> u, target |-> t, action |-> a,
                      status |-> IF refused THEN refusal ELSE 0]]
    /\ UNCHANGED <<users, swipes, matches, newMatch, failures, dropped>>

\* 409 when the user has decided about the target before.
FindExisting(r) ==
    /\ req[r].pc = "existing"
    /\ IF SwipeKeyTaken(req[r].user, req[r].target)
       THEN Answer(r, 409)
       ELSE Goto(r, "insert")
    /\ UNCHANGED <<users, swipes, matches, newMatch, failures, dropped>>

\* Fault: an upsert instead of the insert.
UpsertSwipe(r) ==
    /\ req[r].pc = "insert"
    /\ LET u == req[r].user
           t == req[r].target
       IN  IF ~({u, t} \subseteq users)
           THEN Answer(r, 500) /\ UNCHANGED swipes
           ELSE /\ swipes' = {s \in swipes : ~(s.userId = u /\ s.targetId = t)}
                                \cup {SwipeRow(u, t, req[r].action)}
                /\ IF req[r].action = "LIKE" THEN Goto(r, "reverse")
                                             ELSE Answer(r, 201)
    /\ UNCHANGED <<users, matches, newMatch, failures, dropped>>

\* The insert of the swipe.  A violation of its key or of its foreign keys is
\* an unhandled Prisma error, which the filter turns into a 500.
CreateSwipe(r) ==
    /\ req[r].pc = "insert"
    /\ LET u == req[r].user
           t == req[r].target
       IN  IF SwipeKeyTaken(u, t) \/ ~({u, t} \subseteq users)
           THEN Answer(r, 500) /\ UNCHANGED swipes
           ELSE /\ swipes' = swipes \cup {SwipeRow(u, t, req[r].action)}
                /\ IF req[r].action = "LIKE" THEN Goto(r, "reverse")
                                             ELSE Answer(r, 201)
    /\ UNCHANGED <<users, matches, newMatch, failures, dropped>>

\* Fault: only the request of the lower id makes the match, so that two of
\* them never meet at the insert.
FindMutualByLower(r) ==
    /\ req[r].pc = "reverse"
    /\ IF Likes(req[r].target, req[r].user) /\ req[r].user < req[r].target
       THEN Goto(r, "pair")
       ELSE Answer(r, 201)
    /\ UNCHANGED <<users, swipes, matches, newMatch, failures, dropped>>

\* Fault: any decision of the other user counts as a LIKE.
FindAnyReply(r) ==
    /\ req[r].pc = "reverse"
    /\ IF SwipeKeyTaken(req[r].target, req[r].user) THEN Goto(r, "pair")
                                                    ELSE Answer(r, 201)
    /\ UNCHANGED <<users, swipes, matches, newMatch, failures, dropped>>

\* The lookup of the LIKE in the other direction.
FindMutual(r) ==
    /\ req[r].pc = "reverse"
    /\ IF Likes(req[r].target, req[r].user) THEN Goto(r, "pair")
                                            ELSE Answer(r, 201)
    /\ UNCHANGED <<users, swipes, matches, newMatch, failures, dropped>>

\* Fault: a match that exists is taken for the one just created.
UpsertMatch(r) ==
    /\ req[r].pc = "pair"
    /\ LET m == SortedPair(req[r].user, req[r].target)
       IN  IF ~(Parties(m) \subseteq users)
           THEN Answer(r, 500) /\ UNCHANGED matches
           ELSE matches' = matches \cup {m} /\ Goto(r, "notify")
    /\ UNCHANGED <<users, swipes, newMatch, failures, dropped>>

\* The insert of the match.  Of two requests that got here for one pair the
\* second one violates the key of matches and answers 500.
CreateMatch(r) ==
    /\ req[r].pc = "pair"
    /\ LET m == SortedPair(req[r].user, req[r].target)
       IN  IF MatchKeyTaken(m) \/ ~(Parties(m) \subseteq users)
           THEN Answer(r, 500) /\ UNCHANGED matches
           ELSE matches' = matches \cup {m} /\ Goto(r, "notify")
    /\ UNCHANGED <<users, swipes, newMatch, failures, dropped>>

\* Fault: only the other user is told.
NotifyOther(r) ==
    /\ req[r].pc = "notify"
    /\ newMatch' = [newMatch EXCEPT ![<<req[r].target, req[r].user>>] = @ + 1]
    /\ Goto(r, "push")
    /\ UNCHANGED <<users, swipes, matches, failures, dropped>>

\* Both profiles are read, then new_match goes to the rooms of both users.
NotifyMatch(r) ==
    /\ req[r].pc = "notify"
    /\ LET u == req[r].user
           t == req[r].target
       IN  newMatch' = [newMatch EXCEPT ![<<u, t>>] = @ + 1,
                                        ![<<t, u>>] = @ + 1]
    /\ Goto(r, "push")
    /\ UNCHANGED <<users, swipes, matches, failures, dropped>>

\* The push notifications; an error of FCM is caught in sendToUser.
PushMatch(r) ==
    /\ req[r].pc = "push"
    /\ Answer(r, 201)
    /\ UNCHANGED <<users, swipes, matches, newMatch, failures, dropped>>

Fail(r) ==
    /\ req[r].pc # "idle"
    /\ failures < MaxFailures
    /\ failures' = failures + 1
    /\ dropped' = dropped \cup
                    {[pair |-> {req[r].user, req[r].target}, at |-> req[r].pc]}
    /\ Answer(r, 500)
    /\ UNCHANGED <<users, swipes, matches, newMatch>>

\* Fault: the swipes received are left behind.
DeleteOwnRows(u) ==
    /\ u \in users
    /\ users' = users \ {u}
    /\ swipes' = {s \in swipes : u # s.userId}
    /\ matches' = {m \in matches : u \notin Parties(m)}
    /\ UNCHANGED <<req, newMatch, failures, dropped>>

\* The delete of the user takes the rows that refer to him along.
DeleteAccount(u) ==
    /\ u \in users
    /\ users' = users \ {u}
    /\ swipes' = {s \in swipes : u \notin {s.userId, s.targetId}}
    /\ matches' = {m \in matches : u \notin Parties(m)}
    /\ UNCHANGED <<req, newMatch, failures, dropped>>

Serve(r) == \/ FindExisting(r)
            \/ CreateSwipe(r)
            \/ FindMutual(r)
            \/ CreateMatch(r)
            \/ NotifyMatch(r)
            \/ PushMatch(r)

Next ==
    \/ \E r \in Request, u, t \in User, a \in Action : Receive(r, u, t, a)
    \/ \E r \in Request : Serve(r) \/ Fail(r)
    \/ \E u \in User : DeleteAccount(u)

Spec == Init /\ [][Next]_vars

\* A handler that has been entered runs on: its awaits settle.  Nothing makes
\* a client send a request, a user leave or a request fail.
FairSpec == Spec /\ \A r \in Request : WF_vars(Serve(r))

-----------------------------------------------------------------------------
\* The tables, the slots and the history hold what their columns may hold.
\* The foreign keys of swipe_records are part of it, and nobody swipes on
\* himself.
TypeOK ==
    /\ users \subseteq User
    /\ swipes \subseteq Swipe
    /\ \A s \in swipes : /\ {s.userId, s.targetId} \subseteq users
                         /\ s.userId # s.targetId
    /\ matches \subseteq Match
    /\ req \in [Request -> Slot]
    /\ \A r \in Request :
         req[r].pc # "idle" => /\ {req[r].user, req[r].target} \subseteq User
                               /\ req[r].user # req[r].target
    /\ newMatch \in [User \X User -> Nat]
    /\ failures \in 0..MaxFailures
    /\ dropped \subseteq [pair : SUBSET User, at : Step]

\* Whatever requests interleave, a match joins two existing users who both
\* liked the other, and is stored under the sorted pair, so that its key
\* admits no second match of the two.
MatchSound ==
    \A m \in matches :
        /\ m.user1Id < m.user2Id
        /\ Parties(m) \subseteq users
        /\ MutualLike(m.user1Id, m.user2Id)

\* A request that is between its own LIKE and the insert of the match.
Pairing(r, u, t) ==
    /\ {req[r].user, req[r].target} = {u, t}
    /\ req[r].pc \in {"reverse", "pair"}

\* Two users like each other and have no match only while a request of one of
\* them is still to create it, or when that request failed there.  Two LIKEs
\* that cross never both miss the other: each is inserted before the other
\* direction is looked up.
NoMissedMatch ==
    \A u, t \in User :
        MutualLike(u, t) =>
            \/ Matched(u, t)
            \/ \E r \in Request : Pairing(r, u, t)
            \/ \E d \in dropped : d.pair = {u, t} /\ d.at \in {"reverse", "pair"}

\* Neither user hears of a match twice, though both requests may be at the
\* insert together: only the one that creates the row emits.
NewMatchOnce == \A e \in User \X User : newMatch[e] <= 1

\* Both users of a match have been sent new_match, unless the request that
\* created it is still to emit it or failed just before.
MatchAnnounced ==
    \A m \in matches :
        \/ /\ newMatch[<<m.user1Id, m.user2Id>>] >= 1
           /\ newMatch[<<m.user2Id, m.user1Id>>] >= 1
        \/ \E r \in Request : /\ {req[r].user, req[r].target} = Parties(m)
                              /\ req[r].pc = "notify"
        \/ [pair |-> Parties(m), at |-> "notify"] \in dropped

\* A swipe answered 201 is the decision that stands: no other request for the
\* same pair, sent at the same time, has replaced or contradicted it.
AcceptedDecisionStands ==
    \A r \in Request :
        (req[r].status = 201 /\ {req[r].user, req[r].target} \subseteq users)
            => \A a \in Action :
                 SwipeRow(req[r].user, req[r].target, a) \in swipes
                     <=> a = req[r].action

\* README of the backend, POST /matches/swipe: a Match is created when both
\* LIKE each other.  With no request in flight that reads as follows.
LikesAlwaysMatch ==
    (\A r \in Request : req[r].pc = "idle") =>
        \A u, t \in User : MutualLike(u, t) => Matched(u, t)

\* The promise, under fair scheduling: a mutual LIKE ends in a match unless one
\* of the two leaves, or the request that was to make the match fails before.
MutualLikesPair ==
    \A u, t \in User :
        MutualLike(u, t) ~>
            \/ Matched(u, t)
            \/ ~({u, t} \subseteq users)
            \/ \E d \in dropped : d.pair = {u, t} /\ d.at \in {"reverse", "pair"}

-----------------------------------------------------------------------------
\* A row of matches stands for the unordered pair of its users.
Abs == INSTANCE MutualMatch WITH matches <- {Parties(m) : m \in matches}

\* Every step of the handler is a step of MutualMatch or leaves the tables
\* alone, failures included.
RefinesMutualMatch == Abs!Spec
=============================================================================
