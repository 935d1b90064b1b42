------------------------------ MODULE History ------------------------------
(***************************************************************************)
(* GET /chat/:chatId/messages (ChatService.getMessages) beside the gateway: *)
(* a client asks for page after page, from the newest message back, while  *)
(* messages are written, emitted and deleted.  A page ends with a cursor,  *)
(* the id of its last message, whose createdAt bounds the next page.       *)
(***************************************************************************)
EXTENDS Gateway, FiniteSets

CONSTANTS Limit               \* messages of a page, 1 .. 100 in the code

ASSUME LimitType == Limit \in Nat \ {0}

VARIABLE reader               \* the paging of each client, by its socket

historyVars == <<vars, reader>>

\* given and live are history: the messages of all pages, and whether the
\* socket has been in the room since the first query for messages, at which
\* present were stored.
Paging == [pc : {"idle", "cursor", "find", "end"},
           cursor : MessageId \cup {0}, before : Time \cup {MaxTime + 1},
           given : SUBSET [msg : MessageId, createdAt : Time],
           begun : BOOLEAN, live : BOOLEAN, present : SUBSET MessageId]

NotBegun == [pc |-> "idle", cursor |-> 0, before |-> MaxTime + 1, given |-> {},
             begun |-> FALSE, live |-> FALSE, present |-> {}]

\* orderBy createdAt desc, take n, of messages M: which of those with equal
\* times come first is not said.
Newest(n, M) ==
    {P \in SUBSET M :
        /\ Cardinality(P) = IF Cardinality(M) < n THEN Cardinality(M) ELSE n
        /\ \A i \in P, j \in M \ P :
             messages[i].createdAt >= messages[j].createdAt}

HistoryInit == Init /\ reader = [s \in Client |-> NotBegun]

\* The guard and assertParticipant; a call they refuse changes nothing.
AskPage(s) ==
    /\ reader[s].pc = "idle"
    /\ Owner[s] \in participants
    /\ reader' = [reader EXCEPT ![s].pc =
                    IF reader[s].cursor = 0 THEN "find" ELSE "cursor"]
    /\ UNCHANGED vars

\* The message of the cursor; if it is gone there is no bound.
FindCursor(s) ==
    /\ reader[s].pc = "cursor"
    /\ reader' = [reader EXCEPT
                    ![s].pc = "find",
                    ![s].before = IF reader[s].cursor \in Stored
                                  THEN messages[reader[s].cursor].createdAt
                                  ELSE MaxTime + 1]
    /\ UNCHANGED vars

\* The page answers data, and the cursor last or none.
AnswerPage(s, data, last) ==
    reader' = [reader EXCEPT ![s] =
        [pc |-> IF last = 0 THEN "end" ELSE "idle",
         cursor |-> last,
         before |-> MaxTime + 1,
         given |-> reader[s].given \cup
             {[msg |-> i, createdAt |-> messages[i].createdAt] : i \in data},
         begun |-> TRUE,
         live |-> IF reader[s].begun THEN reader[s].live ELSE s \in room,
         present |-> IF reader[s].begun THEN reader[s].present ELSE Stored]]

Older(s) == {i \in Stored : messages[i].createdAt < reader[s].before}

LastOf(data) == {i \in data : \A j \in data :
                    messages[i].createdAt <= messages[j].createdAt}

\* Fault: the cursor is the message that was fetched to see if there are more.
FindPageSkipping(s) ==
    /\ reader[s].pc = "find"
    /\ \E found \in Newest(Limit + 1, Older(s)) :
       \E data \in Newest(Limit, found) :
         IF data = found THEN AnswerPage(s, data, 0)
         ELSE \E last \in found \ data : AnswerPage(s, data, last)
    /\ UNCHANGED vars

\* One message more than the page holds is fetched; if it is there, the page
\* has a cursor.
FindPage(s) ==
    /\ reader[s].pc = "find"
    /\ \E found \in Newest(Limit + 1, Older(s)) :
       \E data \in Newest(Limit, found) :
         IF data = found THEN AnswerPage(s, data, 0)
         ELSE \E last \in LastOf(data) : AnswerPage(s, data, last)
    /\ UNCHANGED vars

\* A step of the gateway; who leaves the room is no longer live.
GatewayStep ==
    /\ Next
    /\ reader' = [s \in Client |->
                    [reader[s] EXCEPT !.live = @ /\ s \in room']]

HistoryNext == \/ GatewayStep
               \/ \E s \in Client : AskPage(s) \/ FindCursor(s) \/ FindPage(s)

HistorySpec == HistoryInit /\ [][HistoryNext]_historyVars

-----------------------------------------------------------------------------
\* The clients hold values of their types, and the rest is as in Gateway.
HistoryTypeOK == TypeOK /\ reader \in [Client -> Paging]

\* A page may skip messages of one time, which the bound of the next excludes.
Given(s, i) ==
    \E g \in reader[s].given :
        g.msg = i \/ g.createdAt = messages[i].createdAt

\* "paginacion cursor-based": who follows the cursors to the end is given every
\* message that was there when he began, whatever is written or deleted between
\* two pages - the message of the cursor included - except one that shares its
\* createdAt with a given one.
HistoryComplete ==
    \A s \in Client : reader[s].pc = "end" =>
        \A i \in reader[s].present \cap Stored : Given(s, i)

\* A client that is in the room before it asks for the first page, and stays,
\* misses no message sent over the socket: the pages gave it, or the room, or
\* its handler is about to emit it, or was cut off before.
NothingMissed ==
    \A s \in Client : (reader[s].pc = "end" /\ reader[s].live) =>
        \A i \in Stored \ unsaid :
            \/ Given(s, i)
            \/ i \in heard[s]
            \/ \E r \in Request : req[r].msg = i
=============================================================================
