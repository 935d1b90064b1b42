# Vybe backend: a TLA+ model

This directory models the concurrent core of the Vybe backend (NestJS, Prisma,
PostgreSQL, Socket.io): swipes and matches, friendships, chats with their sockets,
rooms and pages, accounts with their sessions and mail codes, and the profile,
address and devices of a user. The modules are checked with TLC on small
instances; the theorems in the `*Proofs` modules are proved with TLAPS for every
value of the constants.

## 1. The system

The server is a set of stateless NestJS instances in front of one PostgreSQL
database; Socket.io rooms are shared through Redis. A handler is an async function
whose `await`s are database queries, bcrypt comparisons, uploads or mails. All
shared state is in the database. Two things make it hard:

- **Nothing is locked.** A handler reads, decides, and writes in a second
  statement, mostly by id and without repeating the check. Between two `await`s any
  other request runs, on this instance or another. What the schema guarantees
  (unique keys, foreign keys, cascades) is all the mutual exclusion there is; a
  key violation is an unhandled Prisma error, which `http-exception.filter.ts`
  answers with 500.
- **Nothing is undone.** Only `registerToken` and the three writes of a message use
  a transaction (message and time of the chat). A handler that dies between two
  statements leaves the first one in place. Notifications run after the answer
  (`void this.notify...`).

### Components, their state and their operations

| Component | State | Operations that change it | Interacts with |
|---|---|---|---|
| Auth (`auth.service.ts`) | password, refresh token, two codes with attempts, in `users` | register, login, refresh, logout, verify-email, resend-verification, forgot-password, reset-password | Mail |
| Users (`users.service.ts`) | `users`, `profiles` | createProfile, updateProfile, updateUser, changePassword, deleteAccount | every table, by cascade |
| Matches (`matches.service.ts`) | `swipe_records`, `matches` | swipe | gateway (`new_match`), notifications |
| Friendships (`friendships.service.ts`) | `friendships` | request, accept, block, remove | notifications |
| Chat (`chat.service.ts`) | `chats`, `chat_participants`, `messages` | openChat, sendMessage | reads `matches`; notifications |
| Gateway (`chat.gateway.ts`) | rooms of the sockets, `messages` | connect, join_chat, leave_chat, send_message, typing | the same tables; notifications |
| Files (`files.service.ts`) | `profiles.avatarUrl`, `messages` | avatar, image of a chat | Cloudinary; notifications |
| Notifications (`notifications.service.ts`) | `device_tokens` | registerToken, removeToken, sendToUser | FCM |
| Mail (`mail.service.ts`) | none | two mails | Brevo |
| Discovery, health, guards, filter, bootstrap | none | none (reads, wiring) | |

What makes each of them correct:

- *Matches*: a match has two mutual LIKEs behind it; a mutual LIKE is not missed,
  even if both users swipe at once; a swipe is decided once; both are told once.
- *Friendships*: one relation per pair; only the receiver accepts, only what is
  pending; a block stays.
- *Chat*: exactly the users of a match are in its chat; a match has one chat;
  messages are written by participants and reach the other one.
- *Gateway*: only participants are in the room of a chat; join and leave do what they
  say; who joins and then reads the history misses nothing.
- *Users, Files, Notifications*: an address, a profile and a device have one owner;
  a slow upload undoes nothing; notifications go to the device registered last.
- *Auth*: a session lives until logout or reset; a code works once, for 15 minutes
  and a limited number of attempts, for the account it was made for; the last mail
  sent holds the current code.

## 2. The modules

| Module | What it is |
|---|---|
| `MutualMatch` | abstract: atomic decisions and pairs; what POST /matches/swipe promises |
| `Matching` | the swipe handler, await by await; implements `MutualMatch` |
| `MatchingProofs` | theorems about `Matching` |
| `FriendGraph` | abstract: atomic request, accept, block, remove |
| `Friendship` | the friendship handlers; implement `FriendGraph` if calls do not overlap |
| `FriendshipProofs` | theorems about `Friendship` |
| `Chat` | opening a chat, and a message over REST, socket or image upload |
| `ChatProofs` | theorems about `Chat` |
| `Gateway` | sockets, the room of one chat, join, leave, send and emit |
| `GatewayProofs` | theorems about `Gateway` |
| `History` | extends `Gateway` by clients that page through the messages |
| `HistoryProofs` | theorems about `History`, on top of `GatewayProofs` |
| `Account` | the row of one e-mail address: sessions, codes, password |
| `AccountProofs` | theorems about `Account`, for calls that overlap and for calls that do not |
| `UserData` | address, profile, avatar and device tokens of users |
| `UserDataProofs` | theorems about `UserData` |
| `MCMatching`, `MCFriendship`, `MCChat`, `MCHistory`, `MCAccount`, `MCUserData` | model values and symmetry for TLC |

### Conventions

- A **request slot** (`req[r]`) is one HTTP call or socket event: `pc` names the await
  it is waiting for, the other fields are its local variables (the row ids and
  users it read). The step between two awaits is one action, named for the query
  it makes: `FindExisting`, `CreateSwipe`, `FindMutual`, ... A slot is free again
  after its answer. Two slots are two calls in flight; that they are on one
  instance or on two makes no difference.
- A **table** is a set of rows, or a function of ids where the id is what a client
  holds (`friendships`, `chats`, `messages`). Keys and foreign keys are guards of the
  insert whose violation answers 500; cascades are part of `DeleteAccount`.
- `DeleteAccount` is one step: the guard's lookup before it changes nothing. It
  belongs to no slot, as it leaves nothing in flight.
- `Fail` is a query that throws or a process that stops, at any await. Nothing
  done before is undone. In `Matching` at most `MaxFailures` times.
- A guard that only reads (`JwtStrategy.validate`) is in the first action of a call:
  `Receive...` for `Matching`, `Friendship` and `Chat`, and for `Account`, `UserData` and the
  messages of `Gateway` in the action of the first query, which commutes with the
  arrival of the call.
- The status of an answer is kept where a property uses it (`Matching`, `Chat`);
  elsewhere it is only the argument of `Answer`.
- Operators commented **Fault:** are variants with a plausible bug in them. No
  specification uses one; each is what a property must notice.

### How state and actions correspond to the code

*Matching.* `users`, `swipes`, `matches` are the tables. `Receive` (l. 29-32), `FindExisting`
(34-39), `CreateSwipe` (41-43), `FindMutual` (46-51), `CreateMatch` (52-55), `NotifyMatch`
(64-72), `PushMatch` (74-85) of `matches.service.ts`. `newMatch` counts the events.
`dropped` is history: which pair lost a request, and where. Ids are numbers because
the handler sorts them.

*Friendship.* `FindPair`/`CreateRow` are request (32-50), `FindRow` with `UpdateRow` or
`DeleteRow` is accept, block and remove (66-126). `Notify` is the call left running
with `void`. `crossed` is history: the rows inserted while a request of the other user, which
had found nothing either, had its own insert still to do.

*Chat.* `FindMatch`, `FindChat`, `CreateChat` are openChat (24-60). `CheckParticipant`,
`WriteMessage`, `NotifyRecipient` are the common skeleton of sendMessage, send_message
and uploadChatImage; the slot's `via` says which one runs. `EmitMessage` is the
gateway's alone, `Upload` the image's alone. `NotifyRecipient` is the query for the recipient
and the chat_updated it emits at once; `Push` is sendToUser (28-50 of
`notifications.service.ts`), which hands the push to FCM or silently does not, for want of
a device or because FCM refuses and the error is only logged. `MakeMatch` stands for `Matching`
(a match is known by its pair, which is its key). A socket's user is not looked up
again after connecting, so `ReceiveSend` does not ask that he exists. `opened`,
`cutOff` (messages whose call failed) and `silent` (messages whose push sendToUser gave up)
are history.

*Account.* One row, the account of one address, that is deleted and registered
again under a new id. `code` and `attempts` are indexed by kind (`verify`, `reset`) and
stand for verifyCode/verifyAttempts and resetCode/resetAttempts, whose handlers
differ only in what an accepted code does, which is `AcceptVerify` (168-178) and
`AcceptReset` (260-273). `expired` holds the kinds whose code is older than 15 minutes,
`lastMail` the code in the last mail that was sent, by kind. `Fail` at `mail` is a process that
stops between the update and the send, or a send that throws: no mail goes out, and
the code that is stored is `astray`; so is one that was stored while the mail of an older one was
still to go. `astray` is history. A
refresh token is known by the id in its `sub`: that a client presents the stored one,
or another one, is a choice of `CheckToken`. `late` (of a call in flight) and `outlived`
(of the stored token) are history: the logouts and resets since the call, or the
call that stored the token, was authorised. `issued` is history too: calls with an access
token come for accounts that were given one.

*Gateway.* One chat, whose two participants are any two users, so that a socket may be
an outsider's. `Connect` is handleConnection (31-50), `ReceiveCommand`, `FindParticipant` and
`MoveSocket` are join_chat and leave_chat (53-91), which are one handler twice;
`ReceiveMessage`, `CreateMessage`, `EmitMessage` are send_message (93-136). `ReceivePost` is a
message over REST or an image, which nobody emits. Personal rooms hold
the open sockets of a user, and notifyRecipient, which emits to them, is in `Chat`.
Two handlers of one socket run concurrently, and no command is acknowledged.
`heard` is what a socket got since it entered the room; `asked` is history, the last
command that came on a socket, or `"either"` if a join and a leave were in flight together
or one failed; `unsaid` is history, the messages that no handler will emit.

*History.* getMessages (101-128): `AskPage` is assertParticipant, `FindCursor` the
lookup of the cursor, `FindPage` the query with one message more than the page, and the
answer. createdAt is any of a few times: it is stamped by a clock of its own before
the commit, so that its order is not the order of the commits, and may repeat.

*UserData.* `FindAddress`/`UpdateUser` are updateUser (59-76); `FindProfile` with `CreateProfile`,
`UpdateProfile` or `Upload` and `UpdateProfile` are createProfile (40-47), updateProfile
(49-57) and uploadAvatar (27-41 of `files.service.ts`). `FindTokens`, `DeleteTokens`,
`CreateToken` are registerToken (16-22 of `notifications.service.ts`): the start of the
delete, which fixes the rows it will delete, the moment it has locked them all, and the
insert with the commit. removeToken is the first two. `BreakDeadlock` is PostgreSQL's
own. `written` and `device` are history: what the last write of each column said, and
the device registered last by a call that overlapped no other one of its user.

## 3. The runs

| Run | Instance | Shows |
|---|---|---|
| `matching` | 2 users, 2 slots, 1 failure, fair | type, soundness, no missed match, one `new_match`, decisions stand, refinement of `MutualMatch`, and that a mutual LIKE ends in a match |
| `matching_lost` (violation) | the same | README l. 64, "si ambos se dan LIKE se crea un Match automáticamente", fails after a failure between two inserts |
| `friendship_race` | 3 users, 2 slots, 2 rows | two rows of a pair come only from requests that crossed, truthful pushes, only parties change a row |
| `friendship_sequential` | 3 users, 1 slot, 2 rows | one row per pair, accept only what is pending, no 500 while all accounts exist, refinement of `FriendGraph` |
| `friendship_unblocked` (violation) | 3 users, 2 slots | an accept in flight overwrites a block |
| `chat` | 3 users, 2 slots, 2 chats, 1 message | members, authors, stable opens, events to the right user, no stored message forgotten by its call |
| `chat_open_race` (violation) | 2 users, 2 slots | README l. 77, "idempotente": the second of two opens answers 500 |
| `account_race` | 2 slots, 2 registrations, 2 codes, limit 1 | nothing of a deleted account reaches the next one; wrong answers and acceptances are bounded; the code an account waits for is the one mailed last, but for mails that failed or crossed |
| `history` | 3 users, 2 sockets, 2 slots, 2 messages of 2 times, pages of 1 | only participants in the room, join and leave do what they say, pages are complete, who joins and then reads misses nothing |
| `account_sequential` | 1 slot, 2 registrations, 3 codes, 2 passwords, limit 2 | a logout and a reset end the sessions, a change needs the current password |
| `account_reset` (violation) | 2 slots, 1 registration | `auth.service.spec.ts:334`, "invalidate sessions": a login in flight survives the reset |
| `user_data` | 2 users, 2 addresses, 3 devices, 2 slots | one holder of an address, a device, a profile; no column of a profile is undone; the last device holds; only others' tokens get in the way of a registration |

### Bounds, and why they are enough

Every race of this code is between two calls, or a call and a deleted account: each
handler makes at most one decision on data another one writes. Two slots give all
interleavings of two calls, and a slot is used again, so that sequences of calls are
not bounded. Two users are one pair, and `Matching` relates users only in pairs;
a third user in `Friendship` and `Chat` is the outsider who must be kept out.
Two chats or rows let one disappear and another one appear with the same users.
One message suffices for `Chat`, whose properties speak of one message (two are
related only by `EventsToRecipient`, event by event). `History` relates two messages (a
page border, and a tie across it) and needs no third: with pages of one message every
message but the last is at a border. One of its two sockets joins, leaves, disconnects and
reads (`Client`); the other one is connected throughout and sends: sockets only meet
in the set of those in the room. It is the instance that is bounded so, not the module.
`UserData` has a device more than users, so that a user can move on while
the others' are taken. `MaxAttempts` is 5 in the code,
1 or 2 in the runs: `AttemptsBounded` is stated in terms of it, and the smaller limit
reaches every phase (below, at and above) with the same slots. `MaxUncounted` bounds
the wrong answers whose count is lost, which the code does not bound.
Symmetry is used over slots, over users where they are not told apart (not in
`history`, where sockets have owners), over passwords, addresses, devices and names, and
never in the run with a liveness property.

No run turns deadlock detection off: clients can always send another call.

### Fairness

`Matching!FairSpec` has weak fairness for `Serve(r)`: a handler that has been entered
runs on, since its awaits settle, in a result or an error. Nothing is assumed of
clients, of deleted accounts or of failures. It is used by `MutualLikesPair` only.

## 4. The proofs

Assumptions: the named ASSUMEs of the modules (user ids are numbers in `Matching`,
null values differ from ids, bounds are natural numbers, a page holds at least one
message, a socket has an owner). Users, slots, sockets and bounds are arbitrary; the
sets may be infinite, but for the messages that are ever written and the slots of
`Account`, which `AttemptsBounded` counts (`RequestFinite`; a code has at least one attempt,
5 in the code: `BoundsNat`). Every safety property and every refinement that a passing run
checks is the statement of a theorem.

- **Matching.** `DataInv` is inductive: types, what a slot knows (the swipe it has
  inserted is still there while both users are: `SlotInv`), one decision per ordered
  pair, `MatchSound`. `MatchSound` alone is not inductive: at the insert of the match
  it needs that the LIKE of the slot and the LIKE it found are still in the table,
  which holds because swipes go only with their users. `NoMissedMatch` is proved on
  top of it: the step that makes a mutual LIKE is the insert by a slot, which is then
  at `reverse`, and from there on it leaves only by the match, by `Fail`, or because a
  match or a missing user refused the insert. `EventInv` counts events:
  none while the match is to come or to be told, one after. `ImplementsMutualMatch`
  maps a row to the pair of its users; `CreateSwipe` is `Decide`, `CreateMatch` is `Pair`,
  `DeleteAccount` is `Leave`, everything else is a stutter. The key of the table is
  what makes `Decide` legal, `SlotInv` what makes `Pair` legal.
- **Friendship.** `IInv` = types, what a call knows (`CallOK`: ids are handed out once and
  the parties of a row never change, so that a permission stays right while the row
  is there), truthful pushes. From it: `OnlyParties`. `TwoRowsOnlyIfCrossed` says that the lookup of both
  directions fails only for requests that overlap. It needs what a request at its insert
  knows (`CrossInv`): its lookup found no row in the other direction, so one that is there
  now was inserted since, and is `crossed`. Under
  `OneAtATime` (one slot) `SequentialInv` adds that what a slot read is still so when it
  writes, and gives `OneFriendshipPerPair`, `AcceptOnlyPending`, `ErrorsNeedDeparture` and the
  refinement of `FriendGraph`. `OneAtATime` cannot be dropped: with two calls in flight
  two requests that cross insert two rows (the lookup is for both directions, the key
  for one), and an accept overwrites a block (`friendship_unblocked`).
- **Gateway.** `IInv` = types, what a handler knows (`SlotOK`: a command belongs to the socket
  it came on, and one at `move` has seen a participation that only the end of the account
  can have taken since), `RoomInv`. `RoomOfMembers` follows from `SlotOK` at the step
  of `socket.join`. `RoomAsAsked` speaks of sockets with no command in flight and is not
  inductive alone: while a command is under way `AskedInv` says that all those in flight
  lead to where the client asked to be, so that the last one to end puts it there, in
  whatever order they end; a command that is denied needs `RoomOfMembers`.
- **History.** `HistoryIsGateway`: clients that page do not disturb the gateway, so that
  `IInv` holds beside them. `ReaderInv` adds `PageOK` (what a client is still to be given is
  older than its bound, or than the message of its cursor if that one is still there; if
  it is not, the next page starts from the top) and `LiveOK` (what is stored, and not cut
  off, was there before, was heard, or has a handler to emit it, while the socket is in
  the room). The step of a page rests on two lemmas about the query: a page without
  a cursor holds all there is (`NewestAll`, by cardinality), and one with a cursor all
  that is newer than its last message (`PageIsNewest`). The step of the gateway rests on
  `RowsStay` and `MessagesKept`, action by action. `HistoryComplete` and `NothingMissed` follow
  at the end of the pages, for every page size and number of messages.

- **Chat.** `IInv` = types, `TableInv` (what the tables say of each other), `CallInv` (what the
  slots and the events say). `OpenIsStable` alone is not inductive: it says nothing of a
  chat that is to be created yet. `OpenedInv` adds that a chat that was returned is
  still the one of its match, or that the match has lost a user, who does not come back;
  with the key of matchId (`ChatsKeyed`) a second insert for the match is refused, and ids
  are not handed out twice. `SlotOK` carries what `assertParticipant` saw across the upload to
  the write; the foreign keys of the insert do the rest (`AuthorsAreMembers`).
  `EventsToRecipient` needs `ToldLast`: while a call has a message still to announce nobody
  has been told of it, and once it has its recipient, nobody else. `MessageDelivered`
  needs that no two calls have one message
  (`MessagesApart`), since a slot at its end accounts for its own message only.
- **UserData.** `IInv` = types, `OneHolder`, `ColumnsKept` and `DeviceInv`. The write of a name says
  nothing of the avatar and the other way round (`CallOK`), which, with one profile per
  user (`OneHolder`), is all that `ColumnsKept` needs.
  `LastDeviceHolds` and `RefusedByOthersOnly` rest on `AloneInv`: the rows a delete has found
  are all its user has, and it is the only change of his devices in flight, from its
  start to its commit, whatever the other users' transactions lock, delete or roll back.
  `DeleteAccount` takes rows from under a delete (`GoneInv`).
- **Account, calls that overlap.** `IInv` = types, `SlotInv`, `CodesInv`, `CountInv`, `OwnDataOnly`,
  `AttemptsBounded`. For `OwnDataOnly` a slot has to know (`SlotOK`) that the code it has
  compared was generated for the account whose id it will write to, and for no other kind.
  `AttemptsBounded` counts wrong answers, the database counts increments: `CountInv` relates
  the two. Every wrong answer to the code that is there is in `attempts`, or has a slot at
  `count`, or was lost. The check has seen less than `MaxAttempts`, and the slot that
  makes the next guess is not at `count` itself, so that at most all the others are:
  this is the bound. A new code has no guesses, since codes are not generated twice.
  `CodesRunOut` is a bound too (`UseInv`): while the row waits for a code nobody has
  accepted it (`FreshInv`), and once it is gone only the calls that have compared it
  before are left. `LastMailWorks` is not inductive: it says nothing of older mails that
  are still to come. `MailInv` adds that of a code that is not astray any mail to come of its
  kind is its own, and that if none is to come its was the last.
- **Account, calls that do not overlap.** Under `OneAtATime` (one slot) `SeqInv` adds that the
  call in flight acts on what it read: the account is still the one it found (or
  deleted), the old password the stored one, and no session ended meanwhile
  (`SeqSlot`). With it come `SessionsEnd`, and `ChangeNeedsCurrent` as a property of
  steps. The end of the account may still come at any moment. `OneAtATime` cannot be
  dropped: with two slots a login in flight survives a reset (`account_reset`), and of
  two changes with one old password the second one replaces a password it was not given.

Left to TLC: liveness (`MutualLikesPair`), which is out of reach of the prover, and the four
runs that show a violation. No model uses a recursive operator.

## 5. What the checks say about the code

Beyond the violation runs, some properties hold only with an exception that is part of
their statement; each is a thing to know about the code:

- `RoomOfMembers`: the socket of a deleted user stays in the room and goes on hearing it;
  its leave_chat is denied, for the participation is gone.
- `RoomAsAsked`: of a join and a leave that are in flight together either may be last, and
  there is no acknowledgement to wait for.
- `TwoRowsOnlyIfCrossed`: two users who ask each other at once are left with two rows, one
  in each direction; the key is for one direction.
- `MessageDelivered`: a message over REST, or an image, whose push was given up has told
  nobody, and so has one whose call was cut off; nothing is tried again.
- `LastMailWorks`: a code that was stored and then not mailed leaves the user with a mail whose
  code was replaced; so may, of two requests for a code at once, the mail that arrives last.
- `CodesRunOut`, `AttemptsBounded`: calls that overlap may each have the same code
  accepted, or each add a wrong answer to the limit.
- `HistoryComplete`: a message with the createdAt of the last one of a page is in no page.
- `NothingMissed`: the order join, then read is what makes it hold; a client
  that reads first misses what is emitted in between. Messages over REST and images are
  never emitted to the room.
- `LastDeviceHolds`, `RefusedByOthersOnly`: two registrations of one user that overlap leave
  two devices; a device that changes hands without removeToken is refused with a 500.
- `OneHolder`: the keys hold, but the call that loses a race answers 500, not 409.
- `SessionsEnd` holds for calls that do not overlap; a login, refresh or registration in
  flight survives a logout as it survives a reset.

## 6. What the models leave out

- *Order of events.* What a socket has heard is a set. `chats.updatedAt`, which orders a
  list, is left out.
- *Redis.* An emission reaches the sockets in the room in one step; the delay between
  instances, and events lost with Redis, are not modelled. typing and stop_typing pass an
  event on and change nothing.
- *Pushes of `Matching` and `Friendship`.* sendToUser returns silently without a device and
  only logs an error of FCM. `Chat` models both (`Push`), for a property asks whether the push
  went out. Of a match or a friendship no property asks it: `PushMatch` records nothing, and
  `Notify` is a push that is sent; one that is not is a call that ends there (`Fail`).
- *Crash of the process.* `Fail` ends one call, `Disconnect` one socket; an unhandled
  rejection (of `void notify...`) ends all of an instance at once, which is a sequence of
  these steps: nothing is shared in memory but rooms.
- *updateUser across addresses.* `Account` follows one address, `UserData` moves users
  between addresses; the two are not composed. A `name` in the body of PATCH /users/me, which
  the DTO allows and the table lacks, is refused by Prisma (500). isVerified is not reset
  by a change of address.
- *Refresh token identities.* Rotation, and equal tokens signed in one second.
- *Liveness of registerToken.* That a waiting transaction is served in the end rests on the
  lock queue of PostgreSQL, not on this code.
- *Discovery.* Two reads; nothing waits for what they answer.
- *Rate limits, validation, text of mails and notifications, lists, application shell*:
  they change no state.

## 7. Plan

1. Refresh token identities in `Account`: rotation, two refreshes at once, equal tokens of one
   second; with them the proof that a rotated token is refused.
2. Proofs that compose: `Chat!MakeMatch` stands for `Matching`; that the matches of
   `Matching` are what `Chat` assumes of them (keyed by their pair, gone with their users) is
   checked and proved on either side, but not stated as one theorem.
3. The order of emission of two messages (§6).
