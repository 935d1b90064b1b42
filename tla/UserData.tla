------------------------------ MODULE UserData ------------------------------
(***************************************************************************)
(* What a user keeps beside his account: his address (updateUser), his     *)
(* profile (createProfile, updateProfile, uploadAvatar) and the devices    *)
(* that get his notifications (registerToken, removeToken).                *)
(* The first two are a lookup and a write by id.  registerToken is a       *)
(* transaction of PostgreSQL at READ COMMITTED: its delete takes the rows  *)
(* of the user that were committed when it started, waits for those that   *)
(* another transaction is deleting, and holds them until the end; its      *)
(* insert waits if the key of the device is being deleted, and fails if    *)
(* it is taken.                                                            *)
(* The guard and the first query of a call are one step with its arrival.  *)
(***************************************************************************)
EXTENDS Naturals, FiniteSets

CONSTANTS User, Address, Device, Name, Avatar, Request,
          NoUser, NoAddress, NoDevice, NoName, NoAvatar,
          Unsettled           \* history: overlapping calls, either may be last

ASSUME NullsApart == /\ NoUser \notin User /\ NoAddress \notin Address
                     /\ NoName \notin Name /\ NoAvatar \notin Avatar
                     /\ {NoDevice, Unsettled} \cap Device = {}

VARIABLES users,              \* ids in table users
          fresh,              \* ids that were never given to a user
          address,            \* column email of table users
          profiles,           \* table profiles: [user, name, avatar]
          tokens,             \* table device_tokens: [user, device]
          req,                \* the calls, slot by slot
          written,            \* history: what was last written to a profile
          device              \* history: the device a user registered last

vars == <<users, fresh, address, profiles, tokens, req, written, device>>

Profile == [user : User, name : Name, avatar : Avatar \cup {NoAvatar}]

DeviceToken == [user : User, device : Device]

Op == {"updateUser", "createProfile", "updateProfile", "uploadAvatar",
       "registerToken", "removeToken"}

\* rows: the tokens the delete has found and, at "put", holds.  alone is
\* history: no other change of this user's devices was in flight meanwhile.
Slot == [pc : {"idle", "rename", "insert", "upload", "update", "delete", "put"},
         op : Op, user : User \cup {NoUser}, address : Address \cup {NoAddress},
         name : Name \cup {NoName}, avatar : Avatar \cup {NoAvatar},
         device : Device \cup {NoDevice}, rows : SUBSET DeviceToken,
         alone : BOOLEAN]

Idle == [pc |-> "idle", op |-> "updateUser", user |-> NoUser,
         address |-> NoAddress, name |-> NoName, avatar |-> NoAvatar,
         device |-> NoDevice, rows |-> {}, alone |-> TRUE]

Call(step, op, u) == [Idle EXCEPT !.pc = step, !.op = op, !.user = u]

NotWritten == [name |-> NoName, avatar |-> NoAvatar]

ProfileOf(u) == {p \in profiles : p.user = u}

TokensOf(u) == {t \in tokens : t.user = u}

HolderOf(a) == {u \in users : address[u] = a}

\* The calls in flight that change the devices of u.
DeviceCalls(u) ==
    {r \in Request : /\ req[r].user = u
                     /\ req[r].op \in {"registerToken", "removeToken"}}

\* The rows locked by the transaction of a slot.
Held(r) == IF req[r].pc = "put" THEN req[r].rows ELSE {}

-----------------------------------------------------------------------------
Init ==
    /\ users = {}
    /\ fresh = User
    /\ address = [u \in User |-> NoAddress]
    /\ profiles = {}
    /\ tokens = {}
    /\ req = [r \in Request |-> Idle]
    /\ written = [u \in User |-> NotWritten]
    /\ device = [u \in User |-> NoDevice]

Start(r, call) == req' = [req EXCEPT ![r] = call]

Goto(r, step) == req' = [req EXCEPT ![r].pc = step]

\* The status is for the client alone.
Answer(r, status) == req' = [req EXCEPT ![r] = Idle]

\* External: register, of Account, takes a free address.
Register(u, a) ==
    /\ u \in fresh /\ HolderOf(a) = {}
    /\ users' = users \cup {u}
    /\ fresh' = fresh \ {u}
    /\ address' = [address EXCEPT ![u] = a]
    /\ UNCHANGED <<profiles, tokens, req, written, device>>

\* PATCH /users/me with an address, which must be free or his own.
FindAddress(r, u, a) ==
    /\ req[r].pc = "idle"
    /\ IF u \notin users               THEN Answer(r, 401)
       ELSE IF HolderOf(a) \ {u} # {}  THEN Answer(r, 409)
       ELSE Start(r, [Call("rename", "updateUser", u) EXCEPT !.address = a])
    /\ UNCHANGED <<users, fresh, address, profiles, tokens, written, device>>

Rename(r, refused) ==
    /\ req[r].pc = "rename"
    /\ IF refused
       THEN Answer(r, 500) /\ UNCHANGED address
       ELSE /\ address' = [address EXCEPT ![req[r].user] = req[r].address]
            /\ Answer(r, 200)
    /\ UNCHANGED <<users, fresh, profiles, tokens, written, device>>

\* Fault: no unique key on email.
UpdateUserUnkeyed(r) == Rename(r, req[r].user \notin users)

\* The update, by id.
UpdateUser(r) ==
    Rename(r, \/ req[r].user \notin users
              \/ HolderOf(req[r].address) \ {req[r].user} # {})

\* POST /users/profile, PATCH /users/profile with a new name, and POST
\* /files/avatar: the first wants no profile, the others want one.
FindProfile(r, u, op, name, avatar) ==
    /\ req[r].pc = "idle"
    /\ IF u \notin users THEN Answer(r, 401)
       ELSE IF op = "createProfile"
       THEN IF ProfileOf(u) # {} THEN Answer(r, 409)
            ELSE Start(r, [Call("insert", op, u) EXCEPT !.name = name])
       ELSE IF ProfileOf(u) = {} THEN Answer(r, 404)
       ELSE IF op = "updateProfile"
       THEN Start(r, [Call("update", op, u) EXCEPT !.name = name])
       ELSE Start(r, [Call("upload", op, u) EXCEPT !.avatar = avatar])
    /\ UNCHANGED <<users, fresh, address, profiles, tokens, written, device>>

\* The insert; the key of userId and the foreign key hold.
CreateProfile(r) ==
    /\ req[r].pc = "insert"
    /\ LET u == req[r].user
       IN  IF u \notin users \/ ProfileOf(u) # {}
           THEN Answer(r, 500) /\ UNCHANGED <<profiles, written>>
           ELSE /\ profiles' = profiles \cup
                     {[user |-> u, name |-> req[r].name, avatar |-> NoAvatar]}
                /\ written' = [written EXCEPT ![u] =
                     [name |-> req[r].name, avatar |-> NoAvatar]]
                /\ Answer(r, 201)
    /\ UNCHANGED <<users, fresh, address, tokens, device>>

\* Fault: the row found before the upload is kept in the call and written back.
UploadOverRow(r) ==
    /\ req[r].pc = "upload"
    /\ \E p \in ProfileOf(req[r].user) :
         req' = [req EXCEPT ![r].pc = "update", ![r].name = p.name]
    /\ UNCHANGED <<users, fresh, address, profiles, tokens, written, device>>

\* External: Cloudinary takes the image and gives it an address.
Upload(r) ==
    /\ req[r].pc = "upload"
    /\ Goto(r, "update")
    /\ UNCHANGED <<users, fresh, address, profiles, tokens, written, device>>

\* The update of the columns that are given, by the id of the user.
UpdateProfile(r) ==
    /\ req[r].pc = "update"
    /\ LET u == req[r].user
           Set(p) == [p EXCEPT
               !.name = IF req[r].name = NoName THEN @ ELSE req[r].name,
               !.avatar = IF req[r].avatar = NoAvatar THEN @ ELSE req[r].avatar]
       IN  IF ProfileOf(u) = {}
           THEN Answer(r, 500) /\ UNCHANGED <<profiles, written>>
           ELSE /\ profiles' = {IF p.user = u THEN Set(p) ELSE p : p \in profiles}
                /\ written' = IF req[r].op = "updateProfile"
                              THEN [written EXCEPT ![u].name = req[r].name]
                              ELSE [written EXCEPT ![u].avatar = req[r].avatar]
                /\ Answer(r, 200)
    /\ UNCHANGED <<users, fresh, address, tokens, device>>

\* POST and DELETE /notifications/token.  The delete both make starts: it will
\* delete the tokens the user has by now, one by one.
FindTokens(r, u, op, d) ==
    /\ req[r].pc = "idle"
    /\ IF u \notin users THEN Answer(r, 401)
       ELSE req' = [q \in Request |->
              IF q = r
              THEN [Call("delete", op, u) EXCEPT
                       !.device = d, !.rows = TokensOf(u),
                       !.alone = (DeviceCalls(u) = {})]
              ELSE [req[q] EXCEPT !.alone = @ /\ q \notin DeviceCalls(u)]]
    /\ UNCHANGED <<users, fresh, address, profiles, tokens, written, device>>

\* Tokens left and tokens added, and the end of slot r: a delete that has not
\* got to a row that is gone will not find it, not even if the same device is
\* registered again.
Commit(r, left, added) ==
    /\ tokens' = left \cup added
    /\ req' = [q \in Request |-> IF q = r THEN Idle
                                 ELSE [req[q] EXCEPT !.rows = @ \cap left]]

\* The device a user may count on, after a call that no other one overlapped.
Settle(r, d) ==
    device' = [device EXCEPT ![req[r].user] =
                 IF req[r].user \notin users THEN NoDevice
                 ELSE IF req[r].alone THEN d ELSE Unsettled]

\* Nobody else is deleting what the delete has found.
Unlocked(r) == \A q \in Request \ {r} : Held(q) \cap req[r].rows = {}

Delete(r, rows) ==
    /\ req[r].pc = "delete" /\ Unlocked(r)
    /\ IF req[r].op = "removeToken"
       THEN Commit(r, tokens \ rows, {}) /\ Settle(r, NoDevice)
       ELSE /\ req' = [req EXCEPT ![r].pc = "put", ![r].rows = rows]
            /\ UNCHANGED <<tokens, device>>
    /\ UNCHANGED <<users, fresh, address, profiles, written>>

\* Fault: the old device is kept.
DeleteNothing(r) == Delete(r, {})

\* Fault: registerToken deletes and inserts without a transaction.
DeleteAtOnce(r) ==
    /\ req[r].pc = "delete" /\ Unlocked(r)
    /\ tokens' = tokens \ req[r].rows
    /\ req' = [q \in Request |->
                 IF q # r THEN [req[q] EXCEPT !.rows = @ \ req[r].rows]
                 ELSE IF req[r].op = "removeToken" THEN Idle
                 ELSE [req[r] EXCEPT !.pc = "put", !.rows = {}]]
    /\ device' = IF req[r].op # "removeToken" THEN device
                 ELSE [device EXCEPT ![req[r].user] =
                         IF req[r].alone THEN NoDevice ELSE Unsettled]
    /\ UNCHANGED <<users, fresh, address, profiles, written>>

\* The delete goes through: the whole of removeToken; in registerToken it holds
\* its rows until the insert.
DeleteTokens(r) == Delete(r, req[r].rows)

\* Somebody else is deleting the token that has the key of the device.
KeyLocked(r) ==
    \E q \in Request \ {r} : \E t \in Held(q) : t.device = req[r].device

\* The tokens the user would be left with keep others out, his own included if
\* the delete did not see it.
KeyTaken(r) ==
    \E t \in tokens \ req[r].rows : t.device = req[r].device

Put(r, refused) ==
    /\ req[r].pc = "put" /\ ~KeyLocked(r)
    /\ IF refused
       THEN Answer(r, 500) /\ UNCHANGED <<tokens, device>>
       ELSE /\ Commit(r, tokens \ req[r].rows,
                      {[user |-> req[r].user, device |-> req[r].device]})
            /\ Settle(r, req[r].device)
    /\ UNCHANGED <<users, fresh, address, profiles, written>>

\* Fault: no foreign key from device_tokens.
CreateTokenUnkeyed(r) == Put(r, KeyTaken(r))

\* The insert and the commit, or the key or a user who is gone undo the delete.
CreateToken(r) == Put(r, KeyTaken(r) \/ req[r].user \notin users)

\* r cannot go on before q does.
WaitsFor(r, q) ==
    /\ q # r
    /\ \/ req[r].pc = "delete" /\ Held(q) \cap req[r].rows # {}
       \/ req[r].pc = "put" /\ \E t \in Held(q) : t.device = req[r].device

\* External: PostgreSQL finds transactions that wait for each other, and rolls
\* one back.
BreakDeadlock(r) ==
    /\ \E C \in SUBSET Request :
         r \in C /\ \A p \in C : \E q \in C : WaitsFor(p, q)
    /\ Answer(r, 500)
    /\ UNCHANGED <<users, fresh, address, profiles, tokens, written, device>>

\* A query or the upload fails, or the process stops; a transaction is rolled
\* back.
Fail(r) ==
    /\ req[r].pc # "idle"
    /\ Answer(r, 0)
    /\ UNCHANGED <<users, fresh, address, profiles, tokens, written, device>>

\* The cascade, which waits for rows that are locked.
DeleteAccount(u) ==
    /\ u \in users
    /\ \A r \in Request : Held(r) \cap TokensOf(u) = {}
    /\ users' = users \ {u}
    /\ address' = [address EXCEPT ![u] = NoAddress]
    /\ profiles' = profiles \ ProfileOf(u)
    /\ tokens' = tokens \ TokensOf(u)
    /\ req' = [q \in Request |-> [req[q] EXCEPT !.rows = @ \ TokensOf(u)]]
    /\ written' = [written EXCEPT ![u] = NotWritten]
    /\ device' = [device EXCEPT ![u] = NoDevice]
    /\ UNCHANGED fresh

Arrive(r, u) ==
    \/ \E a \in Address : FindAddress(r, u, a)
    \/ \E op \in {"createProfile", "updateProfile"}, n \in Name :
         FindProfile(r, u, op, n, NoAvatar)
    \/ \E v \in Avatar : FindProfile(r, u, "uploadAvatar", NoName, v)
    \/ \E d \in Device : FindTokens(r, u, "registerToken", d)
    \/ FindTokens(r, u, "removeToken", NoDevice)

Serve(r) == \/ UpdateUser(r)
            \/ CreateProfile(r)
            \/ Upload(r)
            \/ UpdateProfile(r)
            \/ DeleteTokens(r)
            \/ CreateToken(r)
            \/ BreakDeadlock(r)

Next == \/ \E u \in User, a \in Address : Register(u, a)
        \/ \E r \in Request, u \in User : Arrive(r, u)
        \/ \E r \in Request : Serve(r) \/ Fail(r)
        \/ \E u \in User : DeleteAccount(u)

Spec == Init /\ [][Next]_vars

-----------------------------------------------------------------------------
\* Tables and slots hold values of their types, and rows belong to users who
\* exist, also those a delete has found.
TypeOK ==
    /\ users \subseteq User /\ fresh \subseteq User \ users
    /\ address \in [User -> Address \cup {NoAddress}]
    /\ \A u \in User : u \in users <=> address[u] # NoAddress
    /\ profiles \subseteq [user : users, name : Name,
                           avatar : Avatar \cup {NoAvatar}]
    /\ tokens \subseteq [user : users, device : Device]
    /\ req \in [Request -> Slot]
    /\ \A r \in Request : req[r].rows \subseteq TokensOf(req[r].user)
    /\ written \in [User -> [name : Name \cup {NoName},
                             avatar : Avatar \cup {NoAvatar}]]
    /\ device \in [User -> Device \cup {NoDevice, Unsettled}]

\* 'Email already in use', 'Profile already exists': each is looked up before
\* the write, and may be there by then.  Still no address and no device belongs
\* to two users, and no user has two profiles.
OneHolder ==
    /\ \A u, v \in users : address[u] = address[v] => u = v
    /\ \A t, x \in tokens : t.device = x.device => t = x
    /\ \A p, q \in profiles : p.user = q.user => p = q

\* A new name and a new avatar are written by two handlers, one of which waits
\* for an upload.  Each keeps what the other one wrote: the profile is what was
\* last written to each of its columns.
ColumnsKept ==
    \A p \in profiles : written[p.user] = [name |-> p.name, avatar |-> p.avatar]

\* Notifications go to one device, the one registered last: a user whose last
\* registration (or removal) overlapped no other of his own has exactly this
\* device (or none), whatever failed or was refused before or after.
LastDeviceHolds ==
    \A u \in users : device[u] # Unsettled =>
        {t.device : t \in TokensOf(u)} = {device[u]} \ {NoDevice}

\* A device is known by one key for all users, and the tokens of a registration
\* are deleted before.  A call that overlaps no other one of its user is kept
\* waiting, or refused, by a token of somebody else only: a user may register
\* his own device as often as he likes.
RefusedByOthersOnly ==
    \A r \in Request :
        (req[r].pc \in {"delete", "put"} /\ req[r].alone) =>
            /\ \A q \in Request : WaitsFor(r, q) => req[q].user # req[r].user
            /\ req[r].pc = "put" =>
                 \A t \in TokensOf(req[r].user) \ req[r].rows :
                     t.device # req[r].device
=============================================================================
