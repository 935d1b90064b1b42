---------------------------- MODULE UserDataProofs ----------------------------
(***************************************************************************)
(* Proofs about UserData for every set of users, addresses, devices and    *)
(* calls in flight.                                                        *)
(***************************************************************************)
EXTENDS UserData, TLAPS

\* A call has what its operation needs, and a change of devices is at its
\* delete or its insert.
CallOK(s) ==
    /\ s.pc # "idle" => s.user \in User
    /\ s.pc = "rename" => s.address \in Address
    /\ s.pc = "insert" => s.name \in Name
    /\ s.pc = "upload" => s.op = "uploadAvatar"
    /\ s.pc = "update" => s.op \in {"updateProfile", "uploadAvatar"}
    /\ s.op = "updateProfile" => s.name \in Name /\ s.avatar = NoAvatar
    /\ s.op = "uploadAvatar" => s.name = NoName /\ s.avatar \in Avatar
    /\ s.op \in {"registerToken", "removeToken"} <=> s.pc \in {"delete", "put"}
    /\ s.pc = "put" => s.op = "registerToken"
    /\ s.op = "registerToken" => s.device \in Device
    /\ s.pc \notin {"delete", "put"} => s.rows = {}

CallInv == \A r \in Request : CallOK(req[r])

\* A change of devices that overlaps no other one of its user has found all he
\* has.
AloneOK(r) ==
    (req[r].pc \in {"delete", "put"} /\ req[r].alone) =>
        /\ req[r].rows = TokensOf(req[r].user)
        /\ \A q \in DeviceCalls(req[r].user) : q = r

AloneInv == \A r \in Request : AloneOK(r)

\* Nothing is expected of a user who is not there.
GoneInv == \A u \in User \ users : device[u] = NoDevice

DeviceInv == CallInv /\ AloneInv /\ GoneInv /\ LastDeviceHolds

IInv == TypeOK /\ OneHolder /\ ColumnsKept /\ DeviceInv

\* The slots have their type, and what a delete has found is there.
SlotsOK == /\ req \in [Request -> Slot]
           /\ \A r \in Request : req[r].rows \subseteq TokensOf(req[r].user)

-----------------------------------------------------------------------------
LEMMA IdleSlot ==
    Idle \in Slot /\ CallOK(Idle) /\ Idle.pc = "idle" /\ Idle.rows = {}
BY DEF Idle, Slot, Op, CallOK

\* What the fields of a call are that starts.
LEMMA NewCall ==
    ASSUME NEW step \in {"rename", "insert", "upload", "update", "delete"},
           NEW op \in Op, NEW u \in User
    PROVE  LET c == Call(step, op, u)
           IN  /\ c \in Slot /\ c.pc = step /\ c.op = op /\ c.user = u
               /\ c.name = NoName /\ c.avatar = NoAvatar /\ c.rows = {}
               /\ c.device = NoDevice
BY DEF Call, Idle, Slot

\* A slot changes to a call that does not touch devices, or ends.
LEMMA SlotChange ==
    ASSUME IInv, NEW r \in Request, NEW s \in Slot, CallOK(s),
           s.pc \notin {"delete", "put"}, req' = [req EXCEPT ![r] = s],
           UNCHANGED <<users, tokens, device>>
    PROVE  DeviceInv' /\ SlotsOK'
<1>1. /\ req' \in [Request -> Slot] /\ req'[r] = s
      /\ \A q \in Request : q # r => req'[q] = req[q]
  BY DEF IInv, TypeOK
<1>2. s.rows = {} /\ s.op \notin {"registerToken", "removeToken"}
  BY DEF CallOK
<1>3. \A u : TokensOf(u)' = TokensOf(u) /\ DeviceCalls(u)' \subseteq DeviceCalls(u)
  BY <1>1, <1>2 DEF TokensOf, DeviceCalls
<1>4. SlotsOK'
  BY <1>1, <1>2, <1>3 DEF IInv, TypeOK, SlotsOK, TokensOf
<1>5. CallInv'
  BY <1>1 DEF IInv, DeviceInv, CallInv
<1>6. AloneInv'
  <2> SUFFICES ASSUME NEW q \in Request, q # r PROVE AloneOK(q)'
    BY <1>1 DEF AloneInv, AloneOK
  <2>1. AloneOK(q) /\ req'[q] = req[q]
    BY <1>1 DEF IInv, DeviceInv, AloneInv
  <2>2. QED BY <1>3, <2>1 DEF AloneOK, TokensOf, DeviceCalls
<1>7. GoneInv' /\ LastDeviceHolds'
  BY DEF IInv, DeviceInv, GoneInv, LastDeviceHolds, TokensOf
<1>8. QED BY <1>4, <1>5, <1>6, <1>7 DEF DeviceInv

\* The same, and no table changes.
LEMMA OnlySlotChange ==
    ASSUME IInv, NEW r \in Request, NEW s \in Slot, CallOK(s),
           s.pc \notin {"delete", "put"}, req' = [req EXCEPT ![r] = s],
           UNCHANGED <<users, fresh, address, profiles, tokens, written, device>>
    PROVE  IInv'
<1>1. DeviceInv' /\ SlotsOK'
  BY SlotChange
<1>2. TypeOK'
  BY <1>1 DEF IInv, TypeOK, SlotsOK
<1>3. OneHolder' /\ ColumnsKept'
  BY DEF IInv, OneHolder, ColumnsKept
<1>4. QED BY <1>1, <1>2, <1>3 DEF IInv

LEMMA EndOfCall ==
    ASSUME IInv, NEW r \in Request, req' = [req EXCEPT ![r] = Idle],
           UNCHANGED <<users, fresh, address, profiles, tokens, written, device>>
    PROVE  IInv'
BY IdleSlot, OnlySlotChange

LEMMA Initially == Init => IInv
<1> SUFFICES ASSUME Init PROVE IInv
  OBVIOUS
<1>1. \A r \in Request : req[r] = Idle
  BY DEF Init
<1>2. TypeOK
  <2>1. req \in [Request -> Slot]
    BY IdleSlot DEF Init
  <2>2. \A r \in Request : req[r].rows \subseteq TokensOf(req[r].user)
    BY <1>1, IdleSlot
  <2>3. written \in [User -> [name : Name \cup {NoName},
                              avatar : Avatar \cup {NoAvatar}]]
    BY DEF Init, NotWritten
  <2>4. QED BY <2>1, <2>2, <2>3 DEF Init, TypeOK
<1>3. CallInv /\ AloneInv
  BY <1>1, IdleSlot DEF CallInv, AloneInv, AloneOK
<1>4. OneHolder /\ ColumnsKept /\ GoneInv /\ LastDeviceHolds
  BY DEF Init, OneHolder, ColumnsKept, GoneInv, LastDeviceHolds
<1>5. QED BY <1>2, <1>3, <1>4 DEF IInv, DeviceInv

-----------------------------------------------------------------------------
\* Addresses and profiles.

LEMMA RegisterStep ==
    ASSUME IInv, NEW u \in User, NEW a \in Address, Register(u, a)
    PROVE  IInv'
<1>1. /\ u \in fresh /\ HolderOf(a) = {} /\ users' = users \cup {u}
      /\ fresh' = fresh \ {u} /\ address' = [address EXCEPT ![u] = a]
      /\ UNCHANGED <<profiles, tokens, req, written, device>>
  BY DEF Register
<1>2. /\ u \notin users /\ address \in [User -> Address \cup {NoAddress}]
      /\ \A v \in User : v \in users <=> address[v] # NoAddress
      /\ users \subseteq User /\ fresh \subseteq User \ users
  BY <1>1 DEF IInv, TypeOK
<1>3. /\ address' \in [User -> Address \cup {NoAddress}]
      /\ address'[u] = a /\ a # NoAddress
      /\ \A v \in User : v # u => address'[v] = address[v]
  BY <1>1, <1>2, NullsApart
<1>4. TypeOK'
  BY <1>1, <1>2, <1>3 DEF IInv, TypeOK, TokensOf
<1>5. OneHolder'
  BY <1>1, <1>2, <1>3 DEF IInv, OneHolder, HolderOf
<1>6. ColumnsKept' /\ CallInv' /\ AloneInv' /\ GoneInv'
  BY <1>1 DEF IInv, ColumnsKept, DeviceInv, CallInv, AloneInv, AloneOK, GoneInv,
              TokensOf, DeviceCalls
<1>7. LastDeviceHolds'
  <2>1. TokensOf(u) = {} /\ device[u] = NoDevice
    BY <1>2 DEF IInv, TypeOK, TokensOf, DeviceInv, GoneInv
  <2>2. QED BY <1>1, <2>1 DEF IInv, DeviceInv, LastDeviceHolds, TokensOf
<1>8. QED BY <1>4, <1>5, <1>6, <1>7 DEF IInv, DeviceInv

LEMMA FindAddressStep ==
    ASSUME IInv, NEW r \in Request, NEW u \in User, NEW a \in Address,
           FindAddress(r, u, a)
    PROVE  IInv'
<1>1. PICK s : s = [Call("rename", "updateUser", u) EXCEPT !.address = a]
  OBVIOUS
<1>2. /\ UNCHANGED <<users, fresh, address, profiles, tokens, written, device>>
      /\ req' = [req EXCEPT ![r] = Idle] \/ req' = [req EXCEPT ![r] = s]
  BY <1>1 DEF FindAddress, Answer, Start
<1>3. s \in Slot /\ s.pc = "rename"
  BY <1>1 DEF Call, Idle, Slot, Op
<1>4. CallOK(s)
  BY <1>1 DEF Call, Idle, CallOK
<1>5. QED BY <1>2, <1>3, <1>4, EndOfCall, OnlySlotChange

\* The key of email, and the row of a user who is there.
LEMMA UpdateUserStep ==
    ASSUME IInv, NEW r \in Request, UpdateUser(r)
    PROVE  IInv'
<1>1. /\ UNCHANGED <<users, fresh, profiles, tokens, written, device>>
      /\ req' = [req EXCEPT ![r] = Idle] /\ req[r].pc = "rename"
  BY DEF UpdateUser, Rename, Answer
<1>2. CASE UNCHANGED address
  BY <1>1, <1>2, EndOfCall
<1>3. CASE /\ req[r].user \in users
           /\ HolderOf(req[r].address) \ {req[r].user} = {}
           /\ address' = [address EXCEPT ![req[r].user] = req[r].address]
  <2>1. PICK u \in User, a \in Address : u = req[r].user /\ a = req[r].address
    BY <1>1 DEF IInv, DeviceInv, CallInv, CallOK
  <2>2. /\ address' \in [User -> Address \cup {NoAddress}]
        /\ address'[u] = a /\ a # NoAddress /\ u \in users
        /\ \A v \in User : v # u => address'[v] = address[v]
        /\ \A v \in users : v # u => address[v] # a
    BY <1>3, <2>1, NullsApart DEF IInv, TypeOK, HolderOf
  <2>3. DeviceInv' /\ SlotsOK'
    BY <1>1, IdleSlot, SlotChange
  <2>4. TypeOK'
    BY <1>1, <2>2, <2>3 DEF IInv, TypeOK, SlotsOK
  <2>5. OneHolder' /\ ColumnsKept'
    <3>1. users \subseteq User
      BY DEF IInv, TypeOK
    <3>2. QED BY <1>1, <2>2, <3>1 DEF IInv, OneHolder, ColumnsKept
  <2>6. QED BY <2>3, <2>4, <2>5 DEF IInv
<1>4. QED BY <1>2, <1>3 DEF UpdateUser, Rename

LEMMA FindProfileStep ==
    ASSUME IInv, NEW r \in Request, NEW u \in User,
           NEW op \in {"createProfile", "updateProfile", "uploadAvatar"},
           NEW n \in Name \cup {NoName}, NEW v \in Avatar \cup {NoAvatar},
           op # "uploadAvatar" => n \in Name /\ v = NoAvatar,
           op = "uploadAvatar" => n = NoName /\ v \in Avatar,
           FindProfile(r, u, op, n, v)
    PROVE  IInv'
<1>1. PICK s1, s2, s3 :
        /\ s1 = [Call("insert", "createProfile", u) EXCEPT !.name = n]
        /\ s2 = [Call("update", "updateProfile", u) EXCEPT !.name = n]
        /\ s3 = [Call("upload", "uploadAvatar", u) EXCEPT !.avatar = v]
  OBVIOUS
<1>2. /\ UNCHANGED <<users, fresh, address, profiles, tokens, written, device>>
      /\ \/ req' = [req EXCEPT ![r] = Idle]
         \/ op = "createProfile" /\ req' = [req EXCEPT ![r] = s1]
         \/ op = "updateProfile" /\ req' = [req EXCEPT ![r] = s2]
         \/ op = "uploadAvatar" /\ req' = [req EXCEPT ![r] = s3]
  BY <1>1 DEF FindProfile, Answer, Start
<1>3. /\ s1 \in Slot /\ s1.pc = "insert" /\ s2 \in Slot /\ s2.pc = "update"
      /\ s3 \in Slot /\ s3.pc = "upload"
  BY <1>1 DEF Call, Idle, Slot, Op
<1>4. /\ op = "createProfile" => CallOK(s1)
      /\ op = "updateProfile" => CallOK(s2)
      /\ op = "uploadAvatar" => CallOK(s3)
  BY <1>1 DEF Call, Idle, CallOK
<1>5. QED BY <1>2, <1>3, <1>4, EndOfCall, OnlySlotChange

LEMMA UploadStep ==
    ASSUME IInv, NEW r \in Request, Upload(r)
    PROVE  IInv'
<1>1. PICK s : s = [req[r] EXCEPT !.pc = "update"]
  OBVIOUS
<1>2. req[r] \in Slot /\ CallOK(req[r]) /\ req[r].pc = "upload"
  BY DEF Upload, IInv, TypeOK, DeviceInv, CallInv
<1>3. s \in Slot /\ s.pc = "update"
  BY <1>1, <1>2 DEF Slot
<1>4. CallOK(s)
  BY <1>1, <1>2 DEF CallOK, Slot
<1>5. /\ UNCHANGED <<users, fresh, address, profiles, tokens, written, device>>
      /\ req' = [req EXCEPT ![r] = s]
  BY <1>1, <1>2 DEF Upload, Goto, IInv, TypeOK
<1>6. QED BY <1>3, <1>4, <1>5, OnlySlotChange

\* The key of userId in profiles.
LEMMA CreateProfileStep ==
    ASSUME IInv, NEW r \in Request, CreateProfile(r)
    PROVE  IInv'
<1>1. /\ UNCHANGED <<users, fresh, address, tokens, device>>
      /\ req' = [req EXCEPT ![r] = Idle] /\ req[r].pc = "insert"
  BY DEF CreateProfile, Answer
<1>2. PICK u \in User, n \in Name : u = req[r].user /\ n = req[r].name
  BY <1>1 DEF IInv, DeviceInv, CallInv, CallOK
<1>3. CASE UNCHANGED <<profiles, written>>
  BY <1>1, <1>3, EndOfCall
<1>4. CASE /\ u \in users /\ ProfileOf(u) = {}
           /\ profiles' = profiles \cup
                {[user |-> u, name |-> n, avatar |-> NoAvatar]}
           /\ written' = [written EXCEPT ![u] =
                [name |-> n, avatar |-> NoAvatar]]
  <2>1. DeviceInv' /\ SlotsOK'
    BY <1>1, IdleSlot, SlotChange
  <2>2. profiles' \subseteq [user : users, name : Name,
                             avatar : Avatar \cup {NoAvatar}]
    BY <1>4 DEF IInv, TypeOK
  <2>3. written' \in [User -> [name : Name \cup {NoName},
                               avatar : Avatar \cup {NoAvatar}]]
    BY <1>4 DEF IInv, TypeOK
  <2>4. TypeOK'
    BY <1>1, <2>1, <2>2, <2>3 DEF IInv, TypeOK, SlotsOK
  <2>5. OneHolder'
    BY <1>1, <1>4 DEF IInv, OneHolder, ProfileOf
  <2>6. ColumnsKept'
    <3>1. \A p \in profiles : p.user # u /\ p.user \in User
      BY <1>4 DEF IInv, TypeOK, ProfileOf
    <3>2. /\ written'[u] = [name |-> n, avatar |-> NoAvatar]
          /\ \A x \in User : x # u => written'[x] = written[x]
      BY <1>4 DEF IInv, TypeOK
    <3>3. \A p \in profiles :
            written'[p.user] = [name |-> p.name, avatar |-> p.avatar]
      BY <3>1, <3>2 DEF IInv, ColumnsKept
    <3>4. \A p \in profiles' \ profiles :
            p.user = u /\ p.name = n /\ p.avatar = NoAvatar
      BY <1>4
    <3>5. QED BY <3>2, <3>3, <3>4 DEF ColumnsKept
  <2>7. QED BY <2>1, <2>4, <2>5, <2>6 DEF IInv
<1>5. QED BY <1>2, <1>3, <1>4 DEF CreateProfile

\* Each of the two updates sets its own column and keeps the other.
LEMMA UpdateProfileStep ==
    ASSUME IInv, NEW r \in Request, UpdateProfile(r)
    PROVE  IInv'
<1> DEFINE Set(p) == [p EXCEPT
             !.name = IF req[r].name = NoName THEN @ ELSE req[r].name,
             !.avatar = IF req[r].avatar = NoAvatar THEN @ ELSE req[r].avatar]
<1>1. /\ UNCHANGED <<users, fresh, address, tokens, device>>
      /\ req' = [req EXCEPT ![r] = Idle] /\ req[r].pc = "update"
  BY DEF UpdateProfile, Answer
<1>2. PICK u \in User : u = req[r].user
  BY <1>1 DEF IInv, DeviceInv, CallInv, CallOK
<1>3. CASE UNCHANGED <<profiles, written>>
  BY <1>1, <1>3, EndOfCall
<1>4. CASE /\ profiles' = {IF p.user = u THEN Set(p) ELSE p : p \in profiles}
           /\ written' = IF req[r].op = "updateProfile"
                         THEN [written EXCEPT ![u].name = req[r].name]
                         ELSE [written EXCEPT ![u].avatar = req[r].avatar]
  <2>1. DeviceInv' /\ SlotsOK'
    BY <1>1, IdleSlot, SlotChange
  <2>2. \/ /\ req[r].op = "updateProfile" /\ req[r].name \in Name
           /\ req[r].avatar = NoAvatar
        \/ /\ req[r].op # "updateProfile" /\ req[r].name = NoName
           /\ req[r].avatar \in Avatar
    BY <1>1 DEF IInv, DeviceInv, CallInv, CallOK
  <2>3. \A p \in profiles :
          /\ p.user \in users /\ p.user \in User
          /\ p.name \in Name /\ p.avatar \in Avatar \cup {NoAvatar}
          /\ p = [user |-> p.user, name |-> p.name, avatar |-> p.avatar]
    BY DEF IInv, TypeOK
  <2>4. \A p \in profiles :
          Set(p) = [user |-> p.user,
                    name |-> IF req[r].op = "updateProfile" THEN req[r].name
                                                            ELSE p.name,
                    avatar |-> IF req[r].op = "updateProfile" THEN p.avatar
                                                              ELSE req[r].avatar]
    <3> SUFFICES ASSUME NEW p \in profiles
                 PROVE  Set(p) = [user |-> p.user,
                          name |-> IF req[r].op = "updateProfile"
                                   THEN req[r].name ELSE p.name,
                          avatar |-> IF req[r].op = "updateProfile"
                                     THEN p.avatar ELSE req[r].avatar]
      OBVIOUS
    <3>1. p \in [user : users, name : Name, avatar : Avatar \cup {NoAvatar}]
      BY DEF IInv, TypeOK
    <3>2. CASE req[r].op = "updateProfile"
      <4>1. req[r].name # NoName /\ req[r].avatar = NoAvatar
        BY <2>2, <3>2, NullsApart
      <4>2. Set(p) = [p EXCEPT !.name = req[r].name, !.avatar = p.avatar]
        BY <3>1, <4>1
      <4> HIDE DEF Set
      <4>3. Set(p) = [user |-> p.user, name |-> req[r].name,
                      avatar |-> p.avatar]
        BY <3>1, <4>2
      <4>4. QED BY <3>2, <4>3
    <3>3. CASE req[r].op # "updateProfile"
      <4>1. req[r].name = NoName /\ req[r].avatar # NoAvatar
        BY <2>2, <3>3, NullsApart
      <4>2. Set(p) = [p EXCEPT !.name = p.name, !.avatar = req[r].avatar]
        BY <3>1, <4>1
      <4> HIDE DEF Set
      <4>3. Set(p) = [user |-> p.user, name |-> p.name,
                      avatar |-> req[r].avatar]
        BY <3>1, <4>2
      <4>4. QED BY <3>3, <4>3
    <3>4. QED BY <3>2, <3>3
  <2> HIDE DEF Set
  <2>5. \A p \in profiles' : \E q \in profiles :
          /\ p.user = q.user
          /\ q.user # u => p = q
          /\ q.user = u => p = Set(q)
    BY <1>4, <2>3, <2>4
  <2>6. TypeOK'
    <3>1. profiles' \subseteq [user : users, name : Name,
                               avatar : Avatar \cup {NoAvatar}]
      BY <2>2, <2>3, <2>4, <2>5
    <3>2. written' \in [User -> [name : Name \cup {NoName},
                                 avatar : Avatar \cup {NoAvatar}]]
      <4>1. CASE req[r].op = "updateProfile"
        BY <1>4, <2>2, <4>1 DEF IInv, TypeOK
      <4>2. CASE req[r].op # "updateProfile"
        BY <1>4, <2>2, <4>2 DEF IInv, TypeOK
      <4>3. QED BY <4>1, <4>2
    <3>3. QED BY <1>1, <2>1, <3>1, <3>2 DEF IInv, TypeOK, SlotsOK
  <2>7. OneHolder'
    <3>1. \A p, q \in profiles' : p.user = q.user => p = q
      BY <2>5 DEF IInv, OneHolder
    <3>2. QED BY <1>1, <3>1 DEF IInv, OneHolder
  <2>8. ColumnsKept'
    <3> SUFFICES ASSUME NEW p \in profiles'
                 PROVE  written'[p.user] = [name |-> p.name, avatar |-> p.avatar]
      BY DEF ColumnsKept
    <3>1. PICK q \in profiles : /\ p.user = q.user
                                /\ q.user # u => p = q
                                /\ q.user = u => p = Set(q)
      BY <2>5
    <3>2. /\ written[q.user] = [name |-> q.name, avatar |-> q.avatar]
          /\ q.user \in User
      BY <2>3 DEF IInv, ColumnsKept
    <3>3. written \in [User -> [name : Name \cup {NoName},
                                avatar : Avatar \cup {NoAvatar}]]
      BY DEF IInv, TypeOK
    <3>4. CASE q.user # u
      <4>1. written'[q.user] = written[q.user]
        BY <1>4, <3>2, <3>3, <3>4
      <4>2. QED BY <3>1, <3>2, <3>4, <4>1
    <3>5. CASE q.user = u /\ req[r].op = "updateProfile"
      <4>1. written'[u] = [name |-> req[r].name, avatar |-> q.avatar]
        BY <1>4, <3>2, <3>3, <3>5
      <4>2. p.name = req[r].name /\ p.avatar = q.avatar
        BY <2>4, <3>1, <3>5
      <4>3. QED BY <3>1, <3>5, <4>1, <4>2
    <3>6. CASE q.user = u /\ req[r].op # "updateProfile"
      <4>1. written'[u] = [name |-> q.name, avatar |-> req[r].avatar]
        BY <1>4, <3>2, <3>3, <3>6
      <4>2. p.name = q.name /\ p.avatar = req[r].avatar
        BY <2>4, <3>1, <3>6
      <4>3. QED BY <3>1, <3>6, <4>1, <4>2
    <3>7. QED BY <3>4, <3>5, <3>6
  <2>9. QED BY <2>1, <2>6, <2>7, <2>8 DEF IInv
<1>5. QED BY <1>2, <1>3, <1>4 DEF UpdateProfile

-----------------------------------------------------------------------------
\* Devices.

\* A call that overlaps no other one of its user is alone with his devices.
LEMMA Apart ==
    ASSUME IInv, NEW r \in Request, req[r].pc \in {"delete", "put"},
           NEW q \in Request, q # r, req[q].pc \in {"delete", "put"},
           req[q].alone
    PROVE  req[q].user # req[r].user
<1>1. req[r].op \in {"registerToken", "removeToken"} /\ AloneOK(q)
  BY DEF IInv, DeviceInv, CallInv, CallOK, AloneInv
<1>2. QED BY <1>1 DEF AloneOK, DeviceCalls

\* The start of a change of devices.
LEMMA FindTokensStep ==
    ASSUME IInv, NEW r \in Request, NEW u \in User,
           NEW op \in {"registerToken", "removeToken"},
           NEW d \in Device \cup {NoDevice},
           op = "registerToken" => d \in Device,
           FindTokens(r, u, op, d)
    PROVE  IInv'
<1>1. /\ UNCHANGED <<users, fresh, address, profiles, tokens, written, device>>
      /\ req[r].pc = "idle" /\ req \in [Request -> Slot]
  BY DEF FindTokens, IInv, TypeOK
<1>2. CASE req' = [req EXCEPT ![r] = Idle]
  BY <1>1, <1>2, EndOfCall
<1>3. CASE req' = [q \in Request |->
              IF q = r
              THEN [Call("delete", op, u) EXCEPT
                       !.device = d, !.rows = TokensOf(u),
                       !.alone = (DeviceCalls(u) = {})]
              ELSE [req[q] EXCEPT !.alone = @ /\ q \notin DeviceCalls(u)]]
  <2>1. PICK s : s = [Call("delete", op, u) EXCEPT
                        !.device = d, !.rows = TokensOf(u),
                        !.alone = (DeviceCalls(u) = {})]
    OBVIOUS
  <2>2. TokensOf(u) \in SUBSET DeviceToken /\ (DeviceCalls(u) = {}) \in BOOLEAN
    BY DEF IInv, TypeOK, TokensOf, DeviceToken
  <2>3. /\ s \in Slot /\ s.pc = "delete" /\ s.op = op /\ s.user = u
        /\ s.rows = TokensOf(u) /\ s.alone = (DeviceCalls(u) = {})
        /\ s.device = d
    BY <2>1, <2>2 DEF Call, Idle, Slot, Op
  <2>4. CallOK(s)
    BY <2>1, <2>3 DEF Call, Idle, CallOK
  <2>5. req'[r] = s
    BY <1>3, <2>1
  <2>6. ASSUME NEW q \in Request, q # r
        PROVE  /\ req'[q] \in Slot
               /\ UNCHANGED <<req[q].pc, req[q].op, req[q].user>>
               /\ UNCHANGED <<req[q].address, req[q].name, req[q].avatar>>
               /\ UNCHANGED <<req[q].device, req[q].rows>>
               /\ req'[q].alone => req[q].alone /\ q \notin DeviceCalls(u)
    <3>1. PICK b \in BOOLEAN : b = (req[q].alone /\ q \notin DeviceCalls(u))
      OBVIOUS
    <3>2. req'[q] = [req[q] EXCEPT !.alone = b] /\ req[q] \in Slot
      BY <1>1, <1>3, <2>6, <3>1
    <3>3. QED BY <3>1, <3>2 DEF Slot
  <2>7. req' \in [Request -> Slot]
    <3>1. \A q \in Request : req'[q] \in Slot
      BY <2>3, <2>5, <2>6
    <3>2. req' = [q \in Request |-> req'[q]]
      BY <1>3
    <3>3. QED BY <3>1, <3>2
  <2>8. TypeOK'
    <3>1. \A q \in Request : req'[q].rows \subseteq TokensOf(req'[q].user)
      BY <2>3, <2>5, <2>6 DEF IInv, TypeOK
    <3>2. QED BY <1>1, <2>7, <3>1 DEF IInv, TypeOK, TokensOf
  <2>9. CallInv'
    BY <2>4, <2>5, <2>6 DEF IInv, DeviceInv, CallInv, CallOK
  <2>10. AloneInv'
    <3>1. AloneOK(r)'
      <4>1. \A q \in Request : (q # r /\ req'[q].user = u /\
                 req'[q].op \in {"registerToken", "removeToken"})
               => q \in DeviceCalls(u)
        BY <2>6 DEF DeviceCalls
      <4>2. s.alone => \A q \in DeviceCalls(u)' : q = r
        BY <2>3, <4>1 DEF DeviceCalls
      <4>3. QED BY <1>1, <2>3, <2>5, <4>2 DEF AloneOK, TokensOf, DeviceCalls
    <3>2. ASSUME NEW q \in Request, q # r PROVE AloneOK(q)'
      <4> SUFFICES ASSUME req'[q].pc \in {"delete", "put"}, req'[q].alone
                   PROVE  /\ req[q].rows = TokensOf(req[q].user)
                          /\ \A p \in Request :
                               /\ req'[p].user = req[q].user
                               /\ req'[p].op \in {"registerToken", "removeToken"}
                               => p = q
        BY <1>1, <2>6, <3>2 DEF AloneOK, TokensOf, DeviceCalls
      <4>1. /\ req[q].pc \in {"delete", "put"} /\ req[q].alone
            /\ q \notin DeviceCalls(u)
        BY <2>6, <3>2
      <4>2. req[q].user # u
        BY <4>1 DEF IInv, DeviceInv, CallInv, CallOK, DeviceCalls
      <4>3. /\ req[q].rows = TokensOf(req[q].user)
            /\ \A p \in DeviceCalls(req[q].user) : p = q
        BY <4>1 DEF IInv, DeviceInv, AloneInv, AloneOK
      <4>4. QED BY <2>3, <2>5, <2>6, <4>2, <4>3 DEF DeviceCalls
    <3>3. QED BY <3>1, <3>2 DEF AloneInv
  <2>11. GoneInv' /\ LastDeviceHolds' /\ OneHolder' /\ ColumnsKept'
    BY <1>1 DEF IInv, DeviceInv, GoneInv, LastDeviceHolds, OneHolder,
                ColumnsKept, TokensOf
  <2>12. QED BY <2>8, <2>9, <2>10, <2>11 DEF IInv, DeviceInv
<1>4. QED BY <1>2, <1>3 DEF FindTokens, Answer

\* A commit changes the devices of its own user only, and leaves him with the
\* token it adds if it is alone.
LEMMA CommitStep ==
    ASSUME IInv, NEW r \in Request, NEW u \in users,
           req[r].user = u, req[r].pc \in {"delete", "put"},
           NEW d \in Device \cup {NoDevice},
           Commit(r, tokens \ req[r].rows,
                  IF d = NoDevice THEN {} ELSE {[user |-> u, device |-> d]}),
           Settle(r, d),
           \A t \in tokens \ req[r].rows : t.device # d,
           UNCHANGED <<users, fresh, address, profiles, written>>
    PROVE  IInv'
<1>1. PICK left, added : /\ left = tokens \ req[r].rows
                         /\ added = IF d = NoDevice THEN {}
                                    ELSE {[user |-> u, device |-> d]}
  OBVIOUS
<1>2. /\ tokens' = left \cup added
      /\ req' = [q \in Request |-> IF q = r THEN Idle
                                   ELSE [req[q] EXCEPT !.rows = @ \cap left]]
  BY <1>1 DEF Commit
<1>3. /\ users \subseteq User /\ tokens \subseteq [user : users, device : Device]
      /\ req \in [Request -> Slot] /\ req[r].rows \subseteq TokensOf(u)
      /\ device \in [User -> Device \cup {NoDevice, Unsettled}]
  BY DEF IInv, TypeOK
<1>4. tokens' \subseteq [user : users, device : Device]
  BY <1>1, <1>2, <1>3
<1>5. /\ \A v : v # u => TokensOf(v)' = TokensOf(v)
      /\ TokensOf(u)' = (TokensOf(u) \ req[r].rows) \cup added
  BY <1>1, <1>2, <1>3 DEF TokensOf
<1>6. req'[r] = Idle
  BY <1>2
<1>7. ASSUME NEW q \in Request, q # r
      PROVE  /\ req'[q] \in Slot /\ req'[q].rows = req[q].rows \cap left
             /\ UNCHANGED <<req[q].pc, req[q].op, req[q].user>>
             /\ UNCHANGED <<req[q].address, req[q].name, req[q].avatar>>
             /\ UNCHANGED <<req[q].device, req[q].alone>>
  <2>1. PICK rows \in SUBSET DeviceToken : rows = req[q].rows \cap left
    BY <1>3 DEF Slot
  <2>2. req'[q] = [req[q] EXCEPT !.rows = rows] /\ req[q] \in Slot
    BY <1>2, <1>3, <1>7, <2>1
  <2>3. QED BY <2>1, <2>2 DEF Slot
<1>8. req' \in [Request -> Slot]
  <2>1. \A q \in Request : req'[q] \in Slot
    BY <1>6, <1>7, IdleSlot
  <2>2. req' = [q \in Request |-> req'[q]]
    BY <1>2
  <2>3. QED BY <2>1, <2>2
<1>9. /\ device' \in [User -> Device \cup {NoDevice, Unsettled}]
      /\ device'[u] = IF req[r].alone THEN d ELSE Unsettled
      /\ \A v \in User : v # u => device'[v] = device[v]
  BY <1>3 DEF Settle
<1>10. TypeOK'
  <2>1. \A q \in Request : \A t \in req'[q].rows :
          t \in tokens' /\ t.user = req'[q].user
    <3> SUFFICES ASSUME NEW q \in Request, q # r
                 PROVE  \A t \in req'[q].rows :
                          t \in tokens' /\ t.user = req'[q].user
      BY <1>6, IdleSlot
    <3>1. req'[q].rows = req[q].rows \cap left /\ req'[q].user = req[q].user
      BY <1>7
    <3>2. req[q].rows \subseteq TokensOf(req[q].user)
      BY DEF IInv, TypeOK
    <3>3. QED BY <1>2, <3>1, <3>2 DEF TokensOf
  <2>2. QED BY <1>4, <1>8, <1>9, <2>1 DEF IInv, TypeOK, TokensOf
<1>11. CallInv'
  <2>1. ASSUME NEW q \in Request, q # r PROVE CallOK(req'[q])
    <3>1. CallOK(req[q])
      BY DEF IInv, DeviceInv, CallInv
    <3>2. req[q].pc \notin {"delete", "put"} => req'[q].rows = {}
      BY <1>7, <2>1, <3>1 DEF CallOK
    <3>3. QED BY <1>7, <2>1, <3>1, <3>2 DEF CallOK
  <2>2. QED BY <1>6, <2>1, IdleSlot DEF CallInv
<1>12. AloneInv'
  <2>1. ASSUME NEW q \in Request, q # r, req'[q].pc \in {"delete", "put"},
               req'[q].alone
        PROVE  /\ req'[q].rows = {t \in tokens' : t.user = req'[q].user}
               /\ \A p \in Request :
                    (/\ req'[p].user = req'[q].user
                     /\ req'[p].op \in {"registerToken", "removeToken"}) => p = q
    <3>1. /\ req[q].pc \in {"delete", "put"} /\ req[q].alone
          /\ req'[q].user = req[q].user /\ req'[q].rows = req[q].rows \cap left
      BY <1>7, <2>1
    <3>2. req[q].user # u
      BY <2>1, <3>1, Apart
    <3>3. /\ req[q].rows = TokensOf(req[q].user)
          /\ \A p \in DeviceCalls(req[q].user) : p = q
      BY <3>1 DEF IInv, DeviceInv, AloneInv, AloneOK
    <3>4. req'[q].rows = {t \in tokens' : t.user = req'[q].user}
      <4>1. TokensOf(req[q].user) \subseteq left
        BY <1>1, <1>3, <3>2 DEF TokensOf
      <4>2. \A t \in added : t.user = u
        BY <1>1
      <4>3. QED BY <1>2, <3>1, <3>2, <3>3, <4>1, <4>2, <1>1 DEF TokensOf
    <3>5. ASSUME NEW p \in Request, req'[p].user = req'[q].user,
                 req'[p].op \in {"registerToken", "removeToken"}
          PROVE  p = q
      <4>1. p # r
        BY <1>6, <3>5 DEF Idle
      <4>2. req'[p].user = req[p].user /\ req'[p].op = req[p].op
        BY <1>7, <4>1
      <4>3. QED BY <3>1, <3>3, <3>5, <4>2 DEF DeviceCalls
    <3>6. QED BY <3>4, <3>5
  <2>2. AloneOK(r)'
    BY <1>6, IdleSlot DEF AloneOK
  <2>3. ASSUME NEW q \in Request, q # r PROVE AloneOK(q)'
    BY <2>1, <2>3 DEF AloneOK, TokensOf, DeviceCalls
  <2>4. QED BY <2>2, <2>3 DEF AloneInv
<1>13. GoneInv'
  BY <1>9 DEF IInv, DeviceInv, GoneInv
<1>14. LastDeviceHolds'
  <2> SUFFICES ASSUME NEW v \in users, device'[v] # Unsettled
               PROVE  {t.device : t \in TokensOf(v)'} = {device'[v]} \ {NoDevice}
    BY DEF LastDeviceHolds, TokensOf
  <2>1. CASE v # u
    BY <1>3, <1>5, <1>9, <2>1 DEF IInv, DeviceInv, LastDeviceHolds
  <2>2. CASE v = u
    <3>1. req[r].alone /\ device'[u] = d
      BY <1>9, <2>2
    <3>2. TokensOf(u) \ req[r].rows = {}
      BY <3>1 DEF IInv, DeviceInv, AloneInv, AloneOK
    <3>3. TokensOf(v)' = added
      BY <1>5, <2>2, <3>2 DEF TokensOf
    <3>4. {t.device : t \in added} = {d} \ {NoDevice}
      <4>1. CASE d = NoDevice
        BY <1>1, <4>1
      <4>2. CASE d # NoDevice
        BY <1>1, <4>2
      <4>3. QED BY <4>1, <4>2
    <3>5. QED BY <2>2, <3>1, <3>3, <3>4
  <2>3. QED BY <2>1, <2>2
<1>15. OneHolder'
  <2>1. \A t, x \in tokens' : t.device = x.device => t = x
    <3>1. \A t \in added : t.device = d /\ \A x \in added : t = x
      BY <1>1
    <3>2. \A t \in left : t \in tokens /\ t.device # d
      BY <1>1
    <3>3. QED BY <1>2, <3>1, <3>2 DEF IInv, OneHolder
  <2>2. QED BY <2>1 DEF IInv, OneHolder
<1>16. ColumnsKept'
  BY DEF IInv, ColumnsKept
<1>17. QED BY <1>10, <1>11, <1>12, <1>13, <1>14, <1>15, <1>16
           DEF IInv, DeviceInv

LEMMA DeleteTokensStep ==
    ASSUME IInv, NEW r \in Request, DeleteTokens(r)
    PROVE  IInv'
<1>1. /\ req[r].pc = "delete" /\ req[r] \in Slot /\ CallOK(req[r])
      /\ UNCHANGED <<users, fresh, address, profiles, written>>
  BY DEF DeleteTokens, Delete, IInv, TypeOK, DeviceInv, CallInv
<1>2. PICK u \in User : u = req[r].user
  BY <1>1 DEF CallOK
<1>3. CASE req[r].op = "removeToken" /\ u \in users
  <2>1. Commit(r, tokens \ req[r].rows, {}) /\ Settle(r, NoDevice)
    BY <1>3 DEF DeleteTokens, Delete
  <2>2. \A t \in tokens \ req[r].rows : t.device # NoDevice
    BY NullsApart DEF IInv, TypeOK
  <2>3. Commit(r, tokens \ req[r].rows,
               IF NoDevice = NoDevice THEN {}
               ELSE {[user |-> u, device |-> NoDevice]})
    BY <2>1
  <2>4. QED BY <1>1, <1>2, <1>3, <2>1, <2>2, <2>3, CommitStep
<1>4. CASE req[r].op = "removeToken" /\ u \notin users
  <2>1. Commit(r, tokens \ req[r].rows, {}) /\ Settle(r, NoDevice)
    BY <1>4 DEF DeleteTokens, Delete
  <2>2. /\ \A q \in Request : req[q].rows \subseteq TokensOf(req[q].user)
        /\ tokens \subseteq [user : users, device : Device]
        /\ req \in [Request -> Slot]
        /\ device \in [User -> Device \cup {NoDevice, Unsettled}]
    BY DEF IInv, TypeOK
  <2>3. req[r].rows = {}
    BY <1>2, <1>4, <2>2 DEF TokensOf
  <2>4. \A q \in Request : req[q].rows \cap tokens = req[q].rows
    BY <2>2 DEF TokensOf
  <2>5. \A q \in Request : [req[q] EXCEPT !.rows = req[q].rows \cap tokens] = req[q]
    BY <2>2, <2>4 DEF Slot
  <2>6. tokens' = tokens /\ req' = [q \in Request |-> IF q = r THEN Idle
                                                      ELSE req[q]]
    <3>1. tokens \ req[r].rows = tokens
      BY <2>3
    <3>2. QED BY <2>1, <2>5, <3>1 DEF Commit
  <2>7. req' = [req EXCEPT ![r] = Idle]
    BY <2>2, <2>6
  <2>8. device' = device
    <3>1. device[u] = NoDevice
      BY <1>4 DEF IInv, DeviceInv, GoneInv
    <3>2. QED BY <1>2, <1>4, <2>1, <2>2, <3>1 DEF Settle
  <2>9. QED BY <1>1, <2>6, <2>7, <2>8, EndOfCall
<1>5. CASE req[r].op # "removeToken"
  <2>1. PICK s : s = [req[r] EXCEPT !.pc = "put"]
    OBVIOUS
  <2>2. /\ s \in Slot /\ s.pc = "put" /\ s.op = req[r].op
        /\ s.user = req[r].user /\ s.rows = req[r].rows
        /\ s.alone = req[r].alone
        /\ s.avatar = req[r].avatar /\ s.name = req[r].name
        /\ s.device = req[r].device
    BY <1>1, <2>1 DEF Slot
  <2>3. CallOK(s)
    BY <1>1, <1>5, <2>2 DEF CallOK
  <2>4. /\ req' = [req EXCEPT ![r] = s] /\ UNCHANGED <<tokens, device>>
    <3>1. req' = [req EXCEPT ![r].pc = "put", ![r].rows = req[r].rows]
      BY <1>5 DEF DeleteTokens, Delete
    <3>2. req \in [Request -> Slot]
      BY DEF IInv, TypeOK
    <3>3. [req[r] EXCEPT !.pc = "put", !.rows = req[r].rows] = s
      BY <1>1, <2>1 DEF Slot
    <3>4. QED BY <1>5, <3>1, <3>2, <3>3 DEF DeleteTokens, Delete
  <2>5. /\ req' \in [Request -> Slot] /\ req'[r] = s
        /\ \A q \in Request : q # r => req'[q] = req[q]
    BY <2>2, <2>4 DEF IInv, TypeOK
  <2>6. TypeOK'
    BY <1>1, <2>2, <2>4, <2>5 DEF IInv, TypeOK, TokensOf
  <2>7. CallInv'
    BY <2>3, <2>5 DEF IInv, DeviceInv, CallInv
  <2>8. AloneInv'
    <3>1. \A q \in Request : /\ req'[q].op = req[q].op
                             /\ req'[q].user = req[q].user
                             /\ req'[q].rows = req[q].rows
                             /\ req'[q].alone = req[q].alone
                             /\ req'[q].pc \in {"delete", "put"} <=>
                                  req[q].pc \in {"delete", "put"}
      BY <1>1, <2>2, <2>5
    <3>2. QED BY <2>4, <3>1 DEF IInv, DeviceInv, AloneInv, AloneOK, TokensOf,
                                DeviceCalls
  <2>9. GoneInv' /\ LastDeviceHolds' /\ OneHolder' /\ ColumnsKept'
    BY <1>1, <2>4 DEF IInv, DeviceInv, GoneInv, LastDeviceHolds, OneHolder,
                      ColumnsKept, TokensOf
  <2>10. QED BY <2>6, <2>7, <2>8, <2>9 DEF IInv, DeviceInv
<1>6. QED BY <1>3, <1>4, <1>5

LEMMA CreateTokenStep ==
    ASSUME IInv, NEW r \in Request, CreateToken(r)
    PROVE  IInv'
<1>1. /\ req[r].pc = "put" /\ CallOK(req[r])
      /\ UNCHANGED <<users, fresh, address, profiles, written>>
  BY DEF CreateToken, Put, IInv, DeviceInv, CallInv
<1>2. PICK u \in User, d \in Device : u = req[r].user /\ d = req[r].device
  BY <1>1 DEF CallOK
<1>3. CASE Answer(r, 500) /\ UNCHANGED <<tokens, device>>
  BY <1>1, <1>3, EndOfCall DEF Answer
<1>4. CASE /\ ~KeyTaken(r) /\ u \in users
           /\ Commit(r, tokens \ req[r].rows, {[user |-> u, device |-> d]})
           /\ Settle(r, d)
  <2>1. d # NoDevice
    BY NullsApart
  <2>2. Commit(r, tokens \ req[r].rows,
               IF d = NoDevice THEN {} ELSE {[user |-> u, device |-> d]})
    BY <1>4, <2>1
  <2>3. \A t \in tokens \ req[r].rows : t.device # d
    BY <1>2, <1>4 DEF KeyTaken
  <2>4. QED BY <1>1, <1>2, <1>4, <2>2, <2>3, CommitStep
<1>5. QED BY <1>2, <1>3, <1>4 DEF CreateToken, Put

\* A user takes along his address, his profile and his devices, those that a
\* delete has found included.
LEMMA DeleteAccountStep ==
    ASSUME IInv, NEW u \in User, DeleteAccount(u)
    PROVE  IInv'
<1>1. /\ users' = users \ {u} /\ profiles' = profiles \ ProfileOf(u)
      /\ tokens' = tokens \ TokensOf(u)
      /\ address' = [address EXCEPT ![u] = NoAddress]
      /\ req' = [q \in Request |-> [req[q] EXCEPT !.rows = @ \ TokensOf(u)]]
      /\ written' = [written EXCEPT ![u] = NotWritten]
      /\ device' = [device EXCEPT ![u] = NoDevice]
      /\ UNCHANGED fresh
  BY DEF DeleteAccount
<1>2. /\ users \subseteq User /\ tokens \subseteq [user : users, device : Device]
      /\ profiles \subseteq [user : users, name : Name,
                             avatar : Avatar \cup {NoAvatar}]
      /\ req \in [Request -> Slot]
      /\ \A q \in Request : req[q].rows \subseteq TokensOf(req[q].user)
      /\ address \in [User -> Address \cup {NoAddress}]
      /\ \A v \in User : v \in users <=> address[v] # NoAddress
      /\ written \in [User -> [name : Name \cup {NoName},
                               avatar : Avatar \cup {NoAvatar}]]
      /\ device \in [User -> Device \cup {NoDevice, Unsettled}]
      /\ fresh \subseteq User \ users
  BY DEF IInv, TypeOK
<1>3. ASSUME NEW q \in Request
      PROVE  /\ req'[q] \in Slot /\ req'[q].rows = req[q].rows \ TokensOf(u)
             /\ UNCHANGED <<req[q].pc, req[q].op, req[q].user>>
             /\ UNCHANGED <<req[q].address, req[q].name, req[q].avatar>>
             /\ UNCHANGED <<req[q].device, req[q].alone>>
  <2>1. PICK rows \in SUBSET DeviceToken : rows = req[q].rows \ TokensOf(u)
    BY <1>2 DEF Slot
  <2>2. req'[q] = [req[q] EXCEPT !.rows = rows] /\ req[q] \in Slot
    BY <1>1, <1>2, <2>1
  <2>3. QED BY <2>1, <2>2 DEF Slot
<1>4. req' \in [Request -> Slot]
  <2>1. req' = [q \in Request |-> req'[q]]
    BY <1>1
  <2>2. QED BY <1>3, <2>1
<1>5. /\ TokensOf(u)' = {}
      /\ \A v : v # u => TokensOf(v)' = TokensOf(v)
  BY <1>1 DEF TokensOf
<1>6. TypeOK'
  <2>1. tokens' \subseteq [user : users', device : Device]
    BY <1>1, <1>2 DEF TokensOf
  <2>2. profiles' \subseteq [user : users', name : Name,
                             avatar : Avatar \cup {NoAvatar}]
    BY <1>1, <1>2 DEF ProfileOf
  <2>3. \A q \in Request : \A t \in req'[q].rows :
          t \in tokens' /\ t.user = req'[q].user
    BY <1>1, <1>2, <1>3 DEF TokensOf
  <2>4. written' \in [User -> [name : Name \cup {NoName},
                               avatar : Avatar \cup {NoAvatar}]]
    BY <1>1, <1>2 DEF NotWritten
  <2>5. /\ address' \in [User -> Address \cup {NoAddress}]
        /\ \A v \in User : v \in users' <=> address'[v] # NoAddress
    BY <1>1, <1>2
  <2>6. device' \in [User -> Device \cup {NoDevice, Unsettled}]
    BY <1>1, <1>2
  <2>7. QED BY <1>1, <1>2, <1>4, <2>1, <2>2, <2>3, <2>4, <2>5, <2>6
            DEF TypeOK, TokensOf
<1>7. OneHolder'
  <2>1. \A v \in users' : v \in users /\ address'[v] = address[v]
    BY <1>1, <1>2
  <2>2. QED BY <1>1, <2>1 DEF IInv, OneHolder
<1>8. ColumnsKept'
  <2>1. \A p \in profiles' : /\ p \in profiles /\ p.user \in User
                             /\ written'[p.user] = written[p.user]
    BY <1>1, <1>2 DEF ProfileOf
  <2>2. QED BY <2>1 DEF IInv, ColumnsKept
<1>9. CallInv'
  <2> SUFFICES ASSUME NEW q \in Request PROVE CallOK(req'[q])
    BY DEF CallInv
  <2>1. CallOK(req[q])
    BY DEF IInv, DeviceInv, CallInv
  <2>2. req[q].pc \notin {"delete", "put"} => req'[q].rows = {}
    BY <1>3, <2>1 DEF CallOK
  <2>3. QED BY <1>3, <2>1, <2>2 DEF CallOK
<1>10. AloneInv'
  <2> SUFFICES ASSUME NEW q \in Request, req'[q].pc \in {"delete", "put"},
                      req'[q].alone
               PROVE  /\ \A t : t \in req'[q].rows <=>
                                t \in tokens' /\ t.user = req'[q].user
                      /\ \A p \in Request :
                           (/\ req'[p].user = req'[q].user
                            /\ req'[p].op \in {"registerToken", "removeToken"})
                           => p = q
    BY DEF AloneInv, AloneOK, TokensOf, DeviceCalls
  <2>1. /\ req[q].rows = TokensOf(req[q].user)
        /\ \A p \in DeviceCalls(req[q].user) : p = q
    BY <1>3 DEF IInv, DeviceInv, AloneInv, AloneOK
  <2>2. \A t : t \in req'[q].rows <=> t \in tokens' /\ t.user = req'[q].user
    BY <1>1, <1>3, <2>1 DEF TokensOf
  <2>3. QED BY <1>3, <2>1, <2>2 DEF DeviceCalls
<1>11. GoneInv' /\ LastDeviceHolds'
  <2>1. \A v \in User : device'[v] = IF v = u THEN NoDevice ELSE device[v]
    BY <1>1, <1>2
  <2>2. GoneInv'
    BY <1>1, <2>1 DEF IInv, DeviceInv, GoneInv
  <2>3. LastDeviceHolds'
    <3> SUFFICES ASSUME NEW v \in users', device'[v] # Unsettled
                 PROVE  {t.device : t \in {x \in tokens' : x.user = v}}
                          = {device'[v]} \ {NoDevice}
      BY DEF LastDeviceHolds, TokensOf
    <3>1. v \in users /\ v # u /\ device'[v] = device[v]
      BY <1>1, <1>2, <2>1
    <3>2. {x \in tokens' : x.user = v} = TokensOf(v)
      BY <1>1, <3>1 DEF TokensOf
    <3>3. QED BY <3>1, <3>2 DEF IInv, DeviceInv, LastDeviceHolds
  <2>4. QED BY <2>2, <2>3
<1>12. QED BY <1>6, <1>7, <1>8, <1>9, <1>10, <1>11 DEF IInv, DeviceInv

-----------------------------------------------------------------------------
LEMMA Stuttering == IInv /\ UNCHANGED vars => IInv'
<1> SUFFICES ASSUME IInv, UNCHANGED vars PROVE IInv'
  OBVIOUS
<1>1. UNCHANGED <<users, fresh, address, profiles, tokens, req, written, device>>
  BY DEF vars
<1>2. TypeOK'
  BY <1>1 DEF IInv, TypeOK, TokensOf
<1>3. OneHolder' /\ ColumnsKept' /\ CallInv' /\ GoneInv' /\ LastDeviceHolds'
  BY <1>1 DEF IInv, OneHolder, ColumnsKept, DeviceInv, CallInv, GoneInv,
              LastDeviceHolds, TokensOf
<1>4. AloneInv'
  BY <1>1 DEF IInv, DeviceInv, AloneInv, AloneOK, TokensOf, DeviceCalls
<1>5. QED BY <1>2, <1>3, <1>4 DEF IInv, DeviceInv

LEMMA Inductive == IInv /\ [Next]_vars => IInv'
<1> SUFFICES ASSUME IInv, Next PROVE IInv'
  BY Stuttering
<1>1. CASE \E u \in User, a \in Address : Register(u, a)
  BY <1>1, RegisterStep
<1>2. ASSUME NEW r \in Request, NEW u \in User, Arrive(r, u) PROVE IInv'
  <2>1. CASE \E a \in Address : FindAddress(r, u, a)
    BY <2>1, FindAddressStep
  <2>2. CASE \E op \in {"createProfile", "updateProfile"}, n \in Name :
               FindProfile(r, u, op, n, NoAvatar)
    BY <2>2, FindProfileStep
  <2>3. CASE \E v \in Avatar : FindProfile(r, u, "uploadAvatar", NoName, v)
    BY <2>3, FindProfileStep
  <2>4. CASE \E d \in Device : FindTokens(r, u, "registerToken", d)
    BY <2>4, FindTokensStep
  <2>5. CASE FindTokens(r, u, "removeToken", NoDevice)
    BY <2>5, FindTokensStep
  <2>6. QED BY <1>2, <2>1, <2>2, <2>3, <2>4, <2>5 DEF Arrive
<1>3. ASSUME NEW r \in Request, Serve(r) \/ Fail(r) PROVE IInv'
  <2>1. CASE UpdateUser(r)
    BY <2>1, UpdateUserStep
  <2>2. CASE CreateProfile(r)
    BY <2>2, CreateProfileStep
  <2>3. CASE Upload(r)
    BY <2>3, UploadStep
  <2>4. CASE UpdateProfile(r)
    BY <2>4, UpdateProfileStep
  <2>5. CASE DeleteTokens(r)
    BY <2>5, DeleteTokensStep
  <2>6. CASE CreateToken(r)
    BY <2>6, CreateTokenStep
  <2>7. CASE BreakDeadlock(r) \/ Fail(r)
    BY <2>7, EndOfCall DEF BreakDeadlock, Fail, Answer
  <2>8. QED BY <1>3, <2>1, <2>2, <2>3, <2>4, <2>5, <2>6, <2>7 DEF Serve
<1>4. CASE \E u \in User : DeleteAccount(u)
  BY <1>4, DeleteAccountStep
<1>5. QED BY <1>1, <1>2, <1>3, <1>4 DEF Next

LEMMA Invariant == Spec => []IInv
BY Initially, Inductive, PTL DEF Spec

-----------------------------------------------------------------------------
\* Rows belong to users who exist, also those that a delete has found, and
\* slots hold calls.
THEOREM TypeCorrect == Spec => []TypeOK
<1>1. IInv => TypeOK
  BY DEF IInv
<1>2. QED BY <1>1, Invariant, PTL

\* The keys of email, userId and token make up for the lookups of updateUser,
\* createProfile and registerToken, whatever is written in between.
THEOREM NothingShared == Spec => []OneHolder
<1>1. IInv => OneHolder
  BY DEF IInv
<1>2. QED BY <1>1, Invariant, PTL

\* updateProfile and uploadAvatar never undo each other.
THEOREM BothColumnsKept == Spec => []ColumnsKept
<1>1. IInv => ColumnsKept
  BY DEF IInv
<1>2. QED BY <1>1, Invariant, PTL

\* A user whose last registerToken or removeToken overlapped no other one of
\* his has this device or none, whatever other users register meanwhile.
THEOREM LastDevice == Spec => []LastDeviceHolds
<1>1. IInv => LastDeviceHolds
  BY DEF IInv, DeviceInv
<1>2. QED BY <1>1, Invariant, PTL

\* A registerToken or removeToken that overlaps no other one of its user waits
\* for somebody else's transaction only, and the key of somebody else's token
\* is the only one that can refuse it.
THEOREM OnlyOthersRefuse == Spec => []RefusedByOthersOnly
<1>1. IInv => RefusedByOthersOnly
  <2> SUFFICES ASSUME IInv, NEW r \in Request,
                      req[r].pc \in {"delete", "put"}, req[r].alone
               PROVE  /\ \A q \in Request :
                           WaitsFor(r, q) => req[q].user # req[r].user
                      /\ req[r].pc = "put" =>
                           \A t \in TokensOf(req[r].user) \ req[r].rows :
                               t.device # req[r].device
    BY DEF RefusedByOthersOnly
  <2>1. req[r].rows = TokensOf(req[r].user)
    BY DEF IInv, DeviceInv, AloneInv, AloneOK
  <2>2. ASSUME NEW q \in Request, WaitsFor(r, q)
        PROVE  req[q].user # req[r].user
    <3>1. q # r /\ req[q].pc = "put"
      BY <2>2 DEF WaitsFor, Held
    <3>2. QED BY <3>1, Apart
  <2>3. QED BY <2>1, <2>2
<1>2. QED BY <1>1, Invariant, PTL
=============================================================================
