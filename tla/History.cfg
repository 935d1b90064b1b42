\* Two sockets, two handlers in flight, two messages, pages of one message.
SPECIFICATION HistorySpec
CONSTANTS
    ana = ana
    ben = ben
    cleo = cleo
    s1 = s1
    s2 = s2
    r1 = r1
    r2 = r2
    User = {ana, ben, cleo}
    Socket = {s1, s2}
    Request = {r1, r2}
    Owner <- SocketOwner
    NoUser = NoUser
    NoSocket = NoSocket
    NoMessage = NoMessage
    MaxMessages = 2
    MaxTime = 2
    Limit = 1
    Client = {s1}
SYMMETRY SlotSymmetry
INVARIANTS
    HistoryTypeOK
    RoomOfMembers
    RoomAsAsked
    HistoryComplete
    NothingMissed
