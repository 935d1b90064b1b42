\* Three users, two calls in flight that may fail, two chats, one message.
SPECIFICATION Spec
CONSTANTS
    ana = ana
    ben = ben
    cleo = cleo
    r1 = r1
    r2 = r2
    User = {ana, ben, cleo}
    Request = {r1, r2}
    NoUser = NoUser
    NoMatch = NoMatch
    NoChat = NoChat
    NoMessage = NoMessage
    MaxChats = 2
    MaxMessages = 1
SYMMETRY UserSlotSymmetry
INVARIANTS
    TypeOK
    MembersAreMatch
    AuthorsAreMembers
    OpenIsStable
    EventsToRecipient
    CheckOutlivesUpload
    MessageDelivered
