\* Two opens of one match at once.
SPECIFICATION Spec
CONSTANTS
    ana = ana
    ben = ben
    cleo = cleo
    r1 = r1
    r2 = r2
    User = {ana, ben}
    Request = {r1, r2}
    NoUser = NoUser
    NoMatch = NoMatch
    NoChat = NoChat
    NoMessage = NoMessage
    MaxChats = 1
    MaxMessages = 1
SYMMETRY UserSlotSymmetry
PROPERTIES
    OpenNeverFails
