\* Three users, one call at a time, two rows ever created.
SPECIFICATION Spec
CONSTANTS
    ana = ana
    ben = ben
    cleo = cleo
    r1 = r1
    r2 = r2
    User = {ana, ben, cleo}
    Request = {r1}
    NoUser = NoUser
    NoRow = NoRow
    MaxRows = 2
SYMMETRY UserSlotSymmetry
INVARIANTS
    OneFriendshipPerPair
    ErrorsNeedDeparture
PROPERTIES
    AcceptOnlyPending
    RefinesFriendGraph
