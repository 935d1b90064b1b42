\* An accept in flight overwrites a block.
SPECIFICATION Spec
CONSTANTS
    ana = ana
    ben = ben
    cleo = cleo
    r1 = r1
    r2 = r2
    User = {ana, ben, cleo}
    Request = {r1, r2}
    NoUser = NoUser
    NoRow = NoRow
    MaxRows = 2
SYMMETRY UserSlotSymmetry
PROPERTIES
    AcceptOnlyPending
