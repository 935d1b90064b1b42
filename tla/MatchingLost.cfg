\* One failure between the insert of a LIKE and the insert of the match.
SPECIFICATION Spec
CONSTANTS
    r1 = r1
    r2 = r2
    User = {1, 2}
    Request = {r1, r2}
    NoUser = NoUser
    MaxFailures = 1
SYMMETRY SlotSymmetry
INVARIANTS
    LikesAlwaysMatch
