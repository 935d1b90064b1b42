\* Two calls in flight, two registrations, two codes.
SPECIFICATION Spec
CONSTANTS
    r1 = r1
    r2 = r2
    p1 = p1
    p2 = p2
    Request = {r1, r2}
    Password = {p1}
    MaxAttempts = 1
    MaxAccounts = 2
    MaxCodes = 2
    MaxUncounted = 1
    NoAccount = NoAccount
    NoPassword = NoPassword
SYMMETRY Symmetry
INVARIANTS
    TypeOK
    OwnDataOnly
    AttemptsBounded
    CodesRunOut
    LastMailWorks
