\* One call at a time, two registrations, three codes.
SPECIFICATION Spec
CONSTANTS
    r1 = r1
    r2 = r2
    p1 = p1
    p2 = p2
    Request = {r1}
    Password = {p1, p2}
    MaxAttempts = 2
    MaxAccounts = 2
    MaxCodes = 3
    MaxUncounted = 0
    NoAccount = NoAccount
    NoPassword = NoPassword
SYMMETRY Symmetry
INVARIANTS
    SessionsEnd
PROPERTIES
    ChangeNeedsCurrent
