\* Two users, two addresses, three devices, two calls in flight.
SPECIFICATION Spec
CONSTANTS
    ana = ana
    ben = ben
    a1 = a1
    a2 = a2
    d1 = d1
    d2 = d2
    d3 = d3
    n1 = n1
    n2 = n2
    v1 = v1
    r1 = r1
    r2 = r2
    User = {ana, ben}
    Address = {a1, a2}
    Device = {d1, d2, d3}
    Name = {n1, n2}
    Avatar = {v1}
    Request = {r1, r2}
    NoUser = NoUser
    NoAddress = NoAddress
    NoDevice = NoDevice
    NoName = NoName
    NoAvatar = NoAvatar
    Unsettled = Unsettled
SYMMETRY Symmetry
INVARIANTS
    TypeOK
    OneHolder
    ColumnsKept
    LastDeviceHolds
    RefusedByOthersOnly
