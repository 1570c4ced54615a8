SPECIFICATION HubSpec
CONSTANTS
    None = None
    q1 = q1
    q2 = q2
    q3 = q3
    i1 = i1
    i2 = i2
    Requests = {q1, q2, q3}
    Addresses = {i1, i2}
    addr <- MCAddr
    RoomIds = {r1, r2}
    Actors = {a1, a2, a3}
    MaxRooms = 1
    MaxPerIP = 1
    ConnectionBurst = 1
    CreateBurst = 1
SYMMETRY MCSymmetry
INVARIANTS
    HubTypeOK
    RoomsWithinLimit
    OpenIsListed
    ConnectionsCounted
    PerAddressCap
