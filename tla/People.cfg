SPECIFICATION MCSpec
CONSTANTS
    Cases = {"team", "sessions"}
    p1 = p1 p2 = p2 p3 = p3
    People = {p1, p2, p3}
    r1 = r1 r2 = r2
    Requests = {r1, r2}
    i1 = i1
    Invitations = {i1}
    RolesGiven = {"admin", "viewer"}
    CustomHolds <- Tailor
    q1 = q1
    Persons = {q1}
    a = a b = b
    Companies = {a, b}
    Week = 2
    MaxSessions = 3
    MaxNow = 2
SYMMETRY Symmetry
INVARIANTS TypesOK AlwaysAnOwner SendersStay
PROPERTIES OnlyHandedOver OnlyOwnersTouchThem SignInsEnd
