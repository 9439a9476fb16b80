SPECIFICATION ManagerFairSpec
CONSTANTS
    c1 = c1
    c2 = c2
    s1 = s1
    s2 = s2
    u1 = u1
    u2 = u2
    Sessions = {s1, s2}
    Users = {u1, u2}
    NoClient = NoClient
    Loop = Loop
    Clients = {c1, c2}
    SessionOf <- OneSession
    UserOf <- OwnUsers
    Cap = 1
    Admins = {a1}
    MaxBroadcasts = 1
INVARIANTS
    OnlyTouchedPanic
    ClosedIsOnItsWayOut
PROPERTIES
    ClosedMeansGone
CHECK_DEADLOCK FALSE
