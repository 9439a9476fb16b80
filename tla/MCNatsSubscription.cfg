SPECIFICATION MCSpec
CONSTANTS
    s1 = s1
    s2 = s2
    s3 = s3
    m1 = m1
    m2 = m2
    m3 = m3
    x = x
    y = y
    Subs = {s1, s2, s3}
    Msgs = {m1, m2, m3}
    StreamMsgs = {m1, m2}
    Subjects = {x, y}
    FetchMax = 2
    ChanCap = 1
    SubjectOfSub <- SubjectOfSubs
    SubjectOf <- SubjectOfMsgs
INVARIANTS
    AckedWasHandled
    OnceIfTimely
    OnlyHalfStopsStick
PROPERTIES
    StoredIsHandled
    GivenIsHandled
CHECK_DEADLOCK FALSE
