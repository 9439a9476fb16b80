SPECIFICATION MCSpec
CONSTANTS
    w1 = w1
    s1 = s1
    u1 = u1
    b1 = b1
    d1 = d1
    x = x
    y = y
    Warps = {w1}
    Wrappers = {s1}
    N = 2
    M = 2
    Sharers = {g1, g2}
    Keys = {x, y}
    KeyOf <- MCKeyOf
    Upserters = {u1}
    ById = {b1}
    Deleters = {d1}
    Batch <- MCBatch
    Unique = {x}
    Old = Old
INVARIANTS
    AllOrNothing
    ResultIsTrue
    NothingLeftOpen
    OnlyRacesDouble
    EntityAtomic
CHECK_DEADLOCK FALSE
