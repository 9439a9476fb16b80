SPECIFICATION Spec
CONSTANTS
    c1 = c1
    c2 = c2
    x = x
    y = y
    t1 = t1
    t2 = t2
    Calls = {c1, c2}
    Retries = 2
    HasBody = {c2}
    Tokens = {t1, t2}
    TokenOf <- MCTokenOf
    Fields = {x, y}
    Body <- MCBody
    Invalid = {c2}
    Stoppers = {"g"}
    Forever = {"f"}
    MaxStops = 1
    Modes = {"Startup", "StartWithGracefulShutdown"}
    None = None
INVARIANTS
    NilMeansDrained
    AloneGetsOwn
CHECK_DEADLOCK FALSE
