SPECIFICATION TrySpec
CONSTANTS
    e1 = e1
    e2 = e2
    e3 = e3
    Errors = {e1, e2, e3}
    Plain = {p1}
    Wraps <- MCWraps
    NoError = NoError
    MaxHandlers = 4
    MaxRuns = 2
INVARIANTS
    RanExactly
CHECK_DEADLOCK FALSE
