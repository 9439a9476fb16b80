SPECIFICATION ProcessSpec
CONSTANTS
    Callers = {c1, c2, c3}
    Keys = {global, other}
    Global = global
    Settings <- MCSettings
    MaxCalls = 5
    Nil = Nil
    Broken = Broken
    Raced = Raced
    Users = {u1, u2, u3}
    MaxContexts = 3
    MaxHups = 3
    MaxTerms = 2
    workerBits = 2
    numberBits = 1
    timeBits = 2
    epoch = 2
    unit = 2
    Workers = {1, 2}
    MaxTime = 5
    MaxIds = 4
INVARIANTS
    LastInitCounts
    StoppedMeansCancelled
    FittingIdsUnique
PROPERTIES
    SignalsArrive
CHECK_DEADLOCK FALSE
