SPECIFICATION FairSpec
CONSTANTS
    Configs <- MCConfigs
    Starters = {t1}
    Runners = {r1}
    Closers = {k1}
    MaxReconnects = 2
INVARIANTS
    ClosedMeansAll
    ReconnectNotLost
PROPERTIES
    CloseAllReturns
CHECK_DEADLOCK FALSE
