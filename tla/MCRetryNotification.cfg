SPECIFICATION FairSpec
CONSTANTS
    Nodes = {n1, n2}
    Routines = {1, 2}
    Values <- MCValues
    Policies = 2
    MaxPuts = 2
    MaxFaults = 1
INVARIANTS
    OneHandlerPerValue
PROPERTIES
    OnlyHolderUnlocks
    PutIsHandled
CHECK_DEADLOCK FALSE
