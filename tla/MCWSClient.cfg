SPECIFICATION FairSpec
CONSTANTS
    Frames = {f1, f2, f3}
    SendCap = 1
INVARIANTS
    LossIsNoticed
PROPERTIES
    CloseEndsAll
    PeerLossEndsPumps
CHECK_DEADLOCK FALSE
