SPECIFICATION FairSpec
CONSTANTS
    Calls = {c1, c2, c3, c4}
    Cap = 2
INVARIANTS
    Conservation
PROPERTIES
    ImplementsOutboundQueue
    StopReturns
    AcceptedIsWritten
