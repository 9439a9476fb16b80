SPECIFICATION MCSpec
CONSTANTS
    Frames <- MCFrames
    MaxProcessed = 2
    Cap = 1
    MsgCap = 2
INVARIANTS
    ArrivalOrder
    AnsweredOnce
PROPERTIES
    OnlyCheckedRepliesPanic
    ReceiverStopReturns
    GoroutinesEnd
