CONSTANTS
    c1 = c1
    c2 = c2
    Callers <- MCCallers
    Handler = Handler
    Nobody = Nobody
    Bufs = 2
    Tags = 2
    MaxCalls = 3
    MaxAsks = 1
SPECIFICATION FairSpec
INVARIANTS
    OwnReply
    BufferIntact
    NoDanglingEntry
PROPERTY EveryCallReturns
\* All the calls are made and the device may stay silent.
CHECK_DEADLOCK FALSE
