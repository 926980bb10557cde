SPECIFICATION FairSpec
CONSTANTS
  None = None
  MsgQueues = 1
  EvQueues = 2
  MaxId = 7
  MaxMishaps = 1
  Threads <- MCThreads
  Queues <- AllQueues
  Qids <- MCQids
INVARIANT LiveIsRegistered
INVARIANT DestroyedOnce
INVARIANT CqOutlivesSq
INVARIANT CleanFailure
INVARIANT RegistersMapped
CHECK_DEADLOCK FALSE
PROPERTY RemovalEnds
PROPERTY ImplementsRegistry
