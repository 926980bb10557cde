CONSTANTS
    q1 = q1
    q2 = q2
    p1 = p1
    NoData = NoData
    NoEntry = NoEntry
    SQs = {q1, q2}
    Payloads = {p1}
    ElCount = 3
    CqCount = 2
SPECIFICATION FairSpec
INVARIANTS
    IndexMatch
PROPERTIES
    EveryCompletionHandled
    ImplementsPool
