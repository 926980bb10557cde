CONSTANTS
    c1 = c1
    c2 = c2
    c3 = c3
    NoData = NoData
    NoEntry = NoEntry
    Nobody = Nobody
    Handler = Handler
    Cmdq = Cmdq
    SQs = {Cmdq}
    Callers <- MCCallers
    Payloads <- MCPayloads
    MaxCalls = 2
    ElCount = 3
    CqCount = 2
SPECIFICATION CmdFairSpec
INVARIANTS
    OwnResult
    NoDanglingResult
PROPERTIES
    AnsweredCallReturns
    ImplementsFifo
\* The callers have issued all their commands.
CHECK_DEADLOCK FALSE
