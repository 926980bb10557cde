CONSTANTS
    c1 = c1
    c2 = c2
    x1 = x1
    x2 = x2
    Nobody = Nobody
    NoCmd = NoCmd
    Callers = {c1, c2}
    Cmds = {x1, x2}
    MaxCalls = 1
    Slots = 3
    Late = {FALSE, TRUE}
SPECIFICATION FairSpec
INVARIANTS
    SuccessIsReal
    NoDanglingResult
PROPERTY EveryCallReturns
\* The callers have issued all their commands and the queue is gone.
CHECK_DEADLOCK FALSE
