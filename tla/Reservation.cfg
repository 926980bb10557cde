CONSTANTS
    c1 = c1
    c2 = c2
    h1 = h1
    Callers <- MCCallers
    IrqCallers <- MCIrqCallers
    Capacity = 1
    MaxCalls = 2
SPECIFICATION ReserveFairSpec
INVARIANTS
    TokenCover
PROPERTIES
    EveryCallReturns
    ImplementsPool
\* Every caller has used up its calls and nothing is in flight.
CHECK_DEADLOCK FALSE
