CONSTANTS
    NoSlot = NoSlot
    ElCount = 4
    Pending = 2
    Cancels = {TRUE}
    MaxEvents = 3
SPECIFICATION EventSpec
INVARIANT SlotPerCompletion
\* The firmware has sent all its events.
CHECK_DEADLOCK FALSE
