CONSTANTS
    NoSlot = NoSlot
    ElCount = 4
    Pending = 2
    Cancels = {FALSE, TRUE}
    MaxEvents = 6
SPECIFICATION FairSpec
INVARIANTS
    RightMessage
PROPERTY EveryEventTaken
\* The firmware has sent all its events.
CHECK_DEADLOCK FALSE
