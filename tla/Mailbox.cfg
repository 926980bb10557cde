CONSTANTS
    NoReply = NoReply
    MaxBinds = 3
    LateProbes = {2, 3}
SPECIFICATION Spec
INVARIANTS
    OwnReply
    BoundMeansRegistered
\* After the last probe the system stops.
CHECK_DEADLOCK FALSE
