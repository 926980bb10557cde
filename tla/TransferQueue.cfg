CONSTANTS
    u1 = u1
    u2 = u2
    Urbs <- MCUrbs
    Kinds = {"in", "out", "control"}
    Modes = {"calm", "pieces", "disturbed"}
    MaxSubmits = 2
    MaxTroubles <- MCMaxTroubles
SPECIFICATION FairSpec
INVARIANTS
    OwnCompletion
    SuccessIsReal
    NoStuckRequest
    PartIsNoSuccess
PROPERTIES
    CancelEnds
    EveryUrbGivenBack
\* The endpoint has nothing to do.
CHECK_DEADLOCK FALSE
