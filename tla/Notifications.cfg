SPECIFICATION MCSpec
CONSTANTS
    a1 = a1
    a2 = a2
    AlertIds = {a1, a2}
    Channels = {1, 2}
    Kind <- MCKind
    Options <- OnlyOn
    RetryWaits <- OneWait
    Batch = 2
    MaxRows = 4
    None = None
SYMMETRY AlertSymmetry
CHECK_DEADLOCK FALSE
INVARIANTS
    OneMessage
    ResolutionFollows
PROPERTY
    InOrder
