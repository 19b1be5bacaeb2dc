CONSTANTS
    Ids = {i1, i2, i3}
    NoId = NoId
    MaxPending = 2
    MaxSent = 4
SPECIFICATION Spec
INVARIANTS MapIsBounded EveryEntryIsAwaited  OneFate
SYMMETRY Symmetry
CHECK_DEADLOCK FALSE
