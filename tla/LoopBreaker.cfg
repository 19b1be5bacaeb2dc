CONSTANTS
    Calls = {c1, c2, c3}
    Limit = 2
    Window = 3
    Cap = 2
    MaxTime = 6
    MaxTouches = 7
SPECIFICATION Spec
INVARIANTS TypeOK BoundedMemory LoopIsHeld OnlyLoopsTrip
PROPERTIES PromiseIsExact ForgottenOnlyInAFlood
SYMMETRY Symmetry
CHECK_DEADLOCK FALSE
