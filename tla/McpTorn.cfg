CONSTANTS
    Cap = 1
    MaxLines = 2
    Duplex = TRUE
SPECIFICATION Spec
INVARIANT LinesArriveWhole
CHECK_DEADLOCK FALSE
