CONSTANTS
    Cap = 1
    MaxLines = 2
    Duplex = FALSE
SPECIFICATION FairSpec
PROPERTY LoopEnds
CHECK_DEADLOCK FALSE
