CONSTANTS
    Launcher = launcher
    Helpers = {h1}
    Cap = 1
    MaxLines = 2
    Duplex = TRUE
SPECIFICATION SessionSpec
INVARIANTS LinesNeverInterleave NothingLeftUnrelayed NothingLeftRunning 
PROPERTIES KilledOnlyAfterTheGrace SessionEnds
CHECK_DEADLOCK FALSE
