SPECIFICATION ProcessSpec
CONSTANTS
    Worker = {w1, w2}
    HasServer = TRUE
    MaxRetries = 2
    MaxOutages = 1
    MaxSignals = 2
INVARIANTS ProcessTypeOK CleanExit
PROPERTIES ShutdownEnds ServesAfterOutage
CHECK_DEADLOCK FALSE
