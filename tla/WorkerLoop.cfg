SPECIFICATION LoopSpec
CONSTANTS
    NQueues = 2
    Concurrency = 1
    Pausable = {0}
    RateLimit = TRUE
    MaxQueued = 1
    MaxAdds = 2
    MaxStarts = 2
    MaxErrors = 1
    StatusLife = 1
INVARIANTS LoopTypeOK PauseHolds StopHolds RunningIsListed
PROPERTIES QueuesAreServed StoppedIsForgotten
CHECK_DEADLOCK FALSE
