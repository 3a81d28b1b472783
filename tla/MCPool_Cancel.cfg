SPECIFICATION PoolSpec
CONSTANTS
    JobId = {1}
    StrayId = {}
    IdemKey = {}
    NoKey = "none"
    Time = {11, 12, 13, 14, 15, 16}
    Priority = {"normal"}
    Attempts = {2}
    LimitMax = 0
    LimitDuration = 0
    StallTimeout = 2
    Retention = 20
    Cleanup <- KeepYoung
    MaxFails = 2
    Worker = {w1, w2}
    Epoch = 11
    MaxTime = 14
    Delay = {0, 1}
    HeartbeatInterval = 1
    DrainTimeout = 1
    BackoffType = "fixed"
    BackoffDelay = 1
    MaxDeaths = 1
    Ops = {"cancel", "cleanup", "postError"}
    Timely = TRUE
    Recoverable = FALSE
    Nobody = nobody
INVARIANT OneRunner
CHECK_DEADLOCK FALSE
SYMMETRY AnyWorker
