SPECIFICATION FairPoolSpec
CONSTANTS
    JobId = {1, 2}
    StrayId = {}
    IdemKey = {}
    NoKey = "none"
    Time = {11, 12, 13, 14, 15, 16}
    Priority = {"normal"}
    Attempts = {2}
    LimitMax = 0
    LimitDuration = 0
    StallTimeout = 2
    Retention = 20
    Cleanup <- KeepLast
    MaxFails = 3
    Worker = {w1, w2}
    Epoch = 11
    MaxTime = 15
    Delay = {1}
    HeartbeatInterval = 1
    DrainTimeout = 1
    BackoffType = "fixed"
    BackoffDelay = 1
    MaxDeaths = 1
    Ops = {"cleanup"}
    Timely = TRUE
    Recoverable = TRUE
    Nobody = nobody
INVARIANTS PoolTypeOK OnePlace LiveJobsKept
PROPERTIES KeepsContract EventuallySettled
CHECK_DEADLOCK FALSE
