SPECIFICATION PoolSpec
CONSTANTS
    JobId = {1}
    StrayId = {}
    IdemKey = {}
    NoKey = "none"
    Time = {11, 12, 13, 14, 15, 16}
    Priority = {"normal"}
    Attempts = {2}
    LimitMax = 0
    LimitDuration = 0
    StallTimeout = 2
    Retention = 20
    Cleanup <- KeepYoung
    MaxFails = 3
    Worker = {w1, w2}
    Epoch = 11
    MaxTime = 15
    Delay = {0}
    HeartbeatInterval = 1
    DrainTimeout = 1
    BackoffType = "fixed"
    BackoffDelay = 1
    MaxDeaths = 0
    Ops = {}
    Timely = TRUE
    Recoverable = TRUE
    Nobody = nobody
PROPERTY BackoffIsHonoured
CHECK_DEADLOCK FALSE
