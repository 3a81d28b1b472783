SPECIFICATION AddSpec
CONSTANTS
    JobId = {1, 2}
    StrayId = {3}
    IdemKey = {}
    NoKey = "none"
    Time = {20, 22}
    Priority = {"normal"}
    Attempts = {1, 2}
    LimitMax = 1
    LimitDuration = 1
    StallTimeout = 1
    Retention = 1
    Cleanup = {}
    MaxFails = 1
    Producer = {p1}
    NoJob = 0
    Unstored = 9
    Admin = {}
    MaxAge = 1
    MaxResets = 0
INVARIANTS StoreTypeOK NoJobLost DelayedIsolated LimiterBound
PROPERTY CancelPreventsStart
CHECK_DEADLOCK FALSE
