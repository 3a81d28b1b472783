SPECIFICATION AddSpec
CONSTANTS
    JobId = {1}
    StrayId = {}
    IdemKey = {"k"}
    NoKey = "none"
    Time = {20, 22}
    Priority = {"normal"}
    Attempts = {2}
    LimitMax = 0
    LimitDuration = 0
    StallTimeout = 1
    Retention = 1
    Cleanup <- KeepYoung
    MaxFails = 2
    Producer = {p1}
    NoJob = 0
    Unstored = 9
    Admin = {a1, a2}
    MaxAge = 1
    MaxResets = 1
INVARIANTS AdminTypeOK RetryKeepsJobs NoEarlyFailure AnswersTheOriginal
CHECK_DEADLOCK FALSE
SYMMETRY AnyAdmin
