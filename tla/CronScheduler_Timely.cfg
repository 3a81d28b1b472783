SPECIFICATION FairCronSpec
CONSTANTS
    Name = {"report"}
    Version = {v1, v2}
    Slot = {t1, t2}
    NoName = "none"
    PollInterval = 1
    Period = 2
    MaxSpan = 1
    Timely = TRUE
    MaxTime = 6
    MaxAborts = 1
INVARIANTS CronTypeOK FiredOnce
PROPERTY DueIsFired
CHECK_DEADLOCK FALSE
