SPECIFICATION DashSpec
CONSTANTS
    Queue = {"emails", "reports"}
    Home <- OneJobEach
    FirstQueue = "emails"
    NoQueue = "none"
    Filter = {"waiting", "failed"}
    NReads = 2
    NAsks = 2
    MaxClicks = 2
    MaxVersion = 1
    MaxErrors = 1
    Busy = {"emails"}
INVARIANTS DashTypeOK NoStrayJobs
PROPERTY ViewConverges
CHECK_DEADLOCK FALSE
