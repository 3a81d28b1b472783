SPECIFICATION DashSpec
CONSTANTS
    Queue = {"emails", "reports"}
    Home <- OneJobEach
    FirstQueue = "emails"
    NoQueue = "none"
    Filter = {"waiting", "failed"}
    NReads = 2
    NAsks = 2
    MaxClicks = 2
    MaxVersion = 1
    MaxErrors = 1
    Busy = {"emails"}
INVARIANT ClearCancelsNothing
CHECK_DEADLOCK FALSE
