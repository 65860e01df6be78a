SPECIFICATION Spec
CONSTANTS
    e1 = e1
    e2 = e2
    Events = {e1, e2}
    Sinks = {"response"}
    MaxAttempts = 2
    MaxPolls = 2
    Timeout = 2
    MaxTime = 3
INVARIANTS OutageIsRetried
CHECK_DEADLOCK FALSE
