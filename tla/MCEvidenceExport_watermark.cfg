SPECIFICATION Spec
CONSTANTS
    a1 = a1
    a2 = a2
    e1 = e1
    e2 = e2
    Invocations = {a1, a2}
    Events = {e1, e2}
    EventTime <- MCEventTime
    Alarms = {2, 3}
    IndexDelay = 1
    Lookback = 1
    Overlap = 1
    MaximumWindow = 2
    MaxRows = 2
    MaxBatchEvents = 1
    MaxAttempts = 2
    MaxSaves = 2
    Lease = 2
    FunctionTimeout = 1
    MaxTime = 6
PROPERTIES CheckpointNeverRegresses
CHECK_DEADLOCK FALSE
