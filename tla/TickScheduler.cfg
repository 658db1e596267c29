CONSTANTS
    c1 = c1
    c2 = c2
    Callers <- MCCallers
    Delays = {0, 1}
    MaxTimers = 2
    MaxTime = 2
    TickInterval = 1
SPECIFICATION FairSchedulerSpec
INVARIANTS FiresOnceWhenDue FifoAcrossCallers CancelInTime TicksNotEarly
PROPERTIES TickFiresDue StopEndsLoop
CHECK_DEADLOCK FALSE
