CONSTANTS
    c1 = c1
    c2 = c2
    Callers <- MCCallers
    Delays = {0, 1}
    MaxTimers = 1
    MaxTime = 2
SPECIFICATION TimerSpec
INVARIANT CancelledNeverFires
