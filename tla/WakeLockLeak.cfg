CONSTANTS
    Threads = {v1}
    Timers = {t1, t2, t3}
    NULL = NULL
    CallocFails = TRUE
    MaxInside = 2
    MaxCount = 3
SPECIFICATION Spec
INVARIANT ReleaseComing
