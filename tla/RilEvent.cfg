CONSTANTS
    Requesters = {r1, r2}
    Timers = {t1, t2}
    Wake = wake
    None = none
    MaxDelay = 2
    PipeCap = 1
    Faults <- AllFaults
SPECIFICATION FairSpec
INVARIANTS OnePlace NoLostWakeup NeverEarly
PROPERTIES ImplementsTimerService EveryTimerFires WriterReturns
CHECK_DEADLOCK FALSE
