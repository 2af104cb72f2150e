CONSTANTS
    Threads = {v1, v2, b}
    Timers = {t1, t2, t3}
    NULL = NULL
    CallocFails = TRUE
    MaxInside = 2
    MaxCount = 3
SPECIFICATION FairSpec
INVARIANTS LockHasRelease CountMatchesLock LastIsLive
PROPERTIES WakeLockReleased LostOnlyByLateCancel
