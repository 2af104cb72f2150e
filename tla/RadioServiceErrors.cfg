CONSTANTS
    VendorThreads = {v1}
    Binder = binder
    NULL = NULL
    MaxClients = 2
    MaxNitz = 1
SPECIFICATION Spec
INVARIANT CallerHoldsLock
CHECK_DEADLOCK FALSE
