CONSTANTS
    VendorThreads = {v1}
    Binder = binder
    NULL = NULL
    MaxClients = 2
    MaxNitz = 2
SPECIFICATION FairSpec
INVARIANTS LiveClientConnected LockNeverShort NitzDeliveredOnce NitzNeverAhead
PROPERTY Settles
CHECK_DEADLOCK FALSE
