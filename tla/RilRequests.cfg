CONSTANTS
    Serials = {s1, s2, s3}
    Addrs = {a1, a2, a3}
    VendorThreads = {v1, v2}
    Binder = binder
    NULL = NULL
    ManualSelection = {s1}
    MarshalFails = TRUE
    VendorAnswersAll = FALSE
SPECIFICATION FairSpec
INVARIANTS AnswersItsOwn AcksItsOwn NoRequestForgotten
PROPERTIES ImplementsRequestService EveryRequestAnswered
CHECK_DEADLOCK FALSE
