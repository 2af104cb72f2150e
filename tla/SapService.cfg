CONSTANTS
    MaxClients = 2
    Ids = {connect}
    Tokens = {t1, t2}
    Addrs = {a1, a2}
    Msgs = {m1, m2}
    VendorThreads = {v1}
    Binder = binder
    NULL = NULL
    TokensRestart = FALSE
    MaxUnsol = 1
SPECIFICATION FairSpec
INVARIANTS TokensAlive AnswersItsOwn NothingLeaked NoRequestForgotten
PROPERTIES ImplementsRequestService EveryRequestAnswered
CHECK_DEADLOCK FALSE
