SPECIFICATION FairSpec
CONSTANTS
    w1 = w1
    w2 = w2
    a1 = a1
    c1 = c1
    Callback = {c1}
    Row = {1, 2, 3}
    Worker = {w1, w2}
    Admin = {}
    MaxAttempts = 2
    Batch = 2
    StaleAfter = 2
    Budget = 1
    SendTimeout = 1
    RetryDelay = 4
INVARIANT
    RequeuedOnce
PROPERTY
    EveryCallbackEnds
