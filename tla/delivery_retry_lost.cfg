SPECIFICATION Spec
CONSTANTS
    w1 = w1
    w2 = w2
    a1 = a1
    c1 = c1
    Callback = {c1}
    Row = {1, 2, 3}
    Worker = {w1}
    Admin = {a1}
    MaxAttempts = 2
    Batch = 2
    StaleAfter = 1
    Budget = 0
    SendTimeout = 1
    RetryDelay = 3
INVARIANT
    LostOnlyWhenRecorded
