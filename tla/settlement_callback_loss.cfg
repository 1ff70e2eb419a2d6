SPECIFICATION Spec
CONSTANTS
    h1 = h1
    h2 = h2
    Reconciler = reconciler
    Expirer = expirer
    Grace = 0
    PendingWindow = 3
    ExpiredWindow = 1
    Batch = 1
    ExpireBatch = 1
    Payment = {1}
    Handler = {h1}
    Requests <- OneRequest
    MaxTime = 2
INVARIANT
    LossIsLogged
