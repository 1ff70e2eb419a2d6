SPECIFICATION FairSpec
CONSTANTS
    h1 = h1
    h2 = h2
    Reconciler = reconciler
    Expirer = expirer
    Grace = 0
    PendingWindow = 1
    ExpiredWindow = 1
    Batch = 1
    ExpireBatch = 1
    Payment = {1, 2}
    Handler = {}
    Requests <- BriefRequest
    MaxTime = 1
PROPERTY
    SettledIsRecovered
