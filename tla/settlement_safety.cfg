SPECIFICATION Spec
CONSTANTS
    h1 = h1
    h2 = h2
    Reconciler = reconciler
    Expirer = expirer
    Grace = 0
    PendingWindow = 3
    ExpiredWindow = 1
    Batch = 1
    ExpireBatch = 1
    Payment = {1}
    Handler = {h1, h2}
    Requests <- EveryRequest
    MaxTime = 2
SYMMETRY Handlers
INVARIANTS
    CallbackAccounted
    LateFlagTruthful
    AckImpliesSettled
    FlaggedOnlyByProvider
    TypeOK
    LedgerBacksPayment
PROPERTY
    ImplementsLifecycle
