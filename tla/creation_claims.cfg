SPECIFICATION Spec
CONSTANTS
    r1 = r1
    r2 = r2
    r3 = r3
    k1 = k1
    b1 = b1
    b2 = b2
    p1 = p1
    p2 = p2
    None = None
    Request = {r1, r2, r3}
    Key = {k1}
    Body = {b1, b2}
    Provider = {p1, p2}
    Failover = {p1}
    MaxClaims = 2
    CreateTimeout = 1
    SettleTimeout = 1
    AbandonedAfter = 2
    TTL = 3
SYMMETRY Symmetric
INVARIANTS
    TypeOK
    OneCreator
    AnswersAgree
    ReplayTruthful
    PaymentBackedByOrder
PROPERTY
    NoSecondBill
