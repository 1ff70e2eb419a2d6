SPECIFICATION Spec
CONSTANTS
    m1 = m1
    r1 = r1
    r2 = r2
    po1 = po1
    po2 = po2
    a1 = a1
    a2 = a2
    NoMerchant = NoMerchant
    NoAccount = NoAccount
    Merchant = {m1}
    Payout = {po1, po2}
    Account = {a1, a2}
    Requester = {r1, r2}
    MinAmount = 1
    MaxMoney = 2
SYMMETRY Symmetric
INVARIANTS
    TypeOK
    PayoutsWithinEarnings
    TotalPaidOutTruthful
PROPERTIES
    ProcessedOnce
    PaidToCurrentAccount
