SPECIFICATION FairSpec
CONSTANTS
    o1 = o1
    o2 = o2
    h1 = h1
    h2 = h2
    u1 = u1
    k1 = k1
    k2 = k2
    Order = {o1, o2}
    Handler = {h1, h2}
    User = {u1}
    Key = {k1, k2}
    Request <- RacingRequests
    TotalQuota = 1
    PerUserLimit = 2
    MaxFaults = 1
    NoOrder = NoOrder
    NoRequest = NoRequest
INVARIANTS
    TypeOK
    EffectBudget
    IdempotentCreate
    CouponUsesCounted
PROPERTIES
    ClosedIsFinal
    ImplementsLife
    PendingEnds
    PaidDelivers
