SPECIFICATION PaySpec
CONSTANTS
    o1 = o1
    o2 = o2
    h1 = h1
    h2 = h2
    u1 = u1
    k1 = k1
    k2 = k2
    a1 = a1
    a2 = a2
    Order = {o1, o2}
    User = {u1}
    Key = {k1, k2}
    Handler = {h1}
    Request <- PlainRequests
    TotalQuota = 1
    PerUserLimit = 1
    MaxFaults = 0
    NoOrder = NoOrder
    NoRequest = NoRequest
    MaxPayments = 2
    Channel = {"alipay"}
    Address = {a1}
    Loads <- RefusedLoad
    NoTrade = NoTrade
    NoAddress = NoAddress
    NoPayment = NoPayment
INVARIANT NewAttemptIsStored
