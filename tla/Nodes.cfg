SPECIFICATION Spec
CONSTANTS
    Node = {n1}
    User = {u1}
    Marker = {api}
    Supported = {"vless", "trojan"}
    PlanGroups = {"g1"}
    Request <- Requests
    Timeout = 2
    Lag = 1
    Budgets <- ThreeBudgets
PROPERTIES
    OfflineOnlyWhenSilent
    ListedIsServed
    BannedLeave
