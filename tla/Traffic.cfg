SPECIFICATION Spec
CONSTANTS
    u1 = u1
    u2 = u2
    nobody = nobody
    User = {u1}
    Unknown = nobody
    Reports <- TwoReports
    Total = 2
    ClickHouse = {1}
    Batch = 1
    MaxEdits = 1
    MaxFaults = 1
INVARIANTS
    UsageAddsUp
    EventsSurvive
PROPERTIES
    FlagFollowsQuota
