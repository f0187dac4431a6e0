SPECIFICATION Spec
CONSTANTS
    h1 = h1
    h2 = h2
    s1 = s1
    s2 = s2
    Target <- TwoTargets
    Scheduler = {s1, s2}
    Handler = {h1, h2}
    MaxDay = 3
    MaxProbes = 1
    MaxQueue = 2
    MaxFaults = 1
SYMMETRY Symmetric
INVARIANT ReportCountsProbes
CHECK_DEADLOCK FALSE
