SPECIFICATION FairSpec
CONSTANTS
    t1 = t1
    t2 = t2
    w1 = w1
    w2 = w2
    Transfer = {t1, t2}
    Worker = {w1, w2}
    Confirmations = 2
    BatchBlocks = 2
    ForkDepth = 2
    Starts <- FreshAndUsed
    MaxHead = 6
    MaxFaults = 1
INVARIANTS
    NothingSkipped
    NoRowNoScan
PROPERTIES
    HandedIsFinal
    ConfirmedIsHanded
