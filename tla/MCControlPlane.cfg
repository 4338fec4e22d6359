SPECIFICATION FairSpec
CONSTANTS
    tn = tn
    w1 = w1
    w2 = w2
    None = None
    Gone = Gone
    Ids <- OneTunnel
    Workers <- TwoWorkers
    NPorts = 1
    MaxPerIp = 1
    MaxRotations = 1
    MaxFaults = 1
INVARIANTS
    NoOrphan
    LiveServed
    Consistent
PROPERTIES
    GetsDone
CHECK_DEADLOCK FALSE
