SPECIFICATION Spec
CONSTANTS
    o = o
    k = k
    c1 = c1
    c2 = c2
    c3 = c3
    s1 = s1
    s2 = s2
    s3 = s3
    Order <- ClosedOnly
    ClosedTuns <- KSet
    Conns <- TwoConns
    Slots <- TwoSlots
    MaxStreams = 2
    MaxPerTunnel = 2
    MaxPending = 1
    MaxConns = 2
    IdMod = 3
    MaxOpens = 3
    MaxVersion = 0
INVARIANT NoUseAfterDelete
CHECK_DEADLOCK FALSE
