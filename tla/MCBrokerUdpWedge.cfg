SPECIFICATION Spec
CONSTANTS
    a1 = a1
    a2 = a2
    a3 = a3
    Modes <- OpenOnly
    Addrs <- ThreeAddrs
    PeerFlows <- OnePeerFlow
    Slots <- TwoSlots
    QueueMax = 2
    MaxFlows = 2
    MaxFlowId = 2
    SendFails = FALSE
    SslWants = FALSE
    DtlsAddrs <- TwoAddrs
    MaxSessions <- SessionBound
INVARIANT NeverWedged
