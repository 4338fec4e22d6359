SPECIFICATION Spec
CONSTANTS
    a1 = a1
    a2 = a2
    a3 = a3
    Modes <- Both
    Addrs <- TwoAddrs
    PeerFlows <- OnePeerFlow
    Slots <- TwoSlots
    QueueMax = 2
    MaxFlows = 2
    MaxFlowId = 3
    SendFails = FALSE
    SslWants = TRUE
    DtlsAddrs <- TwoAddrs
    MaxSessions <- SessionBound
SYMMETRY Sym
INVARIANTS
    NoCrossTalk
    TablesSound
    SendsSound
    QueueSound
