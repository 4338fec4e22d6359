SPECIFICATION FairSpec
CONSTANTS
    Protos <- TcpOnly
    Sids <- TwoSids
    BaseDelay = 5
    MaxDelay = 15
    MaxFails = 2
PROPERTY DeadNoticed
