SPECIFICATION FairSpec
CONSTANTS
    Roles <- Both
    Locals <- ThreeLocals
    BrokerIds <- ThreeIds
    IdSpace = 4
    QueueMax = 2
    MaxFlows = 2
    MaxDelay = 20
    Lossy = TRUE
INVARIANTS
    SessionSound
    PeerRetries
PROPERTIES
    FlowsExpire
