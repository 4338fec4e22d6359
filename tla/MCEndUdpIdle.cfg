SPECIFICATION FairSpec
CONSTANTS
    Roles <- AgentOnly
    Locals <- OneLocal
    BrokerIds <- OneId
    IdSpace = 4
    QueueMax = 2
    MaxFlows = 2
    MaxDelay = 20
    Lossy = FALSE
PROPERTY Reestablished
