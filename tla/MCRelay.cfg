SPECIFICATION FairSpec
CONSTANTS
    Modes <- BothModes
    MaxSend <- Sends
    HighWater = 2
    LowWater = 1
INVARIANTS
    Faithful
    FlowControl
PROPERTIES
    Progress
    ImplementsPipe
CHECK_DEADLOCK FALSE
