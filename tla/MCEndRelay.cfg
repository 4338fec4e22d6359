SPECIFICATION FairSpec
CONSTANTS
    Roles <- Both
    MaxSend <- Sends
    HighWater = 3
    LowWater = 1
INVARIANTS
    Faithful
    FlowControl
    FreedLast
PROPERTIES
    Progress
    OpensOrCloses
CHECK_DEADLOCK FALSE
