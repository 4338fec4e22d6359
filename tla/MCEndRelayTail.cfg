SPECIFICATION Spec
CONSTANTS
    Roles <- AgentOnly
    MaxSend <- Down
    HighWater = 3
    LowWater = 1
INVARIANT NoTailLostEver
CHECK_DEADLOCK FALSE
