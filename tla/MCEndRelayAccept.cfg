SPECIFICATION Spec
CONSTANTS
    Roles <- Both
    MaxSend <- Down
    HighWater = 3
    LowWater = 1
INVARIANT FreedLastEver
CHECK_DEADLOCK FALSE
