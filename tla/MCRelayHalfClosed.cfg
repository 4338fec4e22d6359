SPECIFICATION FairSpec
CONSTANTS
    Modes <- ClosedModes
    MaxSend <- Two
    HighWater = 1
    LowWater = 0
PROPERTY HalfCloseAlways
CHECK_DEADLOCK FALSE
