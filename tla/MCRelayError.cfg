SPECIFICATION FairSpec
CONSTANTS
    Modes <- OpenModes
    MaxSend <- Two
    HighWater = 1
    LowWater = 0
PROPERTY ClosesAfterError
CHECK_DEADLOCK FALSE
