SPECIFICATION Spec
CONSTANTS
    i1 = i1
    i2 = i2
    b1 = b1
    b2 = b2
    b3 = b3
    Free = Free
    Ids <- TwoIds
    Blocks <- ThreeBlocks
    Kinds <- AllKinds
    NPorts = 1
    MaxTunnels = 2
    CounterMod = 2
INVARIANT NoReinit
CHECK_DEADLOCK FALSE
