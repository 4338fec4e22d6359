SPECIFICATION FairSpec
CONSTANTS
    Protos <- Both
    Sids <- TwoSids
    BaseDelay = 5
    MaxDelay = 15
    MaxFails = 2
INVARIANTS
    LinkSound
    NeverStranded
    StreamsEnd
PROPERTIES
    Recovers
