SPECIFICATION Spec
CONSTANTS
    MaxPayload = 14
    MaxRead = 9
    Binding <- Bind
    Ending <- End
    Promoting <- Register
    Streams <- TwoOrThree
INVARIANTS
    Exact
    Prompt
    RejectsOnly
    CutsDontMatter
CHECK_DEADLOCK FALSE
