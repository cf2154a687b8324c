SPECIFICATION FairSpec
CONSTANTS
    BodyLen = 3
    OutLen = 3
    PipeCap = 2
    ReadMax = 1
    Timeout = 2
    MaxCalls = 2
    Script = "any"
    MayDetach = TRUE
    CallsMayFail = TRUE
INVARIANTS
    TypeOK
    OutputWhole
    BodyWhole
    CleanReturn
PROPERTIES
    CallsReturn
CHECK_DEADLOCK FALSE
