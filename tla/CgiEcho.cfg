SPECIFICATION DiligentSpec
CONSTANTS
    BodyLen = 4
    OutLen = 4
    PipeCap = 1
    ReadMax = 1
    Timeout = 2
    MaxCalls = 1
    Script = "echo"
    MayDetach = FALSE
    CallsMayFail = FALSE
PROPERTIES
    TimeoutEnforced
CHECK_DEADLOCK FALSE
