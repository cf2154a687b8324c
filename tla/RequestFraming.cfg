SPECIFICATION Spec
CONSTANTS
    Streams <- SomeStreams
    CR = "CR"
    LF = "LF"
    Semi = ";"
    DigitValue <- Hex
    RequestLines = {"get"}
    Field <- Headers
    Chunked = 1
    MaxHead = 9
    MaxBody = 4
    MaxSize = 255
    ReadMax = 4
    OverflowChecks = FALSE
INVARIANTS
    TypeOK
    RequestsExact
    NothingWithheld
    SplitIndependent
    RefusedForCause
    BufferBounded
CHECK_DEADLOCK FALSE
