SPECIFICATION FairSpec
CONSTANTS
    Texts <- SomeTexts
    U16 <- Numbers
    Address <- Addresses
    Bytes <- Sizes
    Upper <- UpperCase
    NoAddress = "localhost"
    DefaultSize = 1048576
INVARIANTS
    TypeOK
    ComplaintsExact
    BlocksStandAlone
PROPERTIES
    ParsingEnds
CHECK_DEADLOCK FALSE
