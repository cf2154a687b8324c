SPECIFICATION Spec
CONSTANTS
    c1 = c1
    c2 = c2
    r1 = r1
    r2 = r2
    k = k
    Routes <- SomeRoutes
    Requests <- SomeRequests
    Paths <- SomePaths
    FirstDisk <- Disk
    ExtensionOf <- Extensions
    FileName <- Names
    LooseName <- LooseNames
    Field <- Fields
    Outputs <- SomeOutputs
    Others <- SomeOthers
    Ids = {r1, r2, k}
    ClockIds = {k}
    Ttl = 2
    Clients = {c1, c2}
    MaxVisits = 3
INVARIANTS
    TypeOK
    Confined
    RefusedLeavesNoTrace
    EffectsAsAnswered
    CgiAnswerExact
    OneClientPerSession
PROPERTIES
    ImplementsSessions
CHECK_DEADLOCK FALSE
SYMMETRY Symmetry
