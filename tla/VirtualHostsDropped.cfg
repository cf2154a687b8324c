SPECIFICATION Spec
CONSTANTS
    Hosts = {h1, h2}
    PortLists <- SomePorts
    NameLists <- SomeNames
    Headers <- SomeHeaders
    Fold <- LowerCase
    MaxServers = 3
    MaxFlawed = 1
    BindMayFail = TRUE
INVARIANTS
    DroppedForCause
CHECK_DEADLOCK FALSE
