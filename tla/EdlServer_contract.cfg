SPECIFICATION ServiceSpec
CONSTANTS
    w1 = w1
    w2 = w2
    c1 = c1
    c2 = c2
    None = none
    Libs <- TwoLibs
    Kind <- MixedKinds
    Name <- MCName
    Types <- AllTypes
    Workers <- TwoWorkers
    AutoReload = FALSE
    MaxVersion = 1
    MaxChanges = 1
    StartupChanges = FALSE
    PlainlyCopied <- AllCopied
    Clients <- TwoClients
    Requests <- AllRequests
    Silent <- NoneSilent
    Backlog = 2
    AcceptErrors = FALSE
INVARIANTS
    OneContextPerClient
    NoDangling
    InstancesReady
PROPERTIES
    ImplementsContract
CHECK_DEADLOCK FALSE
