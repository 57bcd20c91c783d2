SPECIFICATION ServiceSpec
CONSTANTS
    w1 = w1
    w2 = w2
    c1 = c1
    c2 = c2
    None = none
    Libs <- TwoLibs
    Kind <- BothKinds
    Name <- MCName
    Types <- AllTypes
    Workers <- TwoWorkers
    AutoReload = FALSE
    MaxVersion = 1
    MaxChanges = 0
    StartupChanges = FALSE
    PlainlyCopied <- NoneCopied
    Clients <- TwoClients
    Requests <- OneMinimal
    Silent <- NoneSilent
    Backlog = 2
    AcceptErrors = FALSE
INVARIANTS
    MinimalRequestWorks
CHECK_DEADLOCK FALSE
