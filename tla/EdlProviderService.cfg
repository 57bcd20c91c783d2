SPECIFICATION ServiceFairSpec
CONSTANTS
    w1 = w1
    w2 = w2
    c1 = c1
    c2 = c2
    None = none
    Libs <- OneLib
    Kind <- BothKinds
    Name <- MCName
    Types <- OneType
    Workers <- TwoWorkers
    AutoReload = TRUE
    MaxVersion = 1
    MaxChanges = 1
    StartupChanges = FALSE
    PlainlyCopied <- NoneCopied
    Clients <- TwoClients
    Requests <- FewRequests
    Silent <- OneSilent
    Backlog = 2
    AcceptErrors = TRUE
INVARIANTS
    ServiceTypeOK
    ServerOutlivesRun
    OwnAnswer
    NoneForgotten
PROPERTIES
    StopEnds
    Served
CHECK_DEADLOCK FALSE
