SPECIFICATION PMFairSpec
CONSTANTS
    w1 = w1
    Libs <- MCLibs
    Kind <- BothKinds
    Name <- MCName
    Types <- MCTypes
    Workers <- OneWorker
    AutoReload = TRUE
    MaxVersion = 2
    MaxChanges = 3
    StartupChanges = FALSE
    PlainlyCopied <- OneCopied
INVARIANTS
    PMTypeOK
    UpToDate
PROPERTIES
    ReloadsSettle
    EventuallyUpToDate
CHECK_DEADLOCK FALSE
