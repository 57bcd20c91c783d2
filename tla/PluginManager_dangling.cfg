SPECIFICATION PMSpec
CONSTANTS
    w1 = w1
    Libs <- MCLibs
    Kind <- BothKinds
    Name <- MCName
    Types <- MCTypes
    Workers <- OneWorker
    AutoReload = TRUE
    MaxVersion = 1
    MaxChanges = 1
    StartupChanges = FALSE
    PlainlyCopied <- NoneCopied
INVARIANT NoDangling
CHECK_DEADLOCK FALSE
