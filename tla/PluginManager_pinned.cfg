SPECIFICATION PMFairSpec
CONSTANTS
    w1 = w1
    Libs <- MCLibs
    Kind <- EdlOnly
    Name <- MCName
    Types <- MCTypes
    Workers <- NoWorkers
    AutoReload = TRUE
    MaxVersion = 2
    MaxChanges = 2
    StartupChanges = FALSE
    PlainlyCopied <- NoneCopied
PROPERTY EventuallyUpToDate
CHECK_DEADLOCK FALSE
