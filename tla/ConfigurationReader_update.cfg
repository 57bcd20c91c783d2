SPECIFICATION CfgFairSpec
CONSTANTS
    f1 = f1
    f2 = f2
    Nothing = nothing
    Files <- MCFiles
    Elements <- MCElements
    Root = "EdlProvider"
    Above <- MCAbove
    Values <- MCValues
    Texts <- MCTexts
    Complies <- HasPort
    Schema = "loads"
    AutoUpdate = TRUE
    MaxChanges = 2
    Replaces = TRUE
    QuietLoad = TRUE
    Faults = FALSE
CHECK_DEADLOCK FALSE
PROPERTY UpdatesItself
