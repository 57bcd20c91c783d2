SPECIFICATION WSpec
CONSTANTS
    Numbered <- MCNumbered
    Rates <- MCRates
    Clips <- MCClips
    MaxClips = 3
    CallsFail = TRUE
    IntMax = 20000
INVARIANTS
    WTypeOK
    CmxKeepsLength
    FcInSync
    FcNested
    FcIdentified
    AafAligned
    AafTimecodeLength
    AafResolved
    SameVerdict
    SameNumbering
    SameEdit
    CmxShowsMarks
PROPERTIES
    CmxPlays
    FcPlays
    AafPlays
CHECK_DEADLOCK FALSE
