SPECIFICATION WSpec
CONSTANTS
    Numbered <- MCNumbered
    Rates <- MCRates
    Clips <- MCClips
    MaxClips = 1
    CallsFail = FALSE
    IntMax = 20000
INVARIANT EditRateIsRate
CHECK_DEADLOCK FALSE
