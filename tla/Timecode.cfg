SPECIFICATION TcSpec
CONSTANTS
    Bases <- MCBases
    Deltas <- MCDeltas
    Labels <- MCLabels
    MaxOps = 3
INVARIANTS
    TcTypeOK
    Agree
    NeverDropped
    TicksLikeAClock
    AddIsUndone
    TracksTime
CHECK_DEADLOCK FALSE
