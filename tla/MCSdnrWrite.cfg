SPECIFICATION FairSpec
CONSTANTS
    Writers = {w1, w2}
    MaxAttempts = 3
    PatternInUrl = TRUE
    EmptyBodies = FALSE
    None = None
INVARIANTS
    LastWriteStands
PROPERTIES
    Promised
    EveryWriteEnds
