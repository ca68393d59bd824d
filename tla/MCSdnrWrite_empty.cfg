SPECIFICATION Spec
CONSTANTS
    Writers = {w1}
    MaxAttempts = 3
    PatternInUrl = FALSE
    EmptyBodies = TRUE
    None = None
PROPERTIES
    PreflightGuards
