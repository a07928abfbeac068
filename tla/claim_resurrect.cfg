SPECIFICATION NoCrashSpec
CONSTANTS
    Ingest = {i1, i2}
    Revoke = {v1}
    Review = {w1}
    Input <- ReviewInput
    MinConfidence = 1
    AllowFill = TRUE
    AllowChronological = TRUE
    AutoSupersede <- Default
    None = None
PROPERTY OnlyConflictedResolved
CHECK_DEADLOCK FALSE
