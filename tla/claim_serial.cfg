SPECIFICATION SerialSpec
CONSTANTS
    Ingest = {i1, i2, i3}
    Revoke = {v1}
    Review = {w1}
    Input <- MixedInput
    MinConfidence = 1
    AllowFill = TRUE
    AllowChronological = TRUE
    AutoSupersede <- Default
    None = None
PROPERTY ImplementsLedger
CHECK_DEADLOCK FALSE
