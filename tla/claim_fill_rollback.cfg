SPECIFICATION SerialSpec
CONSTANTS
    Ingest = {i1, i2, i3}
    Revoke = {}
    Review = {}
    Input <- FillInput
    MinConfidence = 1
    AllowFill = TRUE
    AllowChronological = TRUE
    AutoSupersede <- Default
    None = None
INVARIANTS OlderReplayKeepsCurrent
CHECK_DEADLOCK FALSE
