SPECIFICATION Spec
CONSTANTS
    Ingest = {i1, i2, i3}
    Revoke = {v1}
    Review = {w1}
    Input <- ReviewInput
    MinConfidence = 1
    AllowFill = TRUE
    AllowChronological = TRUE
    AutoSupersede <- Default
    None = None
SYMMETRY Symmetry
INVARIANTS TypeOK CurrentSound LineageSound ConflictNeedsReview RevokedNotServed ServedIsIndexed
PROPERTY HistoryAppendOnly
CHECK_DEADLOCK FALSE
