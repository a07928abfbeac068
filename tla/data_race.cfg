SPECIFICATION RaceSpec
CONSTANTS
    Doc = {d1}
    Vectored = {d1}
    Write = {w1, w2}
    Jobs <- FewJobs
    MaxAttempts = 2
    Edit = {e1}
    Delete = {x1}
    Wipe = {u1}
    QueueMax = 1
    MaxRestarts = 1
SYMMETRY Symmetry
INVARIANTS TypeOK StoredOnce ErasedStaysErased IndexAgrees
PROPERTIES LoneWriteKeeps
CHECK_DEADLOCK FALSE
