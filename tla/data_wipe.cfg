SPECIFICATION CalmSpec
CONSTANTS
    Doc = {d1}
    Vectored = {d1}
    Write = {w1, w2}
    Jobs <- AllJobs
    MaxAttempts = 2
    Edit = {e1}
    Delete = {x1}
    Wipe = {u1}
    QueueMax = 1
    MaxRestarts = 1
INVARIANTS WipedNotFound
CHECK_DEADLOCK FALSE
