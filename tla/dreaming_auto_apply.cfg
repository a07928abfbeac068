\* No locks, no reviews, no requests to apply: nothing can keep the run from
\* applying what it proposed.
SPECIFICATION Spec
CONSTANTS
    Proposal = {p1}
    Reviewer = {}
    Applier = {}
    Lock = {}
    None = None
    MaxAttempts = 3
INVARIANT AutoApplied
CHECK_DEADLOCK FALSE
