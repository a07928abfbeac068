SPECIFICATION RuleSpec
CONSTANTS
    a1 = a1
    a2 = a2
    a3 = a3
    b1 = b1
    b2 = b2
    c1 = c1
    c2 = c2
    None = None
    Request = {a1, a2, a3}
    Conn = {b1, b2}
    Canal = TRUE
    Txn = {a1, a2, a3}
    RuleOp <- MCRuleOp
    MaxFields = 1
    Body = {b1, b2}
    Forward = TRUE
    ApiPublish = FALSE
    MaxChanges = 2
    MaxCrashes = 1
    MaxErrors = 1
    Batch = 2
    MaxLen = 3
    Thread = {b1, b2}
    Name = {c1, c2}
    Calls <- MCCalls
    PageSize = 1
    MaxRows = 2
    MaxDeletes = 1
SYMMETRY Symmetry
INVARIANT OneRetrieveRule
CHECK_DEADLOCK FALSE
