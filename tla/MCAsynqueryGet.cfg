SPECIFICATION Spec
CONSTANTS
    NoUpload = NoUpload
    NoBody = NoBody
    Uploads = {u1}
    Bodies = {b1}
    Workers = {w1}
    MaxRows = 1
    MaxDone = 1
    QueryRetry = 0
    MergeRetry = 1
INVARIANTS
    FailureHasItsCode
CHECK_DEADLOCK FALSE
