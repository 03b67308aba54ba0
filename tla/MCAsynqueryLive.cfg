SPECIFICATION FairSpec
CONSTANTS
    NoUpload = NoUpload
    NoBody = NoBody
    Uploads = {u1}
    Bodies = {b1}
    Workers = {w1}
    MaxRows = 2
    MaxDone = 1
    QueryRetry = 0
    MergeRetry = 1
INVARIANTS
    OneOpenRow
PROPERTIES
    QueriesSettle
CHECK_DEADLOCK FALSE
