SPECIFICATION Spec
CONSTANTS
    NoUpload = NoUpload
    NoBody = NoBody
    Uploads = {u1}
    Bodies = {b1, b2}
    Workers = {w1, w2}
    MaxRows = 1
    MaxDone = 2
    QueryRetry = 1
    MergeRetry = 1
SYMMETRY Symmetry
INVARIANTS
    IndInv
PROPERTIES
    CommittedFrozen
    LedgerRefined
CHECK_DEADLOCK FALSE
