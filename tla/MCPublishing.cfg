SPECIFICATION PublishingSpec
CONSTANTS
    Uploads = {u1}
    NoUpload = NoUpload
    Bodies = {b1}
    NoBody = NoBody
    Workers = {w1}
    MaxRows = 1
    MaxDone = 1
    QueryRetry = 0
    MergeRetry = 1
    Forks = {k1}
    Streams = {s1, s2}
    NoStream = NoStream
    UploadRetry = 0
    me = me
    you = you
    NoUser = NoUser
    UploadIDs = {"a"}
    Users = {me, you}
    Owner <- MCOwner
    Size = 1
    MaxRetry = 2
    MaxFaults = 2
    Forms = {"f"}
    fetchTryLimit = 5
    defaultRetryMax = 3
    r1 = r1
    r2 = r2
    r3 = r3
    None = None
    Requests = {r1, r2, r3}
    TusUsers = {me, you}
    UserOf <- MCUserOf
INVARIANTS
    FlowSafe
    GeoSafe
    FormSafe
    TusSafe
PROPERTIES
    PublishingEnds
CHECK_DEADLOCK FALSE
