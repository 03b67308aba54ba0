SPECIFICATION UploadServiceSpec
CONSTANTS
    Files = {f1}
    NoFile = NoFile
    NoStream = NoStream
    Streams = {s1, s2}
    MaxTasks = 2
    Retries = 0
    Size = 1
    TokenValid = {TRUE}
    Listeners = {"created", "complete"}
    Conns = {1, 2}
    a1 = a1
    a2 = a2
    b1 = b1
    x1 = x1
    P1 = P1
    P2 = P2
    n1 = n1
    n2 = n2
    None = None
    Requests = {a1, a2, b1, x1}
    Processes = {P1, P2}
    Names = {n1, n2}
    Deaf = {a2}
    ProcessOf <- MCProcessOf
    NameOf <- MCNameOf
    TokenUsers = {u1}
    Nobody = Nobody
    NoKey = NoKey
    SignKeys = {k1, k2}
    Lifetime = 2
    TokenTime = 3
    Credentials <- OneCredential
INVARIANTS
    
    LifeSafe
    LockerSafe
PROPERTIES
    UploadsRefined
    UploadServiceEnds
CHECK_DEADLOCK FALSE
