SPECIFICATION UsersSpec
CONSTANTS
    l1 = l1
    l2 = l2
    l3 = l3
    o1 = o1
    p1 = p1
    p2 = p2
    Legacy = {l1, l2, l3}
    OAuth = {o1}
    Processes = {p1, p2}
    ProcessOf <- MCProcessOf
    NServers = 2
    Starts <- MCStarts
    WalletLoadRetries = 2
    TxMaxRetries = 2
    MaxBumps = 1
    s1 = s1
    s2 = s2
    s3 = s3
    NoLeast = NoLeast
    Watcher = Watcher
    Servers = {s1, s2, s3}
    Private = {s3}
    Callers = {c1}
    FirstTable <- MCFirstTable
    MaxLoad = 1
    MaxChanges = 1
    MaxFaults = 1
    HttpRequests = {1, 2, 3}
    MaxSignals = 2
INVARIANTS
    
    ApiSafe
PROPERTIES
    AssignedForGood
    RouterSafe
    
CHECK_DEADLOCK FALSE
