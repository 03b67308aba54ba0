SPECIFICATION CallsSpec
CONSTANTS
    u1 = u1
    u2 = u2
    u3 = u3
    s1 = s1
    s2 = s2
    g1 = g1
    g2 = g2
    g3 = g3
    c1 = c1
    c2 = c2
    p1 = p1
    k1 = k1
    NoUser = NoUser
    NoServer = NoServer
    RpcCalls = {"a", "b"}
    Users = {u1, u2}
    Servers = {s1, s2}
    ServerOf <- MCServerOf
    CallRetries = 2
    Asks <- MCAsks
    NoViewer = NoViewer
    Gets = {g1, g2, g3}
    Viewers = {u1, u2, u3}
    Claims = {c1, c2}
    ClaimOf <- MCClaimOf
    TagLists <- MCTagLists
    HasFee <- MCHasFee
    Owner <- MCOwner
    ReleaseTime = 1
    Mods = {u2}
    Members = {u1}
    MayFail = TRUE
    MaxTime = 2
    Requests = {"x", "y"}
    Processes = {p1}
    Keys = {k1}
    ClaimSearch = {k1}
    Replicas = {"i"}
    KeyOf <- MCKeyOf
    ProcessOf <- MCProcessOf
    GetterRetries = 2
    MaxHeight = 1
INVARIANTS
    
    
    CacheSafe
PROPERTIES
    
    CallsEnd
CHECK_DEADLOCK FALSE
