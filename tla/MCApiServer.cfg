SPECIFICATION ApiServerSpec
CONSTANTS
    t1 = t1
    t2 = t2
    TokenUsers = {t1, t2}
    Nobody = Nobody
    NoKey = NoKey
    SignKeys = {k1, k2}
    Lifetime = 1
    TokenTime = 1
    Credentials <- MCCredentials
    url1 = url1
    url2 = url2
    copy = copy
    Tags <- MCTags
    Window = 2
    SearchTime = 3
    Urls = {url1, url2}
    MaxItems = 2
    Substitute <- MCSubstitute
    Nil = Nil
    x1 = x1
    x2 = x2
    Sessions = {x1, x2}
    RecordKeys = {1}
    MaxClock = 2
    MaxLog = 2
    LoadUsers = {v1, v2, v3}
    Readers = {r1}
    LoadServers = {1, 2}
    LoadUploads = {f1}
    Proxies = {10, 12}
    Attempts = {1, 2, 3}
    Clients = {1, 2}
    PrivateRanges <- MCRanges
    Unparsed = 0
    Refill = 2
    Burst = 1
    Expire = 3
    MaxStall = 2
    GateTime = 5
    Headers = {"json", "location"}
    Codes = {201, 404}
    Chunks = {"a", "b"}
    MaxCalls = 4

    
PROPERTIES
    ResponderSafe
    SearchSafe
    TokensSafe
    RecordLayer
CHECK_DEADLOCK FALSE
