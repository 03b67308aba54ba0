SPECIFICATION ServiceFairSpec
CONSTANTS
    Workers = {w1, w2}
    Streams = {s1, s2}
    NoFile = NoFile
    NoStream = NoStream
    UploadRetry = 1
    Files = {f1}
    Urls = {l1}
    Attempts = {1, 2}
    Chunks = {10, 20}
    Overlap = FALSE
    NoDownload = 0
    Posts = {1, 2}
    Users = {7, 8}
    PostedUrls = {11, 12, 13, 14}
    Form <- MCForm
    UrlRetry = 1
    Headers <- MCHeaders
    FileExts <- MCFileExts
    MediaStreams <- MCMediaStreams
    MaxRetry = 1
    MaxFailures = 2
    Tasks = {t1, t2}
    Concurrency = 1
    MaxFaults = 2
    Reports = {1, 2}
    Bodies <- MCBodies
    Capacity = 1
INVARIANTS
    ForkliftSafe
    
    UrlsSafe
    AnalyzerSafe
    QueueSafe
    WatchmanSafe
PROPERTIES
    ForkliftServiceEnds
CHECK_DEADLOCK FALSE
