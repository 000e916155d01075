SPECIFICATION PartsSpec
CONSTANTS
    g1 = g1  g2 = g2  pub = pub  site = site  page = page
    s1 = s1  s2 = s2  s3 = s3  b1 = b1  b2 = b2
    None = None
    Nothing = Nothing
    Gateway = {g1, g2}
    Client = {pub}
    Content = {site}
    Rank <- KeyOrder
    Times = {1, 2}
    MaxSeq = 3
    MaxRequests = 3
    Peer = {b1, b2}
    Conn = {s1, s2, s3}
    PeerOf <- BrowserOf
    Absent = Absent
    MaxPeers = 2
    MaxMessages = 2
    Browser = {s1, s2, s3}
    MaxConns = 3
    Fetch = {s1, s2, s3}
    Asset = {site, page}
    Pieces <- PiecesOf
    Unset = Unset
    CacheCap = 1
    UseFallback = TRUE
    Cid = {site, page}
    Fragments = {b1}
    Caller = {s1, s2}
    GcAt = 1
    GcTo = 1
    MaxCalls = 4
    Nil = Nil
    Url = {site, page}
    FragmentId = {b1, b2}
    Preload = {s1, s2, s3}
    Wanted <- Lists
    Reader = {s1, s2}
    Concurrency = 2
    Room = 2
    Sizes = {1, 3}
    Ttl = 0
    Timeout = 0
    ContentId = {site}
    NoRequest = NoRequest
SYMMETRY Symmetry
INVARIANTS CacheIsBest  
    BrowserHolds CachesHold
PROPERTY PinnedIsKept
CHECK_DEADLOCK FALSE
