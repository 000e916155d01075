SPECIFICATION PartsSpec
CONSTANTS
    t1 = t1  t2 = t2  t3 = t3
    Task = {t1, t2, t3}
    Threshold = 3
    Tracked = TRUE
    Gateway = {g1, g2}
    Client = {c1, c2}
    Ttl = 1
    MaxHash = 2
    MaxRequests = 4
    None = None
    w1 = w1  w2 = w2  n1 = n1  n2 = n2  k1 = k1  k2 = k2
    h1 = h1  h2 = h2  h3 = h3  d1 = d1  d2 = d2  d3 = d3  q1 = q1
    g1 = g1  g2 = g2  c1 = c1  c2 = c2  a1 = a1  a2 = a2  b1 = b1  b2 = b2  b3 = b3
    u1 = u1  u2 = u2  v1 = v1  v2 = v2
    Deploy = {d1, d2, d3}
    Caller = {q1}
    Handler = {h1, h2, h3}
    Routes <- HandlersOf
    MaxCached = 2
    MaxDeploys = 4
    Version = {v1, v2}
    Admin = {a1}
    MaxEdits = 3
    Worker = {w1, w2}
    Item <- KeysInUse
    Lifetimes = {NoValue, 0}
    NoValue = NoValue
    MaxKeys = 1
    MaxNamespaces = 1
    MaxTime = 1
    Limit = 2  Burst = 1  Second = 2  Window = 2  Keep = 4  LastTime = 6  MaxChecks = 8
    MaxPuts = 3
    Default = Default  Torn = Torn  NoFile = NoFile
INVARIANTS Consistent
    FunctionsKept LimitHolds RevocationLasts ConfigFollows
PROPERTIES OpensAndRecovers StoreHolds LoginsOnce
CHECK_DEADLOCK FALSE
