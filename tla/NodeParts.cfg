\* One request of the storage at a time; the other parts on the instances that
\* MCNodeParts gives them.
SPECIFICATION PartsSpec
CONSTANTS
    t1 = t1  a = a  b = b  f = f  g = g
    c1 = c1  c2 = c2  p1 = p1  p2 = p2  p3 = p3  p4 = p4  p5 = p5  me = me
    r1 = r1  r2 = r2  cx = cx  n1 = n1  none = none
    g1 = g1  g2 = g2  g3 = g3  d1 = d1  d2 = d2
    Task = {t1}
    Frag = {f, g}
    Content = {a, b}
    FragsOf <- TwoManifests
    Size <- TwoSizes
    DeclaredSize <- DeclaredTwo
    MaxSize = 2
    Capacity = 2
    ScanBudget = 2
    GcTargets = {2}
    DiskFaults = FALSE
    Disconnects = FALSE
    MaxRequests = 5
    TornWrites = FALSE
    MaxCrashes = 1
    Relay = {p1, p2}
    Circuit = {c1, c2}
    Client = me
    Path <- Hop
    MaxAge = 1
    Lifetime = 2
    MaxCircuits = 2
    MaxPerPeer = 2
    ReplayCap = 2
    MaxTime = 4
    MaxHandled = 3
    Resolver = {r1, r2}
    Name = {n1}
    Cid = {cx}
    Peer = {p1, p2}
    Hops = 2
    MaxLinks = 2
    MaxProviders = 2
    MaxFragments = 2
    Patient = FALSE
    None = none
    Gateway = {g1, g2, g3}
    Node = {d1, d2}
    Enabled = {g1, g2}
    MaxBuilds = 2
    MaxPasses = 3
    Offers = {p1, p2}
    NoOffer = none
    MaxConnections = 1
    InRoom = 1
    OutRoom = 1
    MaxCandidates = 2
    MaxGathered = 1
    MaxUplinks = 2
    RelayId = {p1, p2, p3, p4, p5}
    Transient = {p2}
    Guards = {p1, p3}
    Exits = {p4, p5}
    Region <- RegionOf
    Orders <- TwoOrders
    MinHops = 2
    NumHops = 3
    MinSamples = 2
    Consecutive = 2
    MaxRoutes = 2
    MaxFailures = 2
INVARIANTS    
    ChainsEnd BridgeHolds
PROPERTIES ImplementsContentStore ComputedAvoidsBlocked
CHECK_DEADLOCK FALSE
