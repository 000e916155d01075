\* One resolver, one content and two peers, as many as a circuit needs.
SPECIFICATION GSpec
CONSTANTS
    Resolver = {r1}
    Name = {}
    Cid = {c}
    Peer = {p1, p2}
    Hops = 2
    MaxLinks = 1
    MaxProviders = 1
    MaxFragments = 1
    Patient = TRUE
    None = None
PROPERTY FallsBack
CHECK_DEADLOCK FALSE
