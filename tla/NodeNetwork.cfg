\* Three requests at a time, over one content and a channel of two places; two
\* nodes and two contents.
SPECIFICATION PartsSpec
CONSTANTS
    r1 = r1  r2 = r2  r3 = r3  c1 = c1
    a1 = a1  a2 = a2  n1 = n1  n2 = n2
    Request = {r1, r2, r3}
    Cid = {c1}
    None = None
    ChannelCap = 2
    ForeignRecords = FALSE
    Node = {n1, n2}
    Content = {a1, a2}
    Nothing = Nothing
    Held <- OneHolds
    Lossy = TRUE
    MaxItems = 1
    Budget = 2
    MaxRequests = 2
    MaxStops = 0
INVARIANTS  WholeUnlessRaced
PROPERTIES  LeftIsForgotten 
CHECK_DEADLOCK FALSE
