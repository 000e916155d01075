SPECIFICATION PartsSpec
CONSTANTS
    t1 = t1
    t2 = t2
    c1 = c1
    c2 = c2
    c3 = c3
    b1 = b1  b2 = b2  b3 = b3  k1 = k1  k2 = k2  k3 = k3  p1 = p1  p2 = p2
    None = None
    Task = {t1, t2}
    Cid = {c1, c2, c3}
    Ports = 3
    MaxProcesses = 1
    Refusals = TRUE
    OnePerCid = TRUE
    MaxRequests = 3
    Build = {b1, b2, b3}
    Key = {k1, k2, k3}
    Pkg = {p1, p2}
    Absent = Absent
    Project <- Locked
    Streaming = {b1, b2, b3}
    Slow = {}
    Heirs = {FALSE}
    Output = 0
    PipeSize = 1
    Limit = 3
    Cached <- Oldest
    Rivals = 2
INVARIANTS ProcessesBounded 
PROPERTIES  Ends 
CHECK_DEADLOCK FALSE
