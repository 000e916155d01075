SPECIFICATION PartsSpec
CONSTANTS
    Build = {b1, b2}
    Watcher = {w1}
    Permits = 1
    Capacity = 1
    MaxLines = 2
    None = None
    r2 = r2  n1 = n1  n2 = n2
    Request = {q1, q2}
    Root = {r1, r2}
    Site = {r1}
    Name = {n1, n2}
    Record <- RecordOf
    Page = {page}
    MaxEntries = 3
    MaxDepth = 2
    Attempts = 1
    MaxRequests = 3
INVARIANTS  RecentlyUsedKept
PROPERTIES  RequestsEnd
CHECK_DEADLOCK FALSE
