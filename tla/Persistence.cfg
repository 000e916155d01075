SPECIFICATION PartsSpec
CONSTANTS
    t1 = t1  t2 = t2  a = a  b = b  f = f  g = g
    t3 = t3  c1 = c1  c2 = c2  r1 = r1
    Task = {t1, t2}
    Frag = {f, g}
    Content = {a, b}
    FragsOf <- TwoManifests
    Size <- TwoSizes
    DeclaredSize <- DeclaredTwo
    MaxSize = 2
    Capacity = 3
    ScanBudget = 2
    GcTargets = {2}
    DiskFaults = FALSE
    Disconnects = FALSE
    MaxRequests = 3
    TornWrites = FALSE
    MaxCrashes = 1
    Worker = {t1, t2, t3}
    \* Each section of the two other operations is one of these, too.
    Op = {"storeContent", "pin", "collect", "download"}
    MaxCalls = 3
    Job = {t1, t2}
    Cid = {c1, c2}
    Repo = {r1}
    ByUpload = ByUpload
    None = None
    Faults = FALSE
    MaxJobs = 3
SYMMETRY Symmetry
INVARIANTS UsageBounded AckedSurvives OnlyThreeWayDeadlock OutcomesLast
CHECK_DEADLOCK FALSE
