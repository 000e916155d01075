SPECIFICATION DeploySpec
CONSTANTS
    Job = {t1, t2}
    Cid = {c1, c2}
    Repo = {r1}
    ByUpload = ByUpload
    None = None
    Faults = FALSE
    MaxJobs = 3
PROPERTY RedeployedIsListed
CHECK_DEADLOCK FALSE
