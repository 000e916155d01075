SPECIFICATION LocksSpec
CONSTANTS
    Worker = {t1, t2, t3}
    Op = {"storeContent", "pin"}
    MaxCalls = 3
PROPERTY Completes
CHECK_DEADLOCK FALSE
