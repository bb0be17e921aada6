CONSTANTS
    Task = {1, 2, 3}
    FirstTask = 1
    NPage = 13
    MaxVa = 5
    ProgPages = 1
    RegionName = {"x", "y", "DNE"}
    SHM_MAXNUM = 2
    Ops = {"fork", "shm_get"}
    Benign = FALSE
    MaxOps = 5
SPECIFICATION MemSpec
INVARIANT SameNameSamePage
CHECK_DEADLOCK FALSE
