\* Three slots, two CPUs, ticks that wrap; two locks; three processes in 16
\* pages with two regions; two processes that make and remove names.
SPECIFICATION PsSpec
CONSTANTS
    NPROC = 3
    NCPU = 2
    MaxPid = 3
    TickMod = 2
    SleepArgs = {1}
    KillPids = {2}
    HighPrioCallers = {}
    Cpu = {1, 2}
    NLock = 2
    Task = {1, 2, 3}
    FirstTask = 1
    NPage = 16
    MaxVa = 5
    ProgPages = 1
    RegionName = {"x", "y", "DNE"}
    SHM_MAXNUM = 2
    Ops = {"sbrk", "fork", "exec", "exit", "shm_get", "shm_rem"}
    Benign = TRUE
    MaxOps = 5
    p1 = p1
    p2 = p2
    a = a
    b = b
    Proc = {p1, p2}
    First = p1
    Name = {a, b}
    NInum = 4
    NINODE = 4
    NFILE = 2
    NOFILE = 2
    Requests <- Flat
    MaxCalls <- FlatCalls
INVARIANTS
    PsTypes
    OneCpuPerStack
    SchedAsserts
    LiveParent
    NoMissedTick
    
    SpinDiscipline
    
    RefIsPointers
    
    NamesHaveLinks
    CacheIsDisk
