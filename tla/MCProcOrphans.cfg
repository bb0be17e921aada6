\* Four slots, so that a process with a zombie child can exit under a parent
\* that is not init.
SPECIFICATION FairSpec
CONSTANTS
    NPROC = 4
    NCPU = 1
    MaxPid = 4
    TickMod = 1
    SleepArgs = {}
    KillPids = {}
    HighPrioCallers = {}
INVARIANT NoMissedExit
PROPERTY ZombieReaped
