\* kill(0), which kill.c passes on for any argument that is not a number.
SPECIFICATION Spec
CONSTANTS
    NPROC = 3
    NCPU = 1
    MaxPid = 3
    TickMod = 1
    SleepArgs = {}
    KillPids = {0}
    HighPrioCallers = {}
INVARIANT BornAlive
