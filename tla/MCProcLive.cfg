\* One CPU: what the scheduler owes to killed processes and to the one with
\* the high priority.
SPECIFICATION FairSpec
CONSTANTS
    NPROC = 3
    NCPU = 1
    MaxPid = 3
    TickMod = 2
    SleepArgs = {1}
    KillPids = {2}
    HighPrioCallers = {2}
PROPERTIES
    HighPrioRuns
    
