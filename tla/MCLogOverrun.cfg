\* The image mkfs builds (nlog = LOGSIZE), system calls that use all of their
\* reservation.
SPECIFICATION Spec
CONSTANTS
    Proc = {p1, p2, p3}
    NHome = 3
    Val = {0}
    MAXOPBLOCKS = 1
    LOGSIZE = 3
    NLog = 3
    OpWrites = 1
    Crashes = FALSE
INVARIANT InLogArea
