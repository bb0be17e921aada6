\* Two processes, one mutex.
SPECIFICATION MxSpec
CONSTANTS
    Null = Null
    First = init
    Proc = {init, p1, p2}
    Name = {a1}
    MUX_MAXNUM = 1
    MaxRefs = 3
INVARIANT MutualExclusion
CHECK_DEADLOCK FALSE
