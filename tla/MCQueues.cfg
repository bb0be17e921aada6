\* A pipe of two bytes with three processes, two kinds of byte and kills; two
\* processes with two mutexes.
SPECIFICATION QuSpec
CONSTANTS
    init = init
    p1 = p1
    p2 = p2
    a1 = a1
    a2 = a2
    b1 = b1
    b2 = b2
    NoUser = NoUser
    PipeUser <- ThreeProcs
    Creator = init
    PipeByte = {b1, b2}
    PIPESIZE = 2
    Wrap = 4
    MaxCount = 2
    Killable = {init}
    Null = Null
    First = init
    Proc <- ThreeProcs
    Name = {a1, a2}
    MUX_MAXNUM = 2
    MaxRefs = 2
SYMMETRY Alike
INVARIANTS
    QuTypes
    NoMissedWrite
    NoUseAfterFree
    
PROPERTIES
    IsFifo
CHECK_DEADLOCK FALSE
