\* With kills: a reader sleeps on over bytes a killed writer left.
SPECIFICATION PipeSpec
CONSTANTS
    NoUser = NoUser
    PipeUser = {p1, p2}
    Creator = p1
    PipeByte = {0}
    PIPESIZE = 1
    Wrap = 2
    MaxCount = 2
    Killable = {p2}
INVARIANT
    NoMissedRead
CHECK_DEADLOCK FALSE
