\* Two processes that make and remove names; a reader and a writer of a pipe,
\* calls longer than the buffer, nobody is killed; lines of up to four words
\* and symbols.
SPECIFICATION CaSpec
CONSTANTS
    p1 = p1
    p2 = p2
    a = a
    b = b
    Proc = {p1, p2}
    First = p1
    Name = {a, b}
    NInum = 4
    NINODE = 4
    NFILE = 2
    NOFILE = 2
    Requests <- Flat
    MaxCalls <- FlatCalls
    NoUser = NoUser
    PipeUser = {p1, p2}
    Creator = p1
    PipeByte = {0}
    PIPESIZE = 2
    Wrap = 4
    MaxCount = 3
    Killable = {}
    Word = {"a", "b"}
    Symbol = {"|", "&", ";", "<", ">", "(", ")"}
    MAXARGS = 3
    MaxLine = 4
    RunLines <- MCLines
    MaxShPid = 9
    MaxFd = 6
INVARIANTS
    ParsesAsMeant
    ExecWired
    
PROPERTIES
    CallReturns
    SleeperWoken
    PromptReturns
CHECK_DEADLOCK FALSE
