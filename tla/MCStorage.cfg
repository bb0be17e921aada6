\* The log with the sizes of param.h and mkfs.c scaled down (LOGSIZE = nlog =
\* 3 * MAXOPBLOCKS), three processes and crashes everywhere; two files with an
\* indirect block each on a disk too small for both; three buffers for four
\* blocks; two readers of a ring of two characters; one client of the file
\* server.
SPECIFICATION StSpec
CONSTANTS
    p1 = p1
    p2 = p2
    p3 = p3
    Proc <- ThreeProcs
    NHome = 2
    Val = {0, 1}
    MAXOPBLOCKS = 1
    LOGSIZE = 3
    NLog = 3
    OpWrites = 1
    Crashes = TRUE
    Writer = {1, 2}
    DataFile = {1, 2}
    BSIZE = 2
    NDIRECT = 1
    NINDIRECT = 2
    NBlocks = 7
    OpBlocks = 2
    LogBlocks = 6
    WriteSizes = {1, 5}
    MaxWrites = 2
    MaxAppends = 2
    Client = {1, 2}
    Blk = {1, 2, 3, 4}
    Uses <- MCUses
    BlkVal = {0, 1}
    NBUF = 3
    MaxDirty = 1
    MaxPuts = 2
    Reader = {1, 2}
    INPUT_BUF = 2
    UintValues = 4
    Chars = {"a"}
    Lengths = {1, 2}
    Cols = 2
    Rows = 2
    MaxKeys = 5
    MaxReads = 3
    FsClient = {"c"}
    Creating = {"c"}
    FsPath = {1}
    FsOps = {"open", "write", "read", "close", "unlink", "mkdir", "restore"}
    NFd = 3
    MaxCall = 4
INVARIANTS
    StTypes
    SleeperHasWaker
    
    BlocksAccounted
    ReadsWhatWasWritten
    InodeSaved
    SeesLastWrite
    DiskServesHead
    NoMissedInput
    
    
PROPERTIES
    AtomicCommit
    IsTty
