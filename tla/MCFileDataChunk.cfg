\* The sizes of the code, but for two bytes to a block: a file that does not
\* end on a block boundary, and a write of 26 bytes.
CONSTANTS
    Writer = {1}
    DataFile = {1}
    BSIZE = 2
    NDIRECT = 12
    NINDIRECT = 128
    NBlocks = 20
    OpBlocks = 10
    LogBlocks = 30
    WriteSizes = {1, 26}
    MaxWrites = 2
    MaxAppends = 1
SPECIFICATION FdSpec
INVARIANT ChunkReserved
CHECK_DEADLOCK FALSE
