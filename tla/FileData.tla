------------------------------ MODULE FileData ------------------------------
(***************************************************************************)
(* The contents of files: the free block bitmap, the blocks of an inode,  *)
(* readi() and writei() of fs.c, filewrite() of file.c with the offset     *)
(* that processes share, and the part of mkfs that lays out the first      *)
(* files.  One action is one turn of a loop that allocates, fills or frees *)
(* a block; the inode is locked throughout, other inodes are not.          *)
(*                                                                         *)
(* Every inode has one open file.  Blocks are numbered from the first data *)
(* block; bitmap block and inode block are named apart in the set of       *)
(* blocks that a transaction writes.                                       *)
(***************************************************************************)
EXTENDS Integers, Sequences, FiniteSets, FiniteSetsExt

CONSTANTS
    Writer,       \* processes; a process writes its own number
    DataFile,         \* inodes with data
    BSIZE,        \* bytes of a block
    NDIRECT,      \* direct blocks of an inode
    NINDIRECT,    \* entries of its indirect block
    NBlocks,      \* data blocks of the disk
    OpBlocks,  \* blocks that a system call reserves in the log
    LogBlocks,      \* blocks of the log
    WriteSizes,   \* bound: the byte counts of write() and of iappend()
    MaxAppends,   \* bound: the number of iappend()s of mkfs
    MaxWrites     \* bound: the number of writes and truncations

Block == 1 .. NBlocks
BitmapBlock == 0
InodeBlock == -1
MAXFILE == NDIRECT + NINDIRECT
Byte == Writer \cup {0}

VARIABLES
    booted,     \* mkfs is done
    freeblock,  \* mkfs: the next block it hands out
    bitmap,     \* the blocks marked in use
    mino,       \* per file: addrs and size, in memory
    dino,       \* the same on the disk
    index,      \* per block: the addresses in it, if it is an indirect block
    data,       \* per block: its bytes
    off,        \* per file: the offset of the open file
    owner,      \* per file: the process that has it locked, 0 if none
    w,          \* per process: the local variables of its write or truncation
    logged,     \* per process: the blocks of its transaction
    writes,     \* number of iappend()s, then of writes and truncations
    hist        \* per file: the bytes a reader should find

fdvars == <<booted, freeblock, bitmap, mino, dino, index, data, off, owner, w, logged, writes, hist>>

NoAddrs == [k \in 0 .. NDIRECT |-> 0]
NoIndex == [k \in 0 .. NINDIRECT - 1 |-> 0]
Zeroes == [k \in 0 .. BSIZE - 1 |-> 0]
Done == [at |-> "user", f |-> 0, left |-> 0, n |-> 0, off |-> 0, k |-> 0]

FdInit ==
    /\ booted = FALSE /\ freeblock = 1 /\ bitmap = {}
    /\ mino = [f \in DataFile |-> [addrs |-> NoAddrs, size |-> 0]]
    /\ dino = mino
    /\ index = [b \in Block |-> NoIndex] /\ data = [b \in Block |-> Zeroes]
    /\ off = [f \in DataFile |-> 0] /\ owner = [f \in DataFile |-> 0]
    /\ w = [p \in Writer |-> Done] /\ logged = [p \in Writer |-> {}]
    /\ writes = 0
    /\ hist = [f \in DataFile |-> <<>>]

-----------------------------------------------------------------------------
(* Block maps *)

\* A block map with its allocator: what bmap() and iappend() work on.
Maps(i) == [addrs |-> i.addrs, index |-> index, data |-> data, log |-> {}]
BlockAt(m, bn) == IF bn < NDIRECT THEN m.addrs[bn]
               ELSE IF m.addrs[NDIRECT] = 0 THEN 0 ELSE m.index[m.addrs[NDIRECT]][bn - NDIRECT]

\* balloc(): block b is zeroed; bitmap block and block are logged.
Zeroed(m, b) == [m EXCEPT !.index[b] = NoIndex, !.data[b] = Zeroes, !.log = @ \cup {BitmapBlock, b}]

\* bmap(): the map after looking up block bn, with new blocks taken from the
\* two in fresh, the first one for the indirect block if that is missing.
Bmap(m, bn, fresh) ==
    IF BlockAt(m, bn) # 0 THEN m
    ELSE IF bn < NDIRECT THEN [Zeroed(m, fresh[1]) EXCEPT !.addrs[bn] = fresh[1]]
    ELSE LET ind == m.addrs[NDIRECT]
             m1 == IF ind # 0 THEN m ELSE [Zeroed(m, fresh[1]) EXCEPT !.addrs[NDIRECT] = fresh[1]]
             i1 == m1.addrs[NDIRECT]
             b == IF ind # 0 THEN fresh[1] ELSE fresh[2]
         IN  [Zeroed(m1, b) EXCEPT !.index[i1][bn - NDIRECT] = b, !.log = @ \cup {i1}]

\* How many blocks Bmap takes.
Taken(m, bn) == IF BlockAt(m, bn) # 0 THEN 0
                ELSE IF bn >= NDIRECT /\ m.addrs[NDIRECT] = 0 THEN 2 ELSE 1

\* What one turn of the loop copies: at most n bytes from offset o, to the end
\* of the block.
PieceLen(o, n) == Min({n, BSIZE - (o % BSIZE)})

\* Mutant: the piece goes to the start of the block.
CopiedToStart(bytes, o, n, v) ==
    [k \in 0 .. BSIZE - 1 |-> IF k < PieceLen(o, n) THEN v ELSE bytes[k]]

\* Block contents after the copy of one piece.
Copied(bytes, o, n, v) ==
    [k \in 0 .. BSIZE - 1 |-> IF k - (o % BSIZE) \in 0 .. PieceLen(o, n) - 1 THEN v ELSE bytes[k]]

\* What a file is to its users: n bytes of value v at offset o of sequence h.
Overwrite(h, o, n, v) ==
    [k \in 1 .. Max({Len(h), o + n}) |-> IF k > o /\ k <= o + n THEN v ELSE h[k]]

\* readi(): what a read of n bytes at offset o returns.
Readi(f, o, n) ==
    LET len == IF o > mino[f].size THEN 0 ELSE Min({n, mino[f].size - o})
        m == Maps(mino[f])
    IN  [k \in 1 .. len |-> data[BlockAt(m, (o + k - 1) \div BSIZE)][(o + k - 1) % BSIZE]]

-----------------------------------------------------------------------------
(* mkfs *)

\* One turn of iappend() for n bytes of value 0 at the end of file f.
Iappend(f) ==
    \E n \in WriteSizes :
    LET o == dino[f].size
        bn == o \div BSIZE
        m == Maps(dino[f])
        m1 == Bmap(m, bn, <<freeblock, freeblock + 1>>)
    IN
    /\ ~booted /\ bn < MAXFILE
    /\ freeblock + Taken(m, bn) <= NBlocks + 1
    /\ writes < MaxAppends /\ writes' = writes + 1
    /\ freeblock' = freeblock + Taken(m, bn)
    /\ index' = m1.index
    /\ data' = [m1.data EXCEPT ![BlockAt(m1, bn)] = Copied(@, o, n, 0)]
    /\ dino' = [dino EXCEPT ![f] = [addrs |-> m1.addrs, size |-> o + PieceLen(o, n)]]
    /\ hist' = [hist EXCEPT ![f] = Overwrite(@, o, PieceLen(o, n), 0)]
    /\ UNCHANGED <<booted, bitmap, mino, off, owner, w, logged>>

\* balloc(freeblock): the blocks handed out are marked.
FirstUsed == 1 .. freeblock - 1

Boot ==
    /\ ~booted /\ booted' = TRUE
    /\ bitmap' = FirstUsed
    /\ mino' = dino
    /\ writes' = 0
    /\ UNCHANGED <<freeblock, dino, index, data, off, owner, w, logged, hist>>

-----------------------------------------------------------------------------
(* The kernel *)

MaxChunk == ((LogBlocks - 1 - 1 - 2) \div 2) * BSIZE

\* write(f, n): filewrite() is entered.
Write(p) ==
    \E f \in DataFile, n \in WriteSizes :
    /\ booted /\ w[p] = Done /\ writes < MaxWrites
    /\ ~\E q \in Writer : w[q].at = "trunc" /\ w[q].f = f
    /\ w' = [w EXCEPT ![p] = [Done EXCEPT !.at = "chunk", !.f = f, !.left = n]]
    /\ writes' = writes + 1
    /\ UNCHANGED <<booted, freeblock, bitmap, mino, dino, index, data, off, owner, logged, hist>>

\* One turn of the loop of filewrite(): begin_op(), ilock(), and the tests of
\* writei() on the offset and the size.
Chunk(p) ==
    LET l == w[p]
        n == Min({l.left, MaxChunk})
    IN
    /\ l.at = "chunk" /\ owner[l.f] = 0
    /\ IF off[l.f] > mino[l.f].size \/ off[l.f] + n > MAXFILE * BSIZE
       THEN w' = [w EXCEPT ![p] = Done] /\ UNCHANGED <<owner, logged>>
       ELSE /\ w' = [w EXCEPT ![p].at = "copy", ![p].n = n, ![p].off = off[l.f]]
            /\ owner' = [owner EXCEPT ![l.f] = p]
            /\ logged' = [logged EXCEPT ![p] = {}]
    /\ UNCHANGED <<booted, freeblock, bitmap, mino, dino, index, data, off, writes, hist>>

\* One turn of the loop of writei(): bmap(), with the free blocks balloc()
\* finds, the copy, log_write().  balloc() panics when the disk is full; the
\* model stops the writer.
Copy(p) ==
    LET l == w[p]
        bn == l.off \div BSIZE
        m == Maps(mino[l.f])
        free == Block \ bitmap
        b1 == Min(free)
        fresh == <<b1, IF free = {b1} THEN b1 ELSE Min(free \ {b1})>>
        m1 == Bmap(m, bn, fresh)
        len == PieceLen(l.off, l.n)
    IN
    /\ l.at = "copy" /\ l.n > 0
    /\ Cardinality(free) >= Taken(m, bn)
    /\ bitmap' = bitmap \cup {fresh[k] : k \in 1 .. Taken(m, bn)}
    /\ mino' = [mino EXCEPT ![l.f].addrs = m1.addrs]
    /\ index' = m1.index
    /\ data' = [m1.data EXCEPT ![BlockAt(m1, bn)] = Copied(@, l.off, l.n, p)]
    /\ logged' = [logged EXCEPT ![p] = @ \cup m1.log \cup {BlockAt(m1, bn)}]
    /\ w' = [w EXCEPT ![p].off = @ + len, ![p].n = @ - len, ![p].left = @ - len, ![p].k = @ + len]
    /\ UNCHANGED <<booted, freeblock, dino, off, owner, writes, hist>>

\* Mutant: the inode is not written back.
GrownUnsaved(p) == FALSE

\* writei() grows the file, and with it updates the inode on the disk.
Grown(p) == w[p].off > mino[w[p].f].size

\* The end of writei(), f->off += r, iunlock(), end_op().
Finish(p) ==
    LET l == w[p]
        i == [mino[l.f] EXCEPT !.size = Max({@, l.off})]
    IN
    /\ l.at = "copy" /\ l.n = 0
    /\ mino' = [mino EXCEPT ![l.f] = i]
    /\ dino' = IF Grown(p) THEN [dino EXCEPT ![l.f] = i] ELSE dino
    /\ logged' = [logged EXCEPT ![p] = IF Grown(p) THEN @ \cup {InodeBlock} ELSE @]
    /\ off' = [off EXCEPT ![l.f] = @ + l.k]
    /\ owner' = [owner EXCEPT ![l.f] = 0]
    /\ w' = [w EXCEPT ![p] = IF l.left = 0 THEN Done ELSE [@ EXCEPT !.at = "chunk", !.k = 0]]
    /\ hist' = [hist EXCEPT ![l.f] = Overwrite(@, l.off - l.k, l.k, p)]
    /\ UNCHANGED <<booted, freeblock, bitmap, index, data, writes>>

\* fileread(): the offset moves by what readi() returns.
Read(p) ==
    \E f \in DataFile, n \in WriteSizes :
    /\ booted /\ w[p] = Done /\ owner[f] = 0
    /\ off' = [off EXCEPT ![f] = @ + Len(Readi(f, @, n))]
    /\ UNCHANGED <<booted, freeblock, bitmap, mino, dino, index, data, owner, w, logged, writes, hist>>

\* iput() of the last reference: itrunc() has the inode to itself.
Trunc(p) ==
    \E f \in DataFile :
    /\ booted /\ w[p] = Done /\ writes < MaxWrites
    /\ \A q \in Writer : w[q].f # f
    /\ w' = [w EXCEPT ![p] = [Done EXCEPT !.at = "trunc", !.f = f]]
    /\ owner' = [owner EXCEPT ![f] = p]
    /\ writes' = writes + 1
    /\ UNCHANGED <<booted, freeblock, bitmap, mino, dino, index, data, off, logged, hist>>

\* Mutant: the loop over the indirect block stops one entry early.
FreedLess(m, k) == IF k < MAXFILE - 1 THEN BlockAt(m, k) ELSE IF k = MAXFILE THEN m.addrs[NDIRECT] ELSE 0

\* The blocks itrunc() frees, in turn: direct ones, indirect ones, the
\* indirect block itself.
Freed(m, k) == IF k < MAXFILE THEN BlockAt(m, k) ELSE m.addrs[NDIRECT]

TruncStep(p) ==
    LET l == w[p]
        b == Freed(Maps(mino[l.f]), l.k)
    IN
    /\ l.at = "trunc" /\ l.k <= MAXFILE
    /\ bitmap' = bitmap \ {b}
    /\ mino' = IF l.k < NDIRECT THEN [mino EXCEPT ![l.f].addrs[l.k] = 0] ELSE mino
    /\ w' = [w EXCEPT ![p].k = @ + 1]
    /\ UNCHANGED <<booted, freeblock, dino, index, data, off, owner, logged, writes, hist>>

TruncEnd(p) ==
    LET f == w[p].f IN
    /\ w[p].at = "trunc" /\ w[p].k > MAXFILE
    /\ mino' = [mino EXCEPT ![f] = [addrs |-> NoAddrs, size |-> 0]]
    /\ dino' = [dino EXCEPT ![f] = mino'[f]]
    /\ off' = [off EXCEPT ![f] = 0]
    /\ owner' = [owner EXCEPT ![f] = 0]
    /\ hist' = [hist EXCEPT ![f] = <<>>]
    /\ w' = [w EXCEPT ![p] = Done]
    /\ UNCHANGED <<booted, freeblock, bitmap, index, data, logged, writes>>

FdNext ==
    \/ \E f \in DataFile : Iappend(f)
    \/ Boot
    \/ \E p \in Writer : \/ Write(p) \/ Chunk(p) \/ Copy(p) \/ Finish(p) \/ Read(p)
                         \/ Trunc(p) \/ TruncStep(p) \/ TruncEnd(p)

FdSpec == FdInit /\ [][FdNext]_fdvars

-----------------------------------------------------------------------------
(* Properties *)

FdTypeOK ==
    /\ booted \in BOOLEAN /\ freeblock \in 1 .. NBlocks + 1 /\ bitmap \subseteq Block
    /\ mino \in [DataFile -> [addrs : [0 .. NDIRECT -> Block \cup {0}], size : 0 .. MAXFILE * BSIZE]]
    /\ dino \in [DataFile -> [addrs : [0 .. NDIRECT -> Block \cup {0}], size : 0 .. MAXFILE * BSIZE]]
    /\ owner \in [DataFile -> Writer \cup {0}]

\* The addresses by which file f holds block b: <<k>> in the inode, <<k, j>> in
\* the indirect block; those that a truncation has passed do not count.
Passed(f, k) == \E p \in Writer : w[p].at = "trunc" /\ w[p].f = f /\ k < w[p].k
Holds(f, b) ==
    LET m == Maps(mino[f])
    IN  {k \in 0 .. MAXFILE : ~Passed(f, k) /\ Freed(m, k) = b}

\* A block belongs to one place of one file, and the bitmap marks just the
\* blocks that belong to one: nothing is shared, lost, or used while free.
BlocksAccounted ==
    booted => \A b \in Block :
       LET places == UNION {{<<f, k>> : k \in Holds(f, b)} : f \in DataFile}
       IN  Cardinality(places) = IF b \in bitmap THEN 1 ELSE 0

\* Whatever processes write through the shared offset, in chunks of any
\* alignment and over files laid out by mkfs, a read of an unlocked file
\* returns what was written last at every offset.
ReadsWhatWasWritten ==
    booted => \A f \in DataFile : owner[f] = 0 =>
       /\ mino[f].size = Len(hist[f])
       /\ \A o \in 0 .. Len(hist[f]), n \in WriteSizes :
             Readi(f, o, n) = SubSeq(hist[f], o + 1, Min({o + n, Len(hist[f])}))

\* An unlocked inode is on the disk as it is in memory: the blocks that bmap()
\* added are not forgotten when the cache entry is recycled.
InodeSaved == booted => \A f \in DataFile : owner[f] = 0 => mino[f] = dino[f]

\* param.h:10 "max # of blocks any FS op writes": a transaction of filewrite()
\* logs no more blocks than begin_op() reserved for it.
ChunkReserved == \A p \in Writer : Cardinality(logged[p]) <= OpBlocks

=============================================================================
