------------------------------ MODULE BufCache ------------------------------
(***************************************************************************)
(* The buffer cache of bio.c over the disk queue of ide.c.  A client reads *)
(* a block, may change it and write it through, or leave it dirty for the  *)
(* log as log_write() does, and releases it.  The disk works on one        *)
(* request at a time and interrupts when it is done.                       *)
(***************************************************************************)
EXTENDS Integers, Sequences, FiniteSets, Functions

CONSTANTS
    Client,    \* processes
    Blk,       \* blocks of the disk
    Uses,      \* per client: the blocks it asks for
    BlkVal,       \* contents of a block, 0 to begin with
    NBUF,      \* buffers
    MaxDirty,  \* blocks that the log lets wait for its commit
    MaxPuts    \* bound on the changes of blocks

Buf == 1 .. NBUF

ASSUME BufAssumption == NBUF \in Nat \ {0}
ASSUME BlockAssumption == 0 \notin Blk /\ 0 \in BlkVal /\ \A c \in Client : Uses[c] \subseteq Blk

VARIABLES
    buf,      \* the buffers: block, flags, contents
    lru,      \* their order in the list, most recently used first
    idequeue, \* buffers to be read or written, the active one first
    active,   \* the disk: the buffer it was started for, 0 if idle
    platter,  \* the disk: its contents
    bcat,       \* per client: its place
    hold,     \* per client: its buffer
    lastput,  \* per block: what was last put into a buffer for it
    nobufs,   \* bget() has panicked for want of buffers
    puts      \* changes so far

bcvars == <<buf, lru, idequeue, active, platter, bcat, hold, lastput, nobufs, puts>>

BcInit ==
    /\ buf = [b \in Buf |-> [blk |-> 0, busy |-> FALSE, valid |-> FALSE, dirty |-> FALSE, data |-> 0]]
    /\ lru = [k \in Buf |-> NBUF + 1 - k]
    /\ idequeue = <<>> /\ active = 0
    /\ platter = [k \in Blk |-> 0] /\ lastput = platter
    /\ bcat = [c \in Client |-> "idle"] /\ hold = [c \in Client |-> 0]
    /\ nobufs = FALSE /\ puts = 0

BufsOf(k) == {b \in Buf : buf[b].blk = k}

\* Mutant: a buffer that waits for the commit is recycled.
RecyclableAny == {i \in Buf : ~buf[lru[i]].busy}

\* The places in the list of the buffers that bget() may recycle.
Recyclable == {i \in Buf : ~buf[lru[i]].busy /\ ~buf[lru[i]].dirty}

\* bget(): the buffer of block k, when nobody has it; or the least recently
\* used one that is neither busy nor dirty.
Bget(c) ==
    \E k \in Uses[c] :
    /\ bcat[c] = "idle" /\ ~nobufs
    /\ \/ \E b \in BufsOf(k) :
             /\ ~buf[b].busy
             /\ buf' = [buf EXCEPT ![b].busy = TRUE]
             /\ hold' = [hold EXCEPT ![c] = b]
             /\ bcat' = [bcat EXCEPT ![c] = IF buf[b].valid THEN "have" ELSE "rw"]
             /\ UNCHANGED nobufs
       \/ /\ BufsOf(k) = {}
          /\ IF Recyclable = {} THEN nobufs' = TRUE /\ UNCHANGED <<buf, hold, bcat>>
             ELSE \E i \in Recyclable :
                  LET b == lru[i]
                  IN  /\ \A j \in Recyclable : j <= i
                      /\ buf' = [buf EXCEPT ![b] = [@ EXCEPT !.blk = k, !.busy = TRUE, !.valid = FALSE]]
                      /\ hold' = [hold EXCEPT ![c] = b]
                      /\ bcat' = [bcat EXCEPT ![c] = "rw"]
                      /\ UNCHANGED nobufs
    /\ UNCHANGED <<lru, idequeue, active, platter, lastput, puts>>

\* iderw() starts the disk if the queue was empty.
Starts(b) == IF idequeue = <<>> THEN b ELSE active

\* iderw() up to its sleep.
Iderw(c) ==
    /\ bcat[c] = "rw"
    /\ idequeue' = Append(idequeue, hold[c])
    /\ active' = Starts(hold[c])
    /\ bcat' = [bcat EXCEPT ![c] = "wait"]
    /\ UNCHANGED <<buf, lru, platter, hold, lastput, nobufs, puts>>

\* Mutant: the next request is not started.
NextRequestNone(q) == 0

NextRequest(q) == IF q = <<>> THEN 0 ELSE Head(q)

\* ideintr(): the first buffer in the queue is done, the next one is started.
\* The disk has moved the data of the buffer it was started for.
Ideintr ==
    LET b == Head(idequeue)
        k == buf[active].blk
    IN
    /\ active # 0 /\ idequeue # <<>>
    /\ platter' = IF buf[active].dirty THEN [platter EXCEPT ![k] = buf[active].data] ELSE platter
    /\ buf' = [buf EXCEPT ![b].valid = TRUE, ![b].dirty = FALSE,
                          ![b].data = IF buf[b].dirty THEN @ ELSE platter[k]]
    /\ idequeue' = Tail(idequeue)
    /\ active' = NextRequest(Tail(idequeue))
    /\ UNCHANGED <<lru, bcat, hold, lastput, nobufs, puts>>

\* iderw() is woken and returns.
IderwDone(c) ==
    /\ bcat[c] = "wait" /\ buf[hold[c]].valid /\ ~buf[hold[c]].dirty
    /\ bcat' = [bcat EXCEPT ![c] = "have"]
    /\ UNCHANGED <<buf, lru, idequeue, active, platter, hold, lastput, nobufs, puts>>

\* The client changes the data of its buffer, which is then dirty.
BufPut(c, v) ==
    /\ bcat[c] = "have" /\ v # buf[hold[c]].data
    /\ puts < MaxPuts /\ puts' = puts + 1
    /\ buf' = [buf EXCEPT ![hold[c]].data = v, ![hold[c]].dirty = TRUE]
    /\ lastput' = [lastput EXCEPT ![buf[hold[c]].blk] = v]

\* The client changes the block and calls bwrite().
BufWrite(c) ==
    /\ \E v \in BlkVal : BufPut(c, v)
    /\ bcat' = [bcat EXCEPT ![c] = "rw"]
    /\ UNCHANGED <<lru, idequeue, active, platter, hold, nobufs>>

\* The client changes the block and calls log_write().
BufLogWrite(c) ==
    /\ Cardinality({b \in Buf : buf[b].dirty /\ b # hold[c]}) < MaxDirty
    /\ \E v \in BlkVal : BufPut(c, v)
    /\ UNCHANGED <<lru, idequeue, active, platter, bcat, hold, nobufs>>

\* The list with b at its head.
Moved(b) ==
    LET place == CHOOSE i \in Buf : lru[i] = b
    IN  [i \in Buf |-> IF i = 1 THEN b ELSE lru[IF i <= place THEN i - 1 ELSE i]]

Brelse(c) ==
    LET b == hold[c] IN
    /\ bcat[c] = "have"
    /\ lru' = Moved(b)
    /\ buf' = [buf EXCEPT ![b].busy = FALSE]
    /\ bcat' = [bcat EXCEPT ![c] = "idle"] /\ hold' = [hold EXCEPT ![c] = 0]
    /\ UNCHANGED <<idequeue, active, platter, lastput, nobufs, puts>>

BcStep(c) == Bget(c) \/ Iderw(c) \/ IderwDone(c) \/ BufWrite(c) \/ BufLogWrite(c) \/ Brelse(c)
BcNext == Ideintr \/ \E c \in Client : BcStep(c)

BcSpec == BcInit /\ [][BcNext]_bcvars

-----------------------------------------------------------------------------
(* Properties *)

BcTypeOK ==
    /\ buf \in [Buf -> [blk : Blk \cup {0}, busy : BOOLEAN, valid : BOOLEAN, dirty : BOOLEAN, data : BlkVal]]
    /\ idequeue \in Seq(Buf) /\ active \in Buf \cup {0} /\ hold \in [Client -> Buf \cup {0}]
    /\ Len(lru) = NBUF /\ Range(lru) = Buf

\* bio.c:1-16: a client that has a block sees what was last written to it,
\* through whichever buffer, whether that is on the disk, in the cache or in
\* the disk queue; no two buffers are for one block, no two clients have one.
SeesLastWrite ==
    /\ \A c \in Client : bcat[c] = "have" => buf[hold[c]].data = lastput[buf[hold[c]].blk]
    /\ \A b1, b2 \in Buf : buf[b1].blk = buf[b2].blk /\ b1 # b2 => buf[b1].blk = 0
    /\ \A c, d \in Client : hold[c] = hold[d] /\ c # d => hold[c] = 0

\* The disk is at work for the first buffer of the queue, is idle only if the
\* queue is empty, and is started once for each: a client that sleeps in
\* iderw() is in the queue, or its request is done.
DiskServesHead ==
    /\ IF idequeue = <<>> THEN active = 0 ELSE active = Head(idequeue)
    /\ IsInjective(idequeue)
    /\ \A c \in Client : bcat[c] = "wait" =>
          hold[c] \in Range(idequeue) \/ (buf[hold[c]].valid /\ ~buf[hold[c]].dirty)

=============================================================================
