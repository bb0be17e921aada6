----------------------------- MODULE BufProofs ------------------------------
(***************************************************************************)
(* The safety of BufCache, proved for every number of clients, blocks and  *)
(* buffers: who has a buffer sees the last write of its block, and the     *)
(* queue of the disk is served in order.                                   *)
(***************************************************************************)
EXTENDS BufCache, SequenceTheorems, TLAPS

\* Types.  The list has every buffer in it.
Buffers == [blk : Blk \cup {0}, busy : BOOLEAN, valid : BOOLEAN, dirty : BOOLEAN, data : BlkVal]
BcTypes ==
    /\ buf \in [Buf -> Buffers]
    /\ lru \in [Buf -> Buf] /\ \A b \in Buf : \E i \in Buf : lru[i] = b
    /\ idequeue \in Seq(Buf) /\ active \in Buf \cup {0}
    /\ platter \in [Blk -> BlkVal] /\ lastput \in [Blk -> BlkVal]
    /\ bcat \in [Client -> {"idle", "rw", "wait", "have"}] /\ hold \in [Client -> Buf \cup {0}]

\* B_BUSY is set for the buffers that clients have, one each.
HoldersOk ==
    /\ \A c \in Client : hold[c] = 0 <=> bcat[c] = "idle"
    /\ \A c, d \in Client : hold[c] = hold[d] /\ c # d => hold[c] = 0
    /\ \A b \in Buf : buf[b].busy <=> \E c \in Client : hold[c] = b
    /\ \A b \in Buf : buf[b].busy => buf[b].blk # 0

\* What a buffer has is what was last put into its block, and what is not on
\* the disk is in a dirty buffer.
DataOk ==
    /\ \A b1, b2 \in Buf : buf[b1].blk = buf[b2].blk /\ b1 # b2 => buf[b1].blk = 0
    /\ \A b \in Buf : buf[b].dirty => buf[b].valid
    /\ \A b \in Buf : buf[b].valid => buf[b].blk # 0 /\ buf[b].data = lastput[buf[b].blk]
    /\ \A k \in Blk : platter[k] = lastput[k] \/ \E b \in Buf : buf[b].blk = k /\ buf[b].dirty
    /\ \A c \in Client : bcat[c] = "have" => buf[hold[c]].valid

\* The queue has the buffers of clients in iderw() whose transfer is not done.
QueueOk ==
    /\ active = IF idequeue = <<>> THEN 0 ELSE idequeue[1]
    /\ \A i, j \in 1 .. Len(idequeue) : idequeue[i] = idequeue[j] => i = j
    /\ \A i \in 1 .. Len(idequeue) : \E c \in Client : hold[c] = idequeue[i] /\ bcat[c] = "wait"
    /\ \A c \in Client : bcat[c] = "wait" =>
          \/ \E i \in 1 .. Len(idequeue) : idequeue[i] = hold[c]
          \/ buf[hold[c]].valid /\ ~buf[hold[c]].dirty

\* A buffer that is to be transferred is not valid, or is dirty.
Done(b) == buf[b].valid /\ ~buf[b].dirty
PendingOk ==
    /\ \A i \in 1 .. Len(idequeue) : ~Done(idequeue[i])
    /\ \A c \in Client : bcat[c] = "rw" => ~Done(hold[c])

\* The inductive invariant.
BcInv == PendingOk /\ BcTypes /\ HoldersOk /\ DataOk /\ QueueOk

\* What every step starts from.
LEMMA BcFacts ==
    ASSUME BcInv
    PROVE  /\ buf \in [Buf -> Buffers]
           /\ lru \in [Buf -> Buf] /\ \A x \in Buf : \E i \in Buf : lru[i] = x
           /\ idequeue \in Seq(Buf) /\ active \in Buf \cup {0}
           /\ platter \in [Blk -> BlkVal] /\ lastput \in [Blk -> BlkVal]
           /\ bcat \in [Client -> {"idle", "rw", "wait", "have"}] /\ hold \in [Client -> Buf \cup {0}]
           /\ 0 \notin Buf /\ 0 \notin Blk /\ HoldersOk /\ DataOk /\ QueueOk /\ PendingOk
BY BlockAssumption DEF BcInv, BcTypes, Buf

\* The facts of a client's buffer.
LEMMA HeldBuf ==
    ASSUME BcInv, NEW c \in Client, bcat[c] # "idle"
    PROVE  /\ hold[c] \in Buf /\ buf[hold[c]].busy /\ buf[hold[c]].blk \in Blk /\ buf[hold[c]] \in Buffers
           /\ \A d \in Client : d # c => hold[d] # hold[c]
<1>1. /\ buf \in [Buf -> Buffers]
      /\ lru \in [Buf -> Buf] /\ \A x \in Buf : \E i \in Buf : lru[i] = x
      /\ idequeue \in Seq(Buf) /\ active \in Buf \cup {0}
      /\ platter \in [Blk -> BlkVal] /\ lastput \in [Blk -> BlkVal]
      /\ bcat \in [Client -> {"idle", "rw", "wait", "have"}] /\ hold \in [Client -> Buf \cup {0}]
      /\ 0 \notin Buf /\ 0 \notin Blk /\ HoldersOk /\ DataOk /\ QueueOk /\ PendingOk
    BY BcFacts
<1> HIDE DEF Buf
<1>2. hold[c] \in Buf
    BY <1>1 DEF HoldersOk
<1>3. buf[hold[c]] \in Buffers /\ buf[hold[c]].busy /\ \A d \in Client : d # c => hold[d] # hold[c]
    BY <1>1, <1>2 DEF HoldersOk
<1>4. buf[hold[c]].blk \in Blk
    BY <1>1, <1>2, <1>3 DEF HoldersOk, Buffers
<1> QED BY <1>2, <1>3, <1>4

\* A client gets a buffer b that nobody has, and that will be r.
LEMMA GetsBuf ==
    ASSUME BcInv, NEW c \in Client, bcat[c] = "idle",
           NEW b \in Buf, ~buf[b].busy, NEW r \in Buffers,
           r.busy, r.blk # 0, r.data = buf[b].data, r.dirty = buf[b].dirty,
           \/ r.blk = buf[b].blk /\ r.valid = buf[b].valid
           \/ ~r.valid /\ ~r.dirty /\ \A x \in Buf : buf[x].blk # r.blk,
           buf' = [buf EXCEPT ![b] = r], hold' = [hold EXCEPT ![c] = b],
           bcat' = [bcat EXCEPT ![c] = IF r.valid THEN "have" ELSE "rw"],
           UNCHANGED <<lru, idequeue, active, platter, lastput>>
    PROVE  BcInv'
<1>1. /\ buf \in [Buf -> Buffers]
      /\ lru \in [Buf -> Buf] /\ \A x \in Buf : \E i \in Buf : lru[i] = x
      /\ idequeue \in Seq(Buf) /\ active \in Buf \cup {0}
      /\ platter \in [Blk -> BlkVal] /\ lastput \in [Blk -> BlkVal]
      /\ bcat \in [Client -> {"idle", "rw", "wait", "have"}] /\ hold \in [Client -> Buf \cup {0}]
      /\ 0 \notin Buf /\ 0 \notin Blk /\ HoldersOk /\ DataOk /\ QueueOk /\ PendingOk
    BY BcFacts
<1> HIDE DEF Buf
<1> DEFINE place == IF r.valid THEN "have" ELSE "rw"
<1>2. BcTypes'
    BY <1>1 DEF BcTypes
<1>3. /\ \A x \in Buf : buf'[x] = IF x = b THEN r ELSE buf[x]
      /\ \A d \in Client : hold'[d] = (IF d = c THEN b ELSE hold[d]) /\ bcat'[d] = (IF d = c THEN place ELSE bcat[d])
    BY <1>1
<1>4. /\ \A d \in Client : hold[d] # b
      /\ place \in {"have", "rw"} /\ (place = "have" => r.valid)
    BY <1>1 DEF HoldersOk
<1> HIDE DEF place
<1>5. HoldersOk'
    <2>1. \A d \in Client : hold'[d] = 0 <=> bcat'[d] = "idle"
        BY <1>1, <1>3, <1>4 DEF HoldersOk
    <2>2. \A d, e \in Client : hold'[d] = hold'[e] /\ d # e => hold'[d] = 0
        BY <1>1, <1>3, <1>4 DEF HoldersOk
    <2>3. \A x \in Buf : buf'[x].busy <=> \E d \in Client : hold'[d] = x
        BY <1>1, <1>3, <1>4 DEF HoldersOk
    <2>4. \A x \in Buf : buf'[x].busy => buf'[x].blk # 0
        BY <1>1, <1>3 DEF HoldersOk
    <2> QED BY <2>1, <2>2, <2>3, <2>4 DEF HoldersOk
<1>6. DataOk'
    <2>1. \A x, y \in Buf : buf'[x].blk = buf'[y].blk /\ x # y => buf'[x].blk = 0
        BY <1>1, <1>3 DEF DataOk
    <2>2. \A x \in Buf : (buf'[x].dirty => buf'[x].valid)
        BY <1>1, <1>3 DEF DataOk
    <2>3. \A x \in Buf : buf'[x].valid => buf'[x].blk # 0 /\ buf'[x].data = lastput'[buf'[x].blk]
        BY <1>1, <1>3 DEF DataOk
    <2>4. \A k \in Blk : platter'[k] = lastput'[k] \/ \E x \in Buf : buf'[x].blk = k /\ buf'[x].dirty
        BY <1>1, <1>3 DEF DataOk
    <2>5. \A d \in Client : bcat'[d] = "have" => buf'[hold'[d]].valid
        BY <1>1, <1>3, <1>4, HeldBuf DEF DataOk
    <2> QED BY <2>1, <2>2, <2>3, <2>4, <2>5 DEF DataOk
<1>7. QueueOk'
    <2>1. ASSUME NEW i \in 1 .. Len(idequeue') PROVE \E d \in Client : hold'[d] = idequeue'[i] /\ bcat'[d] = "wait"
        <3>1. PICK d \in Client : hold[d] = idequeue[i] /\ bcat[d] = "wait"
            BY <1>1 DEF QueueOk
        <3>2. d # c
            BY <3>1
        <3> QED BY <1>3, <3>1, <3>2
    <2>2. ASSUME NEW d \in Client, bcat'[d] = "wait"
          PROVE  \/ \E i \in 1 .. Len(idequeue') : idequeue'[i] = hold'[d]
                 \/ buf'[hold'[d]].valid /\ ~buf'[hold'[d]].dirty
        <3>1. d # c /\ bcat[d] = "wait" /\ hold'[d] = hold[d] /\ hold[d] # b
            BY <1>3, <1>4, <2>2
        <3>2. hold[d] \in Buf /\ buf'[hold[d]] = buf[hold[d]]
            BY <1>3, <3>1, HeldBuf
        <3> QED BY <1>1, <3>1, <3>2 DEF QueueOk
    <2> QED BY <1>1, <2>1, <2>2 DEF QueueOk
<1>8. PendingOk'
    <2>1. ASSUME NEW i \in 1 .. Len(idequeue') PROVE ~Done(idequeue[i])'
        <3>1. idequeue[i] \in Buf /\ idequeue[i] # b
            <4>1. PICK d \in Client : hold[d] = idequeue[i] /\ bcat[d] = "wait"
                BY <1>1 DEF QueueOk
            <4>2. hold[d] \in Buf
                BY <4>1, HeldBuf
            <4> QED BY <1>4, <4>1, <4>2
        <3> QED BY <1>1, <1>3, <3>1 DEF PendingOk, Done
    <2>2. ASSUME NEW d \in Client, bcat'[d] = "rw" PROVE ~Done(hold[d])'
        <3>1. CASE d = c
            BY <1>3, <1>4, <2>2, <3>1 DEF Done, place
        <3>2. CASE d # c
            <4>1. hold[d] \in Buf /\ hold[d] # b /\ bcat[d] = "rw"
                BY <1>3, <1>4, <2>2, <3>2, HeldBuf
            <4> QED BY <1>1, <1>3, <3>2, <4>1 DEF PendingOk, Done
        <3> QED BY <3>1, <3>2
    <2> QED BY <2>1, <2>2 DEF PendingOk
<1> QED BY <1>2, <1>5, <1>6, <1>7, <1>8 DEF BcInv

\* bget() finds the block, recycles a buffer, or panics.
LEMMA BgetStep ==
    ASSUME BcInv, NEW c \in Client, Bget(c)
    PROVE  BcInv'
<1>1. /\ buf \in [Buf -> Buffers]
      /\ lru \in [Buf -> Buf] /\ \A x \in Buf : \E i \in Buf : lru[i] = x
      /\ idequeue \in Seq(Buf) /\ active \in Buf \cup {0}
      /\ platter \in [Blk -> BlkVal] /\ lastput \in [Blk -> BlkVal]
      /\ bcat \in [Client -> {"idle", "rw", "wait", "have"}] /\ hold \in [Client -> Buf \cup {0}]
      /\ 0 \notin Buf /\ 0 \notin Blk /\ HoldersOk /\ DataOk /\ QueueOk /\ PendingOk
    BY BcFacts
<1> HIDE DEF Buf
<1>2. bcat[c] = "idle" /\ UNCHANGED <<lru, idequeue, active, platter, lastput, puts>>
    BY Zenon DEF Bget
<1>3. ASSUME NEW b \in Buf, ~buf[b].busy, buf' = [buf EXCEPT ![b].busy = TRUE], buf[b].blk # 0,
             hold' = [hold EXCEPT ![c] = b],
             bcat' = [bcat EXCEPT ![c] = IF buf[b].valid THEN "have" ELSE "rw"]
      PROVE  BcInv'
    <2> DEFINE r == [buf[b] EXCEPT !.busy = TRUE]
    <2>1. /\ r \in Buffers /\ r.busy /\ r.blk = buf[b].blk /\ r.data = buf[b].data
          /\ r.dirty = buf[b].dirty /\ r.valid = buf[b].valid
        <3>1. buf[b] \in Buffers
            BY <1>1
        <3>2. r \in Buffers
            BY <3>1, Zenon DEF Buffers
        <3> QED BY <3>1, <3>2, Zenon DEF Buffers
    <2>2. buf' = [buf EXCEPT ![b] = r]
        BY <1>3
    <2> HIDE DEF r
    <2> QED BY <1>2, <1>3, <2>1, <2>2, GetsBuf, Zenon
<1>4. ASSUME NEW k \in Blk, NEW b \in Buf, ~buf[b].busy, ~buf[b].dirty, BufsOf(k) = {},
             buf' = [buf EXCEPT ![b] = [@ EXCEPT !.blk = k, !.busy = TRUE, !.valid = FALSE]],
             hold' = [hold EXCEPT ![c] = b], bcat' = [bcat EXCEPT ![c] = "rw"]
      PROVE  BcInv'
    <2> DEFINE r == [buf[b] EXCEPT !.blk = k, !.busy = TRUE, !.valid = FALSE]
    <2>1. /\ r \in Buffers /\ r.busy /\ r.blk = k /\ r.data = buf[b].data
          /\ r.dirty = buf[b].dirty /\ r.valid = FALSE
        <3>1. buf[b] \in Buffers
            BY <1>1
        <3>2. r \in Buffers
            BY <3>1, <1>4, Zenon DEF Buffers
        <3> QED BY <3>1, <3>2, Zenon DEF Buffers
    <2>2. buf' = [buf EXCEPT ![b] = r] /\ \A x \in Buf : buf[x].blk # k
        BY <1>4 DEF BufsOf
    <2> HIDE DEF r
    <2>3. k # 0 /\ bcat' = [bcat EXCEPT ![c] = IF r.valid THEN "have" ELSE "rw"]
        BY <1>1, <1>4, <2>1, Zenon
    <2> QED BY <1>2, <1>4, <2>1, <2>2, <2>3, GetsBuf, Zenon
<1>5. PICK k \in Uses[c] :
        \/ \E b \in BufsOf(k) :
             /\ ~buf[b].busy
             /\ buf' = [buf EXCEPT ![b].busy = TRUE]
             /\ hold' = [hold EXCEPT ![c] = b]
             /\ bcat' = [bcat EXCEPT ![c] = IF buf[b].valid THEN "have" ELSE "rw"]
        \/ BufsOf(k) = {} /\ UNCHANGED <<buf, hold, bcat>>
        \/ /\ BufsOf(k) = {}
           /\ \E i \in Recyclable :
                  LET b == lru[i]
                  IN  /\ buf' = [buf EXCEPT ![b] = [@ EXCEPT !.blk = k, !.busy = TRUE, !.valid = FALSE]]
                      /\ hold' = [hold EXCEPT ![c] = b]
                      /\ bcat' = [bcat EXCEPT ![c] = "rw"]
    BY Zenon DEF Bget
<1>6. k \in Blk
    BY BlockAssumption
<1>7. CASE UNCHANGED <<buf, hold, bcat>>
    BY <1>2, <1>7 DEF BcInv, BcTypes, HoldersOk, DataOk, QueueOk, PendingOk, Done
<1>8. ASSUME NEW b \in BufsOf(k) PROVE b \in Buf /\ buf[b].blk # 0
    BY <1>1, <1>6 DEF BufsOf
<1>9. ASSUME NEW i \in Recyclable PROVE lru[i] \in Buf /\ ~buf[lru[i]].busy /\ ~buf[lru[i]].dirty
    BY <1>1 DEF Recyclable
<1> QED BY <1>3, <1>4, <1>5, <1>6, <1>7, <1>8, <1>9, Zenon

\* iderw() puts the buffer at the end of the queue.
LEMMA IderwStep ==
    ASSUME BcInv, NEW c \in Client, Iderw(c)
    PROVE  BcInv'
<1>1. /\ buf \in [Buf -> Buffers]
      /\ lru \in [Buf -> Buf] /\ \A x \in Buf : \E i \in Buf : lru[i] = x
      /\ idequeue \in Seq(Buf) /\ active \in Buf \cup {0}
      /\ platter \in [Blk -> BlkVal] /\ lastput \in [Blk -> BlkVal]
      /\ bcat \in [Client -> {"idle", "rw", "wait", "have"}] /\ hold \in [Client -> Buf \cup {0}]
      /\ 0 \notin Buf /\ 0 \notin Blk /\ HoldersOk /\ DataOk /\ QueueOk /\ PendingOk
    BY BcFacts
<1>2. /\ bcat[c] = "rw" /\ idequeue' = Append(idequeue, hold[c]) /\ active' = Starts(hold[c])
      /\ bcat' = [bcat EXCEPT ![c] = "wait"] /\ UNCHANGED <<buf, lru, platter, hold, lastput>>
    BY DEF Iderw
<1> HIDE DEF Buf
<1>3. hold[c] \in Buf /\ \A d \in Client : d # c => hold[d] # hold[c]
    BY <1>2, HeldBuf
<1> DEFINE n == Len(idequeue)
<1>4. /\ idequeue' \in Seq(Buf) /\ Len(idequeue') = n + 1 /\ n \in Nat
      /\ (\A i \in 1 .. n : idequeue'[i] = idequeue[i]) /\ idequeue'[n + 1] = hold[c]
    BY <1>1, <1>2, <1>3, AppendProperties
<1>5. active' = idequeue'[1] /\ idequeue' # <<>>
    <2>1. CASE n = 0
        BY <1>1, <1>2, <1>4, <2>1 DEF Starts
    <2>2. CASE n > 0
        <3>1. idequeue # <<>> /\ 1 \in 1 .. n
            BY <1>4, <2>2
        <3>2. active = idequeue[1]
            BY <1>1, <3>1 DEF QueueOk
        <3>3. active' = active
            BY <1>2, <3>1 DEF Starts
        <3> QED BY <1>4, <3>1, <3>2, <3>3
    <2> QED BY <1>4, <2>1, <2>2
<1>6. \A d \in Client : bcat'[d] = IF d = c THEN "wait" ELSE bcat[d]
    BY <1>1, <1>2
<1>7. BcTypes'
    <2>1. active' \in Buf \cup {0}
        BY <1>1, <1>2, <1>3 DEF Starts
    <2> QED BY <1>1, <1>2, <1>4, <2>1 DEF BcTypes
<1> HIDE DEF n
<1>8. HoldersOk'
    BY <1>1, <1>2, <1>6 DEF HoldersOk
<1>9. DataOk'
    BY <1>1, <1>2, <1>6 DEF DataOk
<1>10. QueueOk'
    <2>1. \A i \in 1 .. n : idequeue[i] # hold[c]
        BY <1>1, <1>2, <1>3 DEF QueueOk, n
    <2>2. \A i, j \in 1 .. Len(idequeue') : idequeue'[i] = idequeue'[j] => i = j
        <3>1. \A i \in 1 .. Len(idequeue') : i \in 1 .. n \/ i = n + 1
            BY <1>4
        <3>2. \A i, j \in 1 .. n : idequeue[i] = idequeue[j] => i = j
            BY <1>1 DEF QueueOk, n
        <3> QED BY <1>4, <2>1, <3>1, <3>2
    <2>3. ASSUME NEW i \in 1 .. Len(idequeue') PROVE \E d \in Client : hold'[d] = idequeue'[i] /\ bcat'[d] = "wait"
        <3>1. CASE i = n + 1
            BY <1>2, <1>4, <1>6, <3>1
        <3>2. CASE i \in 1 .. n
            BY <1>1, <1>2, <1>4, <1>6, <3>2 DEF QueueOk, n
        <3> QED BY <1>4, <3>1, <3>2
    <2>4. ASSUME NEW d \in Client, bcat'[d] = "wait"
          PROVE  \/ \E i \in 1 .. Len(idequeue') : idequeue'[i] = hold'[d]
                 \/ buf'[hold'[d]].valid /\ ~buf'[hold'[d]].dirty
        <3>0. n + 1 \in 1 .. Len(idequeue') /\ \A i \in 1 .. n : i \in 1 .. Len(idequeue')
            BY <1>4
        <3>1. CASE d = c
            BY <1>2, <1>4, <3>0, <3>1
        <3>2. CASE d # c
            BY <1>1, <1>2, <1>4, <1>6, <2>4, <3>0, <3>2 DEF QueueOk, n
        <3> QED BY <3>1, <3>2
    <2> QED BY <1>5, <2>2, <2>3, <2>4 DEF QueueOk
<1>11. PendingOk'
    <2>1. \A x : Done(x)' <=> Done(x)
        BY <1>2 DEF Done
    <2>2. ASSUME NEW i \in 1 .. Len(idequeue') PROVE ~Done(idequeue'[i])
        <3>1. CASE i = n + 1
            BY <1>1, <1>2, <1>4, <3>1 DEF PendingOk
        <3>2. CASE i \in 1 .. n
            BY <1>1, <1>4, <3>2 DEF PendingOk, n
        <3> QED BY <1>4, <3>1, <3>2
    <2>3. \A d \in Client : bcat'[d] = "rw" => ~Done(hold'[d])
        BY <1>1, <1>2, <1>6 DEF PendingOk
    <2> QED BY <1>2, <2>2, <2>3 DEF PendingOk, Done
<1> QED BY <1>7, <1>8, <1>9, <1>10, <1>11 DEF BcInv


\* The interrupt: the disk is done with the first buffer of the queue.
LEMMA IdeintrStep ==
    ASSUME BcInv, Ideintr
    PROVE  BcInv'
<1>1. /\ buf \in [Buf -> Buffers]
      /\ lru \in [Buf -> Buf] /\ \A x \in Buf : \E i \in Buf : lru[i] = x
      /\ idequeue \in Seq(Buf) /\ active \in Buf \cup {0}
      /\ platter \in [Blk -> BlkVal] /\ lastput \in [Blk -> BlkVal]
      /\ bcat \in [Client -> {"idle", "rw", "wait", "have"}] /\ hold \in [Client -> Buf \cup {0}]
      /\ 0 \notin Buf /\ 0 \notin Blk /\ HoldersOk /\ DataOk /\ QueueOk /\ PendingOk
    BY BcFacts
<1> DEFINE b == Head(idequeue)
           n == Len(idequeue)
<1>2. idequeue # <<>> /\ UNCHANGED <<lru, bcat, hold, lastput>>
    BY DEF Ideintr
<1>3. /\ n \in Nat \ {0} /\ 1 \in 1 .. n /\ b = idequeue[1] /\ b \in Buf
      /\ idequeue' \in Seq(Buf) /\ Len(idequeue') = n - 1
      /\ \A i \in 1 .. n - 1 : idequeue'[i] = idequeue[i + 1]
    <2>1. idequeue' = Tail(idequeue)
        BY DEF Ideintr
    <2>2. /\ Head(idequeue) \in Buf /\ Tail(idequeue) \in Seq(Buf) /\ Len(Tail(idequeue)) = Len(idequeue) - 1
          /\ \A i \in 1 .. Len(Tail(idequeue)) : Tail(idequeue)[i] = idequeue[i + 1]
        BY <1>1, <1>2, HeadTailProperties
    <2>3. n \in Nat \ {0} /\ b = idequeue[1]
        BY <1>1, <1>2
    <2> QED BY <2>1, <2>2, <2>3
<1> HIDE DEF Buf, b, n
<1>4. active = b
    BY <1>1, <1>2, <1>3 DEF QueueOk
<1>5. PICK c \in Client : hold[c] = b /\ bcat[c] = "wait"
    BY <1>1, <1>3 DEF QueueOk, n
<1>6. buf[b] \in Buffers /\ buf[b].blk \in Blk /\ \A d \in Client : d # c => hold[d] # b
    BY <1>5, HeldBuf
<1> DEFINE k == buf[b].blk
           v == IF buf[b].dirty THEN buf[b].data ELSE platter[k]
           r == [buf[b] EXCEPT !.valid = TRUE, !.dirty = FALSE, !.data = v]
<1>7. /\ buf' = [buf EXCEPT ![b] = r]
      /\ platter' = IF buf[b].dirty THEN [platter EXCEPT ![k] = buf[b].data] ELSE platter
    BY <1>1, <1>3, <1>4, <1>6, Zenon DEF Ideintr, b
<1>8. v \in BlkVal /\ v = lastput[k]
    <2>1. v \in BlkVal
        BY <1>1, <1>6 DEF Buffers
    <2>2. CASE buf[b].dirty
        BY <1>1, <1>3, <2>1, <2>2 DEF DataOk
    <2>3. CASE ~buf[b].dirty
        <3>1. \A x \in Buf : buf[x].blk = k => x = b
            BY <1>1, <1>3, <1>6 DEF DataOk
        <3> QED BY <1>1, <1>3, <1>6, <2>1, <2>3, <3>1, Zenon DEF DataOk
    <2> QED BY <2>1, <2>2, <2>3
<1> HIDE DEF v
<1>9. /\ r \in Buffers /\ r.blk = k /\ r.busy = buf[b].busy /\ r.data = v
      /\ r.valid = TRUE /\ r.dirty = FALSE
    <2>1. r \in Buffers
        BY <1>6, <1>8, Zenon DEF Buffers
    <2> QED BY <1>6, <2>1, Zenon DEF Buffers
<1> HIDE DEF r
<1>10. \A x \in Buf : buf'[x] = IF x = b THEN r ELSE buf[x]
    BY <1>1, <1>3, <1>7
<1>11. platter' \in [Blk -> BlkVal] /\ platter'[k] = lastput[k] /\ \A j \in Blk : j # k => platter'[j] = platter[j]
    BY <1>1, <1>6, <1>7, <1>8 DEF v, Buffers
<1>12. active' = IF idequeue' = <<>> THEN 0 ELSE idequeue'[1]
    <2>1. active' = IF idequeue' = <<>> THEN 0 ELSE Head(idequeue')
        BY DEF Ideintr, NextRequest
    <2> QED BY <1>3, <2>1
<1>13. BcTypes'
    <2>1. buf' \in [Buf -> Buffers]
        BY <1>1, <1>3, <1>7, <1>9
    <2>2. active' \in Buf \cup {0}
        <3>1. CASE idequeue' = <<>>
            BY <1>12, <3>1
        <3>2. CASE idequeue' # <<>>
            <4>1. 1 \in 1 .. Len(idequeue')
                BY <1>3, <3>2
            <4> QED BY <1>3, <1>12, <3>2, <4>1
        <3> QED BY <3>1, <3>2
    <2> QED BY <1>1, <1>2, <1>3, <1>11, <2>1, <2>2 DEF BcTypes
<1>14. HoldersOk'
    BY <1>1, <1>2, <1>9, <1>10 DEF HoldersOk
<1>15. DataOk'
    <2>1. \A x, y \in Buf : buf'[x].blk = buf'[y].blk /\ x # y => buf'[x].blk = 0
        BY <1>1, <1>9, <1>10 DEF DataOk
    <2>2. \A x \in Buf : buf'[x].dirty => buf'[x].valid
        BY <1>1, <1>9, <1>10 DEF DataOk
    <2>3. \A x \in Buf : buf'[x].valid => buf'[x].blk # 0 /\ buf'[x].data = lastput'[buf'[x].blk]
        BY <1>1, <1>2, <1>6, <1>8, <1>9, <1>10 DEF DataOk
    <2>4. ASSUME NEW j \in Blk PROVE platter'[j] = lastput'[j] \/ \E x \in Buf : buf'[x].blk = j /\ buf'[x].dirty
        <3>1. CASE j = k
            BY <1>2, <1>11, <3>1
        <3>2. CASE j # k
            <4>1. platter[j] = lastput[j] \/ \E x \in Buf : buf[x].blk = j /\ buf[x].dirty
                BY <1>1 DEF DataOk
            <4>2. ASSUME NEW x \in Buf, buf[x].blk = j PROVE buf'[x] = buf[x]
                BY <1>10, <3>2, <4>2
            <4> QED BY <1>2, <1>11, <3>2, <4>1, <4>2
        <3> QED BY <3>1, <3>2
    <2>5. \A d \in Client : bcat'[d] = "have" => buf'[hold'[d]].valid
        BY <1>1, <1>2, <1>9, <1>10, HeldBuf, Zenon DEF DataOk
    <2> QED BY <2>1, <2>2, <2>3, <2>4, <2>5 DEF DataOk
<1>16. QueueOk'
    <2>0. \A i \in 1 .. Len(idequeue') : i \in 1 .. n - 1 /\ i \in Int /\ i + 1 \in 1 .. n /\ idequeue'[i] = idequeue[i + 1]
        BY <1>3
    <2>1. \A i, j \in 1 .. Len(idequeue') : idequeue'[i] = idequeue'[j] => i = j
        <3> SUFFICES ASSUME NEW i \in 1 .. Len(idequeue'), NEW j \in 1 .. Len(idequeue'), idequeue'[i] = idequeue'[j]
                     PROVE  i = j
            OBVIOUS
        <3>1. i + 1 = j + 1
            BY <1>1, <2>0 DEF QueueOk, n
        <3> QED BY <2>0, <3>1
    <2>2. \A i \in 1 .. Len(idequeue') : \E d \in Client : hold'[d] = idequeue'[i] /\ bcat'[d] = "wait"
        BY <1>1, <1>2, <2>0 DEF QueueOk, n
    <2>3. ASSUME NEW d \in Client, bcat'[d] = "wait"
          PROVE  \/ \E i \in 1 .. Len(idequeue') : idequeue'[i] = hold'[d]
                 \/ buf'[hold'[d]].valid /\ ~buf'[hold'[d]].dirty
        <3>1. CASE d = c
            BY <1>2, <1>3, <1>5, <1>9, <1>10, <3>1
        <3>2. CASE d # c
            <4>1. hold[d] \in Buf /\ hold[d] # b
                BY <1>2, <1>6, <2>3, <3>2, HeldBuf
            <4>2. CASE \E i \in 1 .. n : idequeue[i] = hold[d]
                <5>1. PICK i \in 1 .. n : idequeue[i] = hold[d]
                    BY <4>2
                <5>2. i # 1
                    BY <1>3, <4>1, <5>1
                <5>3. i - 1 \in 1 .. Len(idequeue') /\ i - 1 \in 1 .. n - 1 /\ (i - 1) + 1 = i
                    BY <1>3, <5>2
                <5>4. idequeue'[i - 1] = hold'[d]
                    BY <1>2, <1>3, <5>1, <5>3
                <5> QED BY <5>3, <5>4
            <4>3. CASE buf[hold[d]].valid /\ ~buf[hold[d]].dirty
                BY <1>2, <1>10, <4>1, <4>3
            <4> QED BY <1>1, <1>2, <2>3, <4>2, <4>3 DEF QueueOk, n
        <3> QED BY <3>1, <3>2
    <2> QED BY <1>12, <2>1, <2>2, <2>3 DEF QueueOk
<1>17. PendingOk'
    <2>1. ASSUME NEW i \in 1 .. Len(idequeue') PROVE ~Done(idequeue[i])'
        <3>1. /\ i + 1 \in 1 .. n /\ i + 1 # 1 /\ idequeue'[i] = idequeue[i + 1]
            BY <1>3
        <3>2. idequeue[i + 1] \in Buf /\ idequeue[i + 1] # b
            BY <1>1, <1>3, <3>1 DEF QueueOk, n
        <3> QED BY <1>1, <1>10, <3>1, <3>2 DEF PendingOk, Done, n
    <2>2. ASSUME NEW d \in Client, bcat'[d] = "rw" PROVE ~Done(hold[d])'
        <3>1. hold[d] \in Buf /\ hold[d] # b /\ bcat[d] = "rw"
            BY <1>2, <1>5, <1>6, <2>2, HeldBuf
        <3> QED BY <1>1, <1>2, <1>10, <3>1 DEF PendingOk, Done
    <2> QED BY <2>1, <2>2 DEF PendingOk
<1> QED BY <1>13, <1>14, <1>15, <1>16, <1>17 DEF BcInv

\* iderw() returns when the transfer is done.
LEMMA IderwDoneStep ==
    ASSUME BcInv, NEW c \in Client, IderwDone(c)
    PROVE  BcInv'
<1>1. /\ buf \in [Buf -> Buffers]
      /\ lru \in [Buf -> Buf] /\ \A x \in Buf : \E i \in Buf : lru[i] = x
      /\ idequeue \in Seq(Buf) /\ active \in Buf \cup {0}
      /\ platter \in [Blk -> BlkVal] /\ lastput \in [Blk -> BlkVal]
      /\ bcat \in [Client -> {"idle", "rw", "wait", "have"}] /\ hold \in [Client -> Buf \cup {0}]
      /\ 0 \notin Buf /\ 0 \notin Blk /\ HoldersOk /\ DataOk /\ QueueOk /\ PendingOk
    BY BcFacts
<1>2. /\ bcat[c] = "wait" /\ buf[hold[c]].valid /\ ~buf[hold[c]].dirty
      /\ bcat' = [bcat EXCEPT ![c] = "have"]
      /\ UNCHANGED <<buf, lru, idequeue, active, platter, hold, lastput>>
    BY DEF IderwDone
<1> HIDE DEF Buf
<1>3. \A d \in Client : bcat'[d] = IF d = c THEN "have" ELSE bcat[d]
    BY <1>1, <1>2
<1>4. BcTypes' /\ HoldersOk' /\ DataOk'
    BY <1>1, <1>2, <1>3 DEF BcTypes, HoldersOk, DataOk
<1>5. QueueOk'
    <2>1. ASSUME NEW i \in 1 .. Len(idequeue') PROVE \E d \in Client : hold'[d] = idequeue'[i] /\ bcat'[d] = "wait"
        <3>1. PICK d \in Client : hold[d] = idequeue[i] /\ bcat[d] = "wait"
            BY <1>1, <1>2 DEF QueueOk
        <3>2. d # c
            BY <1>1, <1>2, <3>1 DEF PendingOk, Done
        <3> QED BY <1>2, <1>3, <3>1, <3>2
    <2> QED BY <1>1, <1>2, <1>3, <2>1 DEF QueueOk
<1>6. PendingOk'
    BY <1>1, <1>2, <1>3 DEF PendingOk, Done
<1> QED BY <1>4, <1>5, <1>6 DEF BcInv


\* A client changes its buffer, and may go on to write it through.
LEMMA PutStep ==
    ASSUME BcInv, NEW c \in Client, BufWrite(c) \/ BufLogWrite(c)
    PROVE  BcInv'
<1>1. /\ buf \in [Buf -> Buffers]
      /\ lru \in [Buf -> Buf] /\ \A x \in Buf : \E i \in Buf : lru[i] = x
      /\ idequeue \in Seq(Buf) /\ active \in Buf \cup {0}
      /\ platter \in [Blk -> BlkVal] /\ lastput \in [Blk -> BlkVal]
      /\ bcat \in [Client -> {"idle", "rw", "wait", "have"}] /\ hold \in [Client -> Buf \cup {0}]
      /\ 0 \notin Buf /\ 0 \notin Blk /\ HoldersOk /\ DataOk /\ QueueOk /\ PendingOk
    BY BcFacts
<1> DEFINE b == hold[c]
           k == buf[b].blk
<1>2. PICK v \in BlkVal : /\ bcat[c] = "have" /\ lastput' = [lastput EXCEPT ![k] = v]
                          /\ buf' = [buf EXCEPT ![b].data = v, ![b].dirty = TRUE]
    BY Zenon DEF BufWrite, BufLogWrite, BufPut
<1>3. /\ bcat' = bcat \/ bcat' = [bcat EXCEPT ![c] = "rw"]
      /\ UNCHANGED <<lru, idequeue, active, platter, hold>>
    BY DEF BufWrite, BufLogWrite
<1> HIDE DEF Buf
<1>4. b \in Buf /\ k \in Blk /\ buf[b] \in Buffers /\ buf[b].valid /\ \A d \in Client : d # c => hold[d] # b
    BY <1>1, <1>2, HeldBuf DEF DataOk
<1> DEFINE r == [buf[b] EXCEPT !.data = v, !.dirty = TRUE]
<1>5. r \in Buffers /\ r.blk = k /\ r.busy = buf[b].busy /\ r.data = v /\ r.valid = buf[b].valid /\ r.dirty = TRUE
    <2>1. r \in Buffers
        BY <1>4, Zenon DEF Buffers
    <2> QED BY <1>4, <2>1, Zenon DEF Buffers
<1>6. buf' = [buf EXCEPT ![b] = r]
    BY <1>1, <1>2, <1>4, Zenon
<1> HIDE DEF b, r
<1>7. \A x \in Buf : buf'[x] = IF x = b THEN r ELSE buf[x]
    BY <1>1, <1>4, <1>6
<1>8. \A j \in Blk : lastput'[j] = IF j = k THEN v ELSE lastput[j]
    BY <1>1, <1>2
<1>9. \A d \in Client : bcat'[d] = bcat[d] \/ (d = c /\ bcat'[d] = "rw")
    BY <1>1, <1>3
<1>10. BcTypes'
    <2>1. bcat' \in [Client -> {"idle", "rw", "wait", "have"}] /\ buf' \in [Buf -> Buffers] /\ lastput' \in [Blk -> BlkVal]
        <3>1. [bcat EXCEPT ![c] = "rw"] \in [Client -> {"idle", "rw", "wait", "have"}]
            BY <1>1
        <3>2. bcat' \in [Client -> {"idle", "rw", "wait", "have"}]
            BY <1>1, <1>3, <3>1
        <3>3. buf' \in [Buf -> Buffers]
            BY <1>1, <1>4, <1>5, <1>6
        <3>4. lastput' \in [Blk -> BlkVal]
            BY <1>1, <1>2, Zenon
        <3> QED BY <3>2, <3>3, <3>4
    <2> QED BY <1>1, <1>3, <2>1 DEF BcTypes
<1>11. HoldersOk'
    BY <1>1, <1>2, <1>3, <1>5, <1>7, <1>9 DEF HoldersOk
<1>12. DataOk'
    <2>0. \A x \in Buf : buf'[x].blk = buf[x].blk
        BY <1>5, <1>7
    <2>1. \A x, y \in Buf : buf'[x].blk = buf'[y].blk /\ x # y => buf'[x].blk = 0
        BY <1>1, <2>0 DEF DataOk
    <2>2. \A x \in Buf : buf'[x].dirty => buf'[x].valid
        BY <1>1, <1>4, <1>5, <1>7, Zenon DEF DataOk
    <2>3. ASSUME NEW x \in Buf, buf'[x].valid PROVE buf'[x].blk # 0 /\ buf'[x].data = lastput'[buf'[x].blk]
        <3>1. CASE x = b
            BY <1>1, <1>4, <1>5, <1>7, <1>8, <3>1
        <3>2. CASE x # b
            <4>1. buf[x].valid /\ buf'[x] = buf[x] /\ buf[x] \in Buffers
                BY <1>1, <1>7, <2>3, <3>2
            <4>2. buf[x].blk # 0 /\ buf[x].blk # k /\ buf[x].data = lastput[buf[x].blk]
                BY <1>1, <1>4, <3>2, <4>1 DEF DataOk
            <4>3. buf[x].blk \in Blk
                BY <4>1, <4>2 DEF Buffers
            <4> QED BY <1>8, <4>1, <4>2, <4>3
        <3> QED BY <3>1, <3>2
    <2>4. ASSUME NEW j \in Blk PROVE platter'[j] = lastput'[j] \/ \E x \in Buf : buf'[x].blk = j /\ buf'[x].dirty
        <3>1. CASE j = k
            BY <1>4, <1>5, <1>7, <3>1
        <3>2. CASE j # k
            <4>1. platter[j] = lastput[j] \/ \E x \in Buf : buf[x].blk = j /\ buf[x].dirty
                BY <1>1 DEF DataOk
            <4>2. ASSUME NEW x \in Buf, buf[x].blk = j PROVE buf'[x] = buf[x]
                BY <1>7, <3>2, <4>2
            <4> QED BY <1>3, <1>8, <3>2, <4>1, <4>2
        <3> QED BY <3>1, <3>2
    <2>5. ASSUME NEW d \in Client, bcat'[d] = "have" PROVE buf'[hold'[d]].valid
        <3>1. bcat[d] = "have"
            BY <1>9, <2>5
        <3>2. hold[d] \in Buf /\ buf[hold[d]].valid
            BY <1>1, <3>1, HeldBuf DEF DataOk
        <3> QED BY <1>3, <1>5, <1>7, <3>2
    <2> QED BY <2>1, <2>2, <2>3, <2>4, <2>5 DEF DataOk
<1>13. \A i \in 1 .. Len(idequeue) : idequeue[i] \in Buf /\ idequeue[i] # b
    <2> SUFFICES ASSUME NEW i \in 1 .. Len(idequeue) PROVE idequeue[i] \in Buf /\ idequeue[i] # b
        OBVIOUS
    <2>1. PICK d \in Client : hold[d] = idequeue[i] /\ bcat[d] = "wait"
        BY <1>1 DEF QueueOk
    <2>2. d # c /\ hold[d] \in Buf
        BY <1>2, <2>1, HeldBuf
    <2> QED BY <1>4, <2>1, <2>2
<1>14. QueueOk'
    <2>1. ASSUME NEW i \in 1 .. Len(idequeue') PROVE \E d \in Client : hold'[d] = idequeue'[i] /\ bcat'[d] = "wait"
        <3>1. PICK d \in Client : hold[d] = idequeue[i] /\ bcat[d] = "wait"
            BY <1>1, <1>3 DEF QueueOk
        <3>2. d # c
            BY <1>2, <3>1
        <3> QED BY <1>3, <1>9, <3>1, <3>2
    <2>2. ASSUME NEW d \in Client, bcat'[d] = "wait"
          PROVE  \/ \E i \in 1 .. Len(idequeue') : idequeue'[i] = hold'[d]
                 \/ buf'[hold'[d]].valid /\ ~buf'[hold'[d]].dirty
        <3>1. bcat[d] = "wait" /\ d # c
            BY <1>2, <1>9, <2>2
        <3>2. hold[d] \in Buf /\ hold[d] # b
            BY <1>4, <3>1, HeldBuf
        <3> QED BY <1>1, <1>3, <1>7, <3>1, <3>2, Zenon DEF QueueOk
    <2> QED BY <1>1, <1>3, <2>1, <2>2 DEF QueueOk
<1>15. PendingOk'
    <2>1. ASSUME NEW i \in 1 .. Len(idequeue') PROVE ~Done(idequeue[i])'
        BY <1>1, <1>3, <1>7, <1>13 DEF PendingOk, Done
    <2>2. ASSUME NEW d \in Client, bcat'[d] = "rw" PROVE ~Done(hold[d])'
        <3>1. CASE d = c
            BY <1>3, <1>4, <1>5, <1>7, <3>1 DEF Done, b
        <3>2. CASE d # c
            <4>1. hold[d] \in Buf /\ hold[d] # b /\ bcat[d] = "rw"
                BY <1>4, <1>9, <2>2, <3>2, HeldBuf
            <4> QED BY <1>1, <1>3, <1>7, <4>1 DEF PendingOk, Done
        <3> QED BY <3>1, <3>2
    <2> QED BY <2>1, <2>2 DEF PendingOk
<1> QED BY <1>10, <1>11, <1>12, <1>14, <1>15 DEF BcInv

\* The list stays a list of all the buffers.
LEMMA MovedList ==
    ASSUME lru \in [Buf -> Buf], \A x \in Buf : \E i \in Buf : lru[i] = x, NEW b \in Buf
    PROVE  Moved(b) \in [Buf -> Buf] /\ \A x \in Buf : \E i \in Buf : Moved(b)[i] = x
<1> DEFINE place == CHOOSE i \in Buf : lru[i] = b
           from(i) == IF i <= place THEN i - 1 ELSE i
<1>1. place \in Buf /\ lru[place] = b
    OBVIOUS
<1>2. 1 \in Buf /\ Buf = 1 .. NBUF /\ NBUF \in Nat
    BY BufAssumption DEF Buf
<1>3. Moved(b) = [i \in Buf |-> IF i = 1 THEN b ELSE lru[from(i)]]
    BY DEF Moved
<1> HIDE DEF place
<1>4. \A i \in Buf : i # 1 => from(i) \in Buf
    BY <1>1, <1>2
<1>5. Moved(b) \in [Buf -> Buf]
    BY <1>3, <1>4
<1>6. ASSUME NEW x \in Buf PROVE \E i \in Buf : Moved(b)[i] = x
    <2>1. CASE x = b
        BY <1>2, <1>3, <2>1
    <2>2. CASE x # b
        <3>1. PICK j \in Buf : lru[j] = x
            OBVIOUS
        <3>2. j # place
            BY <1>1, <2>2, <3>1
        <3>3. CASE j < place
            <4>1. j + 1 \in Buf /\ j + 1 # 1 /\ from(j + 1) = j
                BY <1>1, <1>2, <3>3
            <4> QED BY <1>3, <3>1, <4>1
        <3>4. CASE j > place
            <4>1. j # 1 /\ from(j) = j
                BY <1>1, <1>2, <3>4
            <4> QED BY <1>3, <3>1, <4>1
        <3> QED BY <1>1, <1>2, <3>2, <3>3, <3>4
    <2> QED BY <2>1, <2>2
<1> QED BY <1>5, <1>6

\* brelse() moves the buffer to the head of the list.
LEMMA BrelseStep ==
    ASSUME BcInv, NEW c \in Client, Brelse(c)
    PROVE  BcInv'
<1>1. /\ buf \in [Buf -> Buffers]
      /\ lru \in [Buf -> Buf] /\ \A x \in Buf : \E i \in Buf : lru[i] = x
      /\ idequeue \in Seq(Buf) /\ active \in Buf \cup {0}
      /\ platter \in [Blk -> BlkVal] /\ lastput \in [Blk -> BlkVal]
      /\ bcat \in [Client -> {"idle", "rw", "wait", "have"}] /\ hold \in [Client -> Buf \cup {0}]
      /\ 0 \notin Buf /\ 0 \notin Blk /\ HoldersOk /\ DataOk /\ QueueOk /\ PendingOk
    BY BcFacts
<1> DEFINE b == hold[c]
           r == [buf[b] EXCEPT !.busy = FALSE]
<1>2. /\ bcat[c] = "have" /\ lru' = Moved(b) /\ buf' = [buf EXCEPT ![b] = r]
      /\ bcat' = [bcat EXCEPT ![c] = "idle"] /\ hold' = [hold EXCEPT ![c] = 0]
      /\ UNCHANGED <<idequeue, active, platter, lastput>>
    BY DEF Brelse
<1> HIDE DEF Buf
<1>3. b \in Buf /\ buf[b].blk \in Blk /\ buf[b] \in Buffers /\ \A d \in Client : d # c => hold[d] # b
    BY <1>1, <1>2, HeldBuf
<1>4. /\ r \in Buffers /\ r.blk = buf[b].blk /\ r.busy = FALSE /\ r.data = buf[b].data
      /\ r.valid = buf[b].valid /\ r.dirty = buf[b].dirty
    <2>1. r \in Buffers
        BY <1>3, Zenon DEF Buffers
    <2> QED BY <1>3, <2>1, Zenon DEF Buffers
<1> HIDE DEF b, r
<1>5. /\ \A x \in Buf : buf'[x] = IF x = b THEN r ELSE buf[x]
      /\ \A d \in Client : hold'[d] = (IF d = c THEN 0 ELSE hold[d]) /\ bcat'[d] = (IF d = c THEN "idle" ELSE bcat[d])
    BY <1>1, <1>2, <1>3
<1>6. \A x \in Buf : buf'[x].blk = buf[x].blk /\ buf'[x].data = buf[x].data
          /\ buf'[x].valid = buf[x].valid /\ buf'[x].dirty = buf[x].dirty
    BY <1>4, <1>5
<1>7. BcTypes'
    <2>1. lru' \in [Buf -> Buf] /\ \A x \in Buf : \E i \in Buf : lru'[i] = x
        <3>1. Moved(b) \in [Buf -> Buf] /\ \A x \in Buf : \E i \in Buf : Moved(b)[i] = x
            BY <1>1, <1>3, MovedList, Zenon
        <3> QED BY <1>2, <3>1, Zenon
    <2>2. buf' \in [Buf -> Buffers] /\ hold' \in [Client -> Buf \cup {0}]
          /\ bcat' \in [Client -> {"idle", "rw", "wait", "have"}]
        BY <1>1, <1>2, <1>3, <1>4
    <2> QED BY <1>1, <1>2, <2>1, <2>2 DEF BcTypes
<1>8. HoldersOk'
    <2>1. \A d \in Client : hold'[d] = 0 <=> bcat'[d] = "idle"
        BY <1>1, <1>5 DEF HoldersOk
    <2>2. \A d, e \in Client : hold'[d] = hold'[e] /\ d # e => hold'[d] = 0
        BY <1>1, <1>5 DEF HoldersOk
    <2>3. \A x \in Buf : buf'[x].busy <=> \E d \in Client : hold'[d] = x
        <3> SUFFICES ASSUME NEW x \in Buf PROVE buf'[x].busy <=> \E d \in Client : hold'[d] = x
            OBVIOUS
        <3>1. CASE x = b
            <4>1. ~buf'[x].busy
                BY <1>4, <1>5, <3>1
            <4>2. \A d \in Client : hold'[d] # b
                BY <1>1, <1>3, <1>5
            <4> QED BY <3>1, <4>1, <4>2
        <3>2. CASE x # b
            <4>1. buf'[x] = buf[x] /\ x # 0
                BY <1>1, <1>5, <3>2
            <4>2. \A d \in Client : hold'[d] = x <=> hold[d] = x
                BY <1>5, <3>2, <4>1 DEF b
            <4> QED BY <1>1, <4>1, <4>2 DEF HoldersOk
        <3> QED BY <3>1, <3>2
    <2>4. \A x \in Buf : buf'[x].busy => buf'[x].blk # 0
        BY <1>1, <1>4, <1>5 DEF HoldersOk
    <2> QED BY <2>1, <2>2, <2>3, <2>4 DEF HoldersOk
<1>9. \A d \in Client : bcat'[d] # "idle" => d # c /\ bcat'[d] = bcat[d] /\ hold'[d] = hold[d] /\ hold[d] \in Buf
    BY <1>5, HeldBuf
<1>10. DataOk'
    <2>1. \A x, y \in Buf : buf'[x].blk = buf'[y].blk /\ x # y => buf'[x].blk = 0
        BY <1>1, <1>6 DEF DataOk
    <2>2. \A x \in Buf : buf'[x].dirty => buf'[x].valid
        BY <1>1, <1>6 DEF DataOk
    <2>3. \A x \in Buf : buf'[x].valid => buf'[x].blk # 0 /\ buf'[x].data = lastput'[buf'[x].blk]
        BY <1>1, <1>2, <1>6 DEF DataOk
    <2>4. \A k \in Blk : platter'[k] = lastput'[k] \/ \E x \in Buf : buf'[x].blk = k /\ buf'[x].dirty
        <3>1. \A k \in Blk : platter[k] = lastput[k] \/ \E x \in Buf : buf[x].blk = k /\ buf[x].dirty
            BY <1>1 DEF DataOk
        <3> QED BY <1>2, <1>6, <3>1
    <2>5. \A d \in Client : bcat'[d] = "have" => buf'[hold'[d]].valid
        BY <1>1, <1>6, <1>9 DEF DataOk
    <2> QED BY <2>1, <2>2, <2>3, <2>4, <2>5 DEF DataOk
<1>11. QueueOk'
    <2>1. ASSUME NEW i \in 1 .. Len(idequeue') PROVE \E d \in Client : hold'[d] = idequeue'[i] /\ bcat'[d] = "wait"
        <3>1. PICK d \in Client : hold[d] = idequeue[i] /\ bcat[d] = "wait"
            BY <1>1, <1>2 DEF QueueOk
        <3>2. d # c
            BY <1>2, <3>1
        <3> QED BY <1>2, <1>5, <3>1, <3>2
    <2>2. \A d \in Client : bcat'[d] = "wait" =>
             \/ \E i \in 1 .. Len(idequeue') : idequeue'[i] = hold'[d]
             \/ buf'[hold'[d]].valid /\ ~buf'[hold'[d]].dirty
        <3>1. \A d \in Client : bcat[d] = "wait" =>
                 \/ \E i \in 1 .. Len(idequeue) : idequeue[i] = hold[d]
                 \/ buf[hold[d]].valid /\ ~buf[hold[d]].dirty
            BY <1>1 DEF QueueOk
        <3> QED BY <1>2, <1>6, <1>9, <3>1
    <2> QED BY <1>1, <1>2, <2>1, <2>2 DEF QueueOk
<1>12. PendingOk'
    <2>1. \A i \in 1 .. Len(idequeue) : idequeue[i] \in Buf
        <3> SUFFICES ASSUME NEW i \in 1 .. Len(idequeue) PROVE idequeue[i] \in Buf
            OBVIOUS
        <3> QED BY <1>1, ElementOfSeq
    <2>2. \A x \in Buf : Done(x)' <=> Done(x)
        BY <1>6 DEF Done
    <2>3. \A i \in 1 .. Len(idequeue') : ~Done(idequeue'[i])
        BY <1>1, <1>2 DEF PendingOk
    <2> QED BY <1>1, <1>2, <1>6, <1>9, <2>1 DEF PendingOk, Done
<1> QED BY <1>7, <1>8, <1>10, <1>11, <1>12 DEF BcInv

\* The invariant holds in every reachable state.
LEMMA BcInvariant == BcSpec => []BcInv
<1>1. BcInit => BcInv
    <2> SUFFICES ASSUME BcInit PROVE BcInv
        OBVIOUS
    <2>1. 0 \notin Buf /\ 0 \notin Blk /\ 0 \in BlkVal /\ NBUF \in Nat
        BY BlockAssumption, BufAssumption DEF Buf
    <2>2. lru \in [Buf -> Buf] /\ \A x \in Buf : \E i \in Buf : lru[i] = x
        <3>1. \A x \in Buf : NBUF + 1 - x \in Buf /\ NBUF + 1 - (NBUF + 1 - x) = x
            BY <2>1 DEF Buf
        <3>2. lru = [k \in Buf |-> NBUF + 1 - k]
            BY DEF BcInit
        <3> HIDE DEF Buf
        <3> QED BY <3>1, <3>2
    <2> HIDE DEF Buf
    <2>3. BcTypes
        BY <2>1, <2>2 DEF BcInit, BcTypes, Buffers
    <2>4. idequeue = <<>> /\ Len(idequeue) = 0
        BY DEF BcInit
    <2> QED BY <2>1, <2>3, <2>4 DEF BcInit, BcInv, HoldersOk, DataOk, QueueOk, PendingOk
<1>2. BcInv /\ [BcNext]_bcvars => BcInv'
    <2> SUFFICES ASSUME BcInv, [BcNext]_bcvars PROVE BcInv'
        OBVIOUS
    <2>1. CASE UNCHANGED bcvars
        BY <2>1 DEF bcvars, BcInv, BcTypes, HoldersOk, DataOk, QueueOk, PendingOk, Done
    <2>2. CASE BcNext
        BY <2>2, BgetStep, IderwStep, IdeintrStep, IderwDoneStep, PutStep, BrelseStep, Zenon DEF BcNext, BcStep
    <2> QED BY <2>1, <2>2
<1> QED BY <1>1, <1>2, PTL DEF BcSpec

\* A client that has a buffer from bread() sees what was last put into the block,
\* by whichever client and whether or not it has reached the disk, and no block has
\* two buffers: bget() recycles no buffer that is busy or dirty.
THEOREM CacheSeesLastWrite == BcSpec => []SeesLastWrite
<1>1. BcInv => SeesLastWrite
    <2> SUFFICES ASSUME BcInv PROVE SeesLastWrite
        OBVIOUS
    <2>1. \A c \in Client : bcat[c] = "have" => hold[c] \in Buf
        BY HeldBuf
    <2> HIDE DEF Buf
    <2> QED BY <2>1 DEF BcInv, HoldersOk, DataOk, SeesLastWrite
<1> QED BY <1>1, BcInvariant, PTL

\* idequeue is served in order: the disk works on the first buffer of the queue, no
\* buffer is in it twice, and who waits in iderw() is in it or has been served.
THEOREM DiskQueueServed == BcSpec => []DiskServesHead
<1>1. BcInv => DiskServesHead
    <2> SUFFICES ASSUME BcInv PROVE DiskServesHead
        OBVIOUS
    <2>1. idequeue \in Seq(Buf) /\ QueueOk
        BY DEF BcInv, BcTypes
    <2> HIDE DEF Buf
    <2>2. DOMAIN idequeue = 1 .. Len(idequeue) /\ (idequeue # <<>> => Head(idequeue) = idequeue[1])
        BY <2>1
    <2> QED BY <2>1, <2>2 DEF QueueOk, DiskServesHead, IsInjective, Range
<1> QED BY <1>1, BcInvariant, PTL

\* The flags, the list and the queue of buffers keep their types, and brelse() loses
\* no buffer from the list.
THEOREM CacheTypes == BcSpec => []BcTypeOK
<1>1. BcInv => BcTypeOK
    <2> SUFFICES ASSUME BcInv PROVE BcTypeOK
        OBVIOUS
    <2>1. lru \in [1 .. NBUF -> Buf] /\ NBUF \in Nat /\ BcTypes
        BY BufAssumption, Zenon DEF BcInv, BcTypes, Buf
    <2> HIDE DEF Buf
    <2>2. Len(lru) = NBUF /\ DOMAIN lru = Buf
        BY <2>1 DEF Buf
    <2>3. Range(lru) = Buf
        BY <2>1, <2>2 DEF BcTypes, Range
    <2> QED BY <2>1, <2>2, <2>3, Zenon DEF BcTypes, Buffers, BcTypeOK
<1> QED BY <1>1, BcInvariant, PTL
=============================================================================
