-------------------------------- MODULE Log ---------------------------------
(***************************************************************************)
(* The logging layer of the file system (log.c) on a disk that loses power *)
(* between any two block writes.  Processes bracket their system calls     *)
(* with begin_op() and end_op() and write blocks with log_write(); the     *)
(* last end_op() commits.  After a crash initlog() replays the log.        *)
(*                                                                         *)
(* Block addresses are relative to log.start, as in the image that mkfs    *)
(* lays out: 0 is the log header, 1 .. NLog-1 the log's data blocks, and   *)
(* the rest of the file system (Home) follows the log without a gap.       *)
(* The buffer cache is what bread() returns for each address, and the set  *)
(* of buffers with B_DIRTY; the log takes each buffer it works on with     *)
(* B_BUSY, which "held" records for log_write()'s callers.                 *)
(***************************************************************************)
EXTENDS Integers, Sequences, FiniteSets

CONSTANTS
    Proc,         \* processes that make file system calls
    NHome,        \* number of blocks after the log
    Val,          \* contents of a block
    MAXOPBLOCKS,  \* blocks begin_op() reserves for a system call (param.h)
    LOGSIZE,      \* entries of the header's block array (param.h)
    NLog,         \* sb.nlog, the blocks mkfs gives to the log, header included
    OpWrites,     \* distinct blocks a system call really writes
    Crashes       \* whether the machine may lose power

ASSUME SizeAssumption ==
    /\ NHome \in Nat \ {0}
    /\ MAXOPBLOCKS \in Nat \ {0}
    /\ LOGSIZE \in Nat /\ LOGSIZE >= MAXOPBLOCKS
    /\ NLog \in Nat \ {0, 1}
    /\ LOGSIZE < NLog + NHome
    /\ OpWrites \in Nat
ASSUME ProcAssumption == IsFiniteSet(Proc)
ASSUME ValAssumption == Val # {}
ASSUME CrashAssumption == Crashes \in BOOLEAN

Home == NLog .. NLog + NHome - 1
Addr == 1 .. NLog + NHome - 1
NoBlock == 0

VARIABLES
    pc,           \* per process: where it is in log.c
    wrote,        \* per process: the blocks this system call has logged so far
    held,         \* per process: the B_BUSY buffer it is about to log
    lh,           \* log.lh: the block numbers of the transaction
    outstanding, committing,
    tail,         \* write_log() and install_trans(): their loop variable
    cache, dirty, \* the buffer cache
    disk, head,   \* the disk: blocks, and the block numbers in the log header
    boot          \* progress of initlog()

vars == <<pc, wrote, held, lh, outstanding, committing, tail, cache, dirty, disk, head, boot>>

Places ==
    {"idle",       \* outside begin_op() .. end_op()
     "begin",      \* in begin_op()'s loop, woken
     "asleep",     \* in begin_op(), asleep on &log
     "op",         \* inside a system call
     "append",     \* log_write(), past its tests
     "write_log", "write_head", "install_trans", "clear",  \* commit()
     "done",       \* end_op(), after commit()
     "panic"}

\* Type correctness.
TypeOK ==
    /\ pc \in [Proc -> Places]
    /\ wrote \in [Proc -> SUBSET Home]
    /\ held \in [Proc -> Home \cup {NoBlock}]
    /\ lh \in Seq(Home)
    /\ outstanding \in Nat
    /\ committing \in BOOLEAN
    /\ tail \in Nat \ {0}
    /\ cache \in [Addr -> Val]
    /\ dirty \in SUBSET Addr
    /\ disk \in [Addr -> Val]
    /\ head \in Seq(Home)
    /\ boot \in {"up", "read_head", "install_trans", "clear"}

\* mkfs wrote the disk (its blocks filled with one value), with an empty log,
\* and the machine has booted.
Init ==
    /\ pc = [p \in Proc |-> "idle"]
    /\ wrote = [p \in Proc |-> {}]
    /\ held = [p \in Proc |-> NoBlock]
    /\ lh = <<>>
    /\ outstanding = 0
    /\ committing = FALSE
    /\ tail = 1
    /\ dirty = {}
    /\ \E v \in Val : disk = [a \in Addr |-> v]
    /\ cache = disk
    /\ head = <<>>
    /\ boot = "up"

-----------------------------------------------------------------------------
(* begin_op() *)

Goto(p, place) == pc' = [pc EXCEPT ![p] = place]

\* wakeup(&log), with the caller's own move to place.
WakeupAnd(p, place) ==
    pc' = [q \in Proc |-> IF q = p THEN place ELSE IF pc[q] = "asleep" THEN "begin" ELSE pc[q]]

HasRoom == Len(lh) + (outstanding + 1) * MAXOPBLOCKS <= LOGSIZE

BeginOp(p) ==
    /\ boot = "up"
    /\ pc[p] \in {"idle", "begin"}
    /\ ~committing /\ HasRoom
    /\ outstanding' = outstanding + 1
    /\ Goto(p, "op")
    /\ UNCHANGED <<wrote, held, lh, committing, tail, cache, dirty, disk, head, boot>>

\* sleep(&log, &log.lock)
BeginSleep(p) ==
    /\ boot = "up"
    /\ pc[p] \in {"idle", "begin"}
    /\ committing \/ ~HasRoom
    /\ Goto(p, "asleep")
    /\ UNCHANGED <<wrote, held, lh, outstanding, committing, tail, cache, dirty, disk, head, boot>>

-----------------------------------------------------------------------------
(* log_write(b) by a caller that has b B_BUSY.  Its tests read log.lh.n      *)
(* without log.lock.                                                         *)

MayWrite(p, b) ==
    /\ pc[p] = "op"
    /\ b \in wrote[p] \/ Cardinality(wrote[p]) < OpWrites
    /\ \A q \in Proc : held[q] # b

LogFull == Len(lh) >= LOGSIZE \/ Len(lh) >= NLog - 1

LogWrite(p, b) ==
    /\ MayWrite(p, b)
    /\ ~LogFull
    /\ held' = [held EXCEPT ![p] = b]
    /\ Goto(p, "append")
    /\ UNCHANGED <<wrote, lh, outstanding, committing, tail, cache, dirty, disk, head, boot>>

\* panic("too big a transaction")
LogPanic(p, b) ==
    /\ MayWrite(p, b)
    /\ LogFull
    /\ held' = [held EXCEPT ![p] = b]
    /\ Goto(p, "panic")
    /\ UNCHANGED <<wrote, lh, outstanding, committing, tail, cache, dirty, disk, head, boot>>

Logged(s) == {s[i] : i \in 1 .. Len(s)}

\* Mutant: a block that is logged already is logged again.
LogAppendAgain(p, v) ==
    /\ pc[p] = "append"
    /\ LET b == held[p] IN
        /\ lh' = Append(lh, b)
        /\ cache' = [cache EXCEPT ![b] = v]
        /\ dirty' = dirty \cup {b}
        /\ wrote' = [wrote EXCEPT ![p] = @ \cup {b}]
    /\ held' = [held EXCEPT ![p] = NoBlock]
    /\ Goto(p, "op")
    /\ UNCHANGED <<outstanding, committing, tail, disk, head, boot>>

\* log_write() under log.lock: absorb b or append it, set B_DIRTY; brelse(b).
\* The caller has put v into the buffer.
LogAppend(p, v) ==
    /\ pc[p] = "append"
    /\ LET b == held[p] IN
        /\ lh' = IF b \in Logged(lh) THEN lh ELSE Append(lh, b)
        /\ cache' = [cache EXCEPT ![b] = v]
        /\ dirty' = dirty \cup {b}
        /\ wrote' = [wrote EXCEPT ![p] = @ \cup {b}]
    /\ held' = [held EXCEPT ![p] = NoBlock]
    /\ Goto(p, "op")
    /\ UNCHANGED <<outstanding, committing, tail, disk, head, boot>>

\* bget() recycles a clean buffer that nobody holds; a later bread() of the
\* block gets what is on disk.
Evict(b) ==
    /\ b \notin dirty
    /\ \A p \in Proc : held[p] # b
    /\ cache' = [cache EXCEPT ![b] = disk[b]]
    /\ UNCHANGED <<pc, wrote, held, lh, outstanding, committing, tail, dirty, disk, head, boot>>

-----------------------------------------------------------------------------
(* end_op() and commit() *)

\* Another system call is outstanding: begin_op() may wait for log space.
EndOp(p) ==
    /\ pc[p] = "op"
    /\ outstanding > 1
    /\ outstanding' = outstanding - 1
    /\ wrote' = [wrote EXCEPT ![p] = {}]
    /\ WakeupAnd(p, "idle")
    /\ UNCHANGED <<held, lh, committing, tail, cache, dirty, disk, head, boot>>

\* Mutant: the header is written without the blocks.
EndOpCommitHeader(p) ==
    /\ pc[p] = "op"
    /\ outstanding = 1
    /\ outstanding' = 0
    /\ committing' = TRUE
    /\ wrote' = [wrote EXCEPT ![p] = {}]
    /\ Goto(p, IF lh = <<>> THEN "done" ELSE "write_head")
    /\ UNCHANGED <<held, lh, tail, cache, dirty, disk, head, boot>>

\* The last one: commit, if anything was logged.
EndOpCommit(p) ==
    /\ pc[p] = "op"
    /\ outstanding = 1
    /\ outstanding' = 0
    /\ committing' = TRUE
    /\ wrote' = [wrote EXCEPT ![p] = {}]
    /\ Goto(p, IF lh = <<>> THEN "done" ELSE "write_log")
    /\ UNCHANGED <<held, lh, tail, cache, dirty, disk, head, boot>>

\* bwrite() of buffer a with contents v: on disk, and no longer B_DIRTY.
Bwrite(a, v) ==
    /\ cache' = [cache EXCEPT ![a] = v]
    /\ disk' = [disk EXCEPT ![a] = v]
    /\ dirty' = dirty \ {a}

\* Mutant: off by one: the next loop starts at the header.
AdvanceToZero(p, next) ==
    IF tail < Len(lh) THEN tail' = tail + 1 /\ UNCHANGED pc ELSE tail' = 0 /\ Goto(p, next)

\* One turn of a loop over log.lh.block[]: tail is left at 1 after the last.
Advance(p, next) ==
    IF tail < Len(lh) THEN tail' = tail + 1 /\ UNCHANGED pc ELSE tail' = 1 /\ Goto(p, next)

\* write_log(): copy one modified block from the cache to the log.
WriteLog(p) ==
    /\ pc[p] = "write_log"
    /\ Bwrite(tail, cache[lh[tail]])
    /\ Advance(p, "write_head")
    /\ UNCHANGED <<wrote, held, lh, outstanding, committing, head, boot>>

\* write_head(): the true point at which the transaction commits.
WriteHead(p) ==
    /\ pc[p] = "write_head"
    /\ head' = lh
    /\ Goto(p, "install_trans")
    /\ UNCHANGED <<wrote, held, lh, outstanding, committing, tail, cache, dirty, disk, boot>>

\* install_trans(): copy one block from the log to its home.
InstallTrans(p) ==
    /\ pc[p] = "install_trans"
    /\ Bwrite(lh[tail], cache[tail])
    /\ Advance(p, "clear")
    /\ UNCHANGED <<wrote, held, lh, outstanding, committing, head, boot>>

\* log.lh.n = 0; write_head()
ClearHead(p) ==
    /\ pc[p] = "clear"
    /\ lh' = <<>>
    /\ head' = <<>>
    /\ Goto(p, "done")
    /\ UNCHANGED <<wrote, held, outstanding, committing, tail, cache, dirty, disk, boot>>

\* Mutant: no wakeup after the commit.
EndOpDoneQuiet(p) ==
    /\ pc[p] = "done"
    /\ committing' = FALSE
    /\ Goto(p, "idle")
    /\ UNCHANGED <<wrote, held, lh, outstanding, tail, cache, dirty, disk, head, boot>>

EndOpDone(p) ==
    /\ pc[p] = "done"
    /\ committing' = FALSE
    /\ WakeupAnd(p, "idle")
    /\ UNCHANGED <<wrote, held, lh, outstanding, tail, cache, dirty, disk, head, boot>>

-----------------------------------------------------------------------------
(* A crash, and initlog(), which the first process runs before any other.    *)

\* Memory is lost; nothing is cached, so bread() will get what is on disk.
Crash ==
    /\ Crashes
    /\ pc' = [p \in Proc |-> "idle"]
    /\ wrote' = [p \in Proc |-> {}]
    /\ held' = [p \in Proc |-> NoBlock]
    /\ lh' = <<>>
    /\ outstanding' = 0
    /\ committing' = FALSE
    /\ tail' = 1
    /\ cache' = disk
    /\ dirty' = {}
    /\ boot' = "read_head"
    /\ UNCHANGED <<disk, head>>

ReadHead ==
    /\ boot = "read_head"
    /\ lh' = head
    /\ boot' = IF head = <<>> THEN "clear" ELSE "install_trans"
    /\ UNCHANGED <<pc, wrote, held, outstanding, committing, tail, cache, dirty, disk, head>>

Recover ==
    /\ boot = "install_trans"
    /\ Bwrite(lh[tail], cache[tail])
    /\ IF tail < Len(lh) THEN tail' = tail + 1 /\ UNCHANGED boot ELSE tail' = 1 /\ boot' = "clear"
    /\ UNCHANGED <<pc, wrote, held, lh, outstanding, committing, head>>

RecoverClear ==
    /\ boot = "clear"
    /\ lh' = <<>>
    /\ head' = <<>>
    /\ boot' = "up"
    /\ UNCHANGED <<pc, wrote, held, outstanding, committing, tail, cache, dirty, disk>>

Commit(p) ==
    \/ WriteLog(p) \/ WriteHead(p) \/ InstallTrans(p) \/ ClearHead(p) \/ EndOpDone(p)

Next ==
    \/ \E p \in Proc :
        \/ BeginOp(p) \/ BeginSleep(p)
        \/ \E b \in Home : LogWrite(p, b) \/ LogPanic(p, b)
        \/ \E v \in Val : LogAppend(p, v)
        \/ EndOp(p) \/ EndOpCommit(p)
        \/ Commit(p)
    \/ \E b \in Home : Evict(b)
    \/ Crash \/ ReadHead \/ Recover \/ RecoverClear

Spec == Init /\ [][Next]_vars

-----------------------------------------------------------------------------
(* Properties. *)

\* The blocks as initlog() would leave them if the power failed now.
Recovered ==
    [b \in Home |-> IF b \in Logged(head)
                    THEN disk[CHOOSE i \in 1 .. Len(head) : head[i] = b]
                    ELSE disk[b]]

InCall == {p \in Proc : pc[p] \in {"op", "append", "panic"}}

Abstract == INSTANCE AtomicDisk WITH
    mem    <- IF boot = "up" THEN [b \in Home |-> cache[b]] ELSE Recovered,
    stable <- Recovered,
    active <- InCall

\* All or nothing: the log implements blocks that become durable together,
\* at a moment when no system call is active, and that a crash at any point
\* of commit() or of recovery, and another one during that recovery, brings
\* back as they were at the last such moment.  What the file system reads is
\* what it wrote, whatever the cache evicts and whenever the log installs.
AtomicCommit == Abstract!ASpec

\* begin_op()'s reservation is enough for log_write(): nobody panics with
\* "too big a transaction".
NoPanic == \A p \in Proc : pc[p] # "panic"

\* The transaction fits into the data blocks of the log: write_log() does not
\* run past the log into the blocks that follow it on disk.
InLogArea == Len(lh) <= NLog - 1

\* Nobody sleeps in begin_op() without somebody who will wake them: a
\* commit in progress, or a system call that has not reached end_op().
SleeperHasWaker == (\E p \in Proc : pc[p] = "asleep") => committing \/ outstanding > 0

=============================================================================
