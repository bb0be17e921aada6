-------------------------------- MODULE Pipe --------------------------------
(***************************************************************************)
(* One pipe (pipe.c), the two open files that refer to it (file.c), and    *)
(* the processes that have descriptors for them.  Descriptors are passed   *)
(* on by fork() and given up by close() or exit(); the last one of an end  *)
(* closes that end, and the last end frees the pipe.                       *)
(*                                                                         *)
(* p->lock is explicit.  sleep() is split at the moment where it takes     *)
(* ptable.lock and releases p->lock: kill() needs only ptable.lock and may *)
(* come between the test of killed and the sleep.                          *)
(***************************************************************************)
EXTENDS Integers, Sequences

CONSTANTS
    PipeUser,      \* processes
    Creator,   \* the process that called pipe()
    PipeByte,      \* contents of a byte
    PIPESIZE,  \* bytes the pipe buffers
    Wrap,      \* nread and nwrite are unsigned words: they count modulo Wrap
    MaxCount,  \* bound: the largest n a program passes to read() or write()
    Killable,  \* processes that may be killed
    NoUser     \* nobody

ASSUME PipeUserAssumption == Creator \in PipeUser /\ NoUser \notin PipeUser
ASSUME PipeSizeAssumption ==
    /\ PIPESIZE \in Nat \ {0}
    /\ Wrap \in Nat /\ Wrap > PIPESIZE /\ Wrap % PIPESIZE = 0
ASSUME MaxCountAssumption == MaxCount \in Nat
ASSUME KillableAssumption == Killable \subseteq PipeUser

PipeEnds == {"read", "write"}

VARIABLES
    pdata, nread, nwrite, \* struct pipe
    open,                \* readopen and writeopen, as the set of ends still open
    freed,               \* the page of the pipe went back to kfree()
    plock,               \* the process that holds p->lock
    fds,                 \* per end: the processes that have a descriptor for it
    pkilled,             \* proc->killed
    pp,                  \* per process: where it is in pipe.c
    left                 \* per process: n - i, the bytes its call has still to move

pipe == <<pdata, nread, nwrite>>
pipevars == <<pipe, open, freed, plock, fds, pkilled, pp, left>>

PipePlaces ==
    {"user",
     "read", "tosleep_r", "asleep_r", "woken_r", "copy",  \* piperead()
     "write", "tosleep_w", "asleep_w", "woken_w",         \* pipewrite()
     "close_r", "close_w"}                                \* before pipeclose()

\* Type correctness.
PipeTypeOK ==
    /\ pdata \in [0 .. PIPESIZE - 1 -> PipeByte]
    /\ nread \in 0 .. Wrap - 1
    /\ nwrite \in 0 .. Wrap - 1
    /\ open \in SUBSET PipeEnds
    /\ freed \in BOOLEAN
    /\ plock \in PipeUser \cup {NoUser}
    /\ fds \in [PipeEnds -> SUBSET PipeUser]
    /\ pkilled \in [PipeUser -> BOOLEAN]
    /\ pp \in [PipeUser -> PipePlaces]
    /\ left \in [PipeUser -> 0 .. MaxCount]

\* pipealloc(), and the two descriptors of sys_pipe().  The page is not cleared.
PipeInit ==
    /\ pdata \in [0 .. PIPESIZE - 1 -> PipeByte]
    /\ nread = 0
    /\ nwrite = 0
    /\ open = PipeEnds
    /\ freed = FALSE
    /\ plock = NoUser
    /\ fds = [e \in PipeEnds |-> {Creator}]
    /\ pkilled = [p \in PipeUser |-> FALSE]
    /\ pp = [p \in PipeUser |-> "user"]
    /\ left = [p \in PipeUser |-> 0]

\* Mutant: the sum is not reduced to a word.
FullUnwrapped == nwrite = nread + PIPESIZE

PipeFull == nwrite = (nread + PIPESIZE) % Wrap

PipeEmpty == nread = nwrite

PipeGoto(p, place) == pp' = [pp EXCEPT ![p] = place]

\* wakeup(), with the caller's own move to place.
PipeWakeup(asleep, woken, p, place) ==
    pp' = [q \in PipeUser |-> IF q = p THEN place ELSE IF pp[q] = asleep THEN woken ELSE pp[q]]

PipeAcquire(p) == plock = NoUser /\ plock' = p
PipeRelease(p) == plock = p /\ plock' = NoUser

\* The process is in user mode and may make a system call.
PipeCalls(p) == pp[p] = "user" /\ ~pkilled[p]

-----------------------------------------------------------------------------
(* pipewrite() *)

WriteCall(p, k) ==
    /\ PipeCalls(p) /\ p \in fds["write"]
    /\ PipeAcquire(p)
    /\ left' = [left EXCEPT ![p] = k]
    /\ PipeGoto(p, "write")
    /\ UNCHANGED <<pipe, open, freed, fds, pkilled>>

\* Mutant: the loop runs while i <= n.
WriteByteMore(p, b) ==
    /\ pp[p] = "write"
    /\ left[p] >= 0 /\ ~PipeFull
    /\ pdata' = [pdata EXCEPT ![nwrite % PIPESIZE] = b]
    /\ nwrite' = (nwrite + 1) % Wrap
    /\ left' = [left EXCEPT ![p] = @ - 1]
    /\ UNCHANGED <<nread, open, freed, plock, fds, pkilled, pp>>

WriteByte(p, b) ==
    /\ pp[p] = "write"
    /\ left[p] > 0 /\ ~PipeFull
    /\ pdata' = [pdata EXCEPT ![nwrite % PIPESIZE] = b]
    /\ nwrite' = (nwrite + 1) % Wrap
    /\ left' = [left EXCEPT ![p] = @ - 1]
    /\ UNCHANGED <<nread, open, freed, plock, fds, pkilled, pp>>

\* Full, and nobody will read, or killed: return -1.
WriteFail(p) ==
    /\ pp[p] = "write"
    /\ left[p] > 0 /\ PipeFull
    /\ "read" \notin open \/ pkilled[p]
    /\ PipeRelease(p)
    /\ PipeGoto(p, "user")
    /\ left' = [left EXCEPT ![p] = 0]
    /\ UNCHANGED <<pipe, open, freed, fds, pkilled>>

\* Full: wakeup(&p->nread), and on to sleep(&p->nwrite).
WriteFull(p) ==
    /\ pp[p] = "write"
    /\ left[p] > 0 /\ PipeFull
    /\ "read" \in open /\ ~pkilled[p]
    /\ PipeWakeup("asleep_r", "woken_r", p, "tosleep_w")
    /\ UNCHANGED <<pipe, open, freed, plock, fds, pkilled, left>>

\* All bytes are in: wakeup(&p->nread), release, return n.
WriteDone(p) ==
    /\ pp[p] = "write"
    /\ left[p] = 0
    /\ PipeRelease(p)
    /\ PipeWakeup("asleep_r", "woken_r", p, "user")
    /\ UNCHANGED <<pipe, open, freed, fds, pkilled, left>>

-----------------------------------------------------------------------------
(* piperead() *)

ReadCall(p, k) ==
    /\ PipeCalls(p) /\ p \in fds["read"]
    /\ PipeAcquire(p)
    /\ left' = [left EXCEPT ![p] = k]
    /\ PipeGoto(p, "read")
    /\ UNCHANGED <<pipe, open, freed, fds, pkilled>>

\* Empty, but somebody may write: killed, return -1 ...
ReadFail(p) ==
    /\ pp[p] = "read"
    /\ PipeEmpty /\ "write" \in open /\ pkilled[p]
    /\ PipeRelease(p)
    /\ PipeGoto(p, "user")
    /\ left' = [left EXCEPT ![p] = 0]
    /\ UNCHANGED <<pipe, open, freed, fds, pkilled>>

\* ... or on to sleep(&p->nread).
ReadEmpty(p) ==
    /\ pp[p] = "read"
    /\ PipeEmpty /\ "write" \in open /\ ~pkilled[p]
    /\ PipeGoto(p, "tosleep_r")
    /\ UNCHANGED <<pipe, open, freed, plock, fds, pkilled, left>>

ReadReady(p) ==
    /\ pp[p] = "read"
    /\ ~PipeEmpty \/ "write" \notin open
    /\ PipeGoto(p, "copy")
    /\ UNCHANGED <<pipe, open, freed, plock, fds, pkilled, left>>

ReadByte(p) ==
    /\ pp[p] = "copy"
    /\ left[p] > 0 /\ ~PipeEmpty
    /\ nread' = (nread + 1) % Wrap
    /\ left' = [left EXCEPT ![p] = @ - 1]
    /\ UNCHANGED <<pdata, nwrite, open, freed, plock, fds, pkilled, pp>>

\* Mutant: no wakeup of the writers.
ReadDoneQuiet(p) ==
    /\ pp[p] = "copy"
    /\ left[p] = 0 \/ PipeEmpty
    /\ PipeRelease(p)
    /\ PipeGoto(p, "user")
    /\ left' = [left EXCEPT ![p] = 0]
    /\ UNCHANGED <<pipe, open, freed, fds, pkilled>>

\* wakeup(&p->nwrite), release, return i.
ReadDone(p) ==
    /\ pp[p] = "copy"
    /\ left[p] = 0 \/ PipeEmpty
    /\ PipeRelease(p)
    /\ PipeWakeup("asleep_w", "woken_w", p, "user")
    /\ left' = [left EXCEPT ![p] = 0]
    /\ UNCHANGED <<pipe, open, freed, fds, pkilled>>

-----------------------------------------------------------------------------
(* sleep(), and the way out of it *)

Sleep(p) ==
    /\ pp[p] \in {"tosleep_r", "tosleep_w"}
    /\ PipeRelease(p)
    /\ PipeGoto(p, IF pp[p] = "tosleep_r" THEN "asleep_r" ELSE "asleep_w")
    /\ UNCHANGED <<pipe, open, freed, fds, pkilled, left>>

Reacquire(p) ==
    /\ pp[p] \in {"woken_r", "woken_w"}
    /\ PipeAcquire(p)
    /\ PipeGoto(p, IF pp[p] = "woken_r" THEN "read" ELSE "write")
    /\ UNCHANGED <<pipe, open, freed, fds, pkilled, left>>

\* kill(): the process is marked, and woken if it is asleep.
KillUser(p) ==
    /\ p \in Killable
    /\ ~pkilled[p]
    /\ pkilled' = [pkilled EXCEPT ![p] = TRUE]
    /\ PipeGoto(p, CASE pp[p] = "asleep_r" -> "woken_r"
                 [] pp[p] = "asleep_w" -> "woken_w"
                 [] OTHER -> pp[p])
    /\ UNCHANGED <<pipe, open, freed, plock, fds, left>>

-----------------------------------------------------------------------------
(* Descriptors *)

\* fork(): filedup() of each of p's files for a child that has none yet.
PipeFork(p, q) ==
    /\ PipeCalls(p)
    /\ pp[q] = "user" /\ \A e \in PipeEnds : q \notin fds[e]
    /\ fds' = [e \in PipeEnds |-> IF p \in fds[e] THEN fds[e] \cup {q} ELSE fds[e]]
    /\ pkilled' = [pkilled EXCEPT ![q] = FALSE]
    /\ UNCHANGED <<pipe, open, freed, plock, pp, left>>

\* fileclose(): the count of the file goes down; at zero, on to pipeclose().
\* A killed process does this in exit().
CloseEnd(p, e) ==
    /\ pp[p] = "user" /\ p \in fds[e]
    /\ fds' = [fds EXCEPT ![e] = @ \ {p}]
    /\ PipeGoto(p, IF fds[e] = {p} THEN (IF e = "read" THEN "close_r" ELSE "close_w") ELSE "user")
    /\ UNCHANGED <<pipe, open, freed, plock, pkilled, left>>

\* Mutant: the first end to be closed frees the pipe.
PipeCloseFirst(p) ==
    /\ pp[p] \in {"close_r", "close_w"}
    /\ plock = NoUser
    /\ open' = open \ {IF pp[p] = "close_r" THEN "read" ELSE "write"}
    /\ freed' = TRUE
    /\ IF pp[p] = "close_w"
       THEN PipeWakeup("asleep_r", "woken_r", p, "user")
       ELSE PipeWakeup("asleep_w", "woken_w", p, "user")
    /\ UNCHANGED <<pipe, plock, fds, pkilled, left>>

\* Mutant: nobody is woken.
PipeCloseQuiet(p) ==
    /\ pp[p] \in {"close_r", "close_w"}
    /\ plock = NoUser
    /\ open' = open \ {IF pp[p] = "close_r" THEN "read" ELSE "write"}
    /\ freed' = (open' = {})
    /\ PipeGoto(p, "user")
    /\ UNCHANGED <<pipe, plock, fds, pkilled, left>>

\* pipeclose(): the end is closed, those who wait for it are woken, and the
\* pipe is freed if it was the last end.
PipeClose(p) ==
    /\ pp[p] \in {"close_r", "close_w"}
    /\ plock = NoUser
    /\ open' = open \ {IF pp[p] = "close_r" THEN "read" ELSE "write"}
    /\ freed' = (open' = {})
    /\ IF pp[p] = "close_w"
       THEN PipeWakeup("asleep_r", "woken_r", p, "user")
       ELSE PipeWakeup("asleep_w", "woken_w", p, "user")
    /\ UNCHANGED <<pipe, plock, fds, pkilled, left>>

PipeKernel(p) ==
    \/ WriteFail(p) \/ WriteFull(p) \/ WriteDone(p) \/ \E b \in PipeByte : WriteByte(p, b)
    \/ ReadFail(p) \/ ReadEmpty(p) \/ ReadReady(p) \/ ReadByte(p) \/ ReadDone(p)
    \/ Sleep(p) \/ Reacquire(p)
    \/ PipeClose(p)

PipeNext == \E p \in PipeUser :
    \/ PipeKernel(p)
    \/ \E k \in 0 .. MaxCount : WriteCall(p, k) \/ ReadCall(p, k)
    \/ KillUser(p)
    \/ \E q \in PipeUser : PipeFork(p, q)
    \/ \E e \in PipeEnds : CloseEnd(p, e)

PipeSpec == PipeInit /\ [][PipeNext]_pipevars

\* Kernel code goes on, and whoever spins on p->lock gets it in the end.
KernelFairness == \A p \in PipeUser : SF_pipevars(PipeKernel(p))
\* Programs close their descriptors in the end, at the latest when they exit.
CloseFairness == \A p \in PipeUser : SF_pipevars(\E e \in PipeEnds : CloseEnd(p, e))

ExitSpec == PipeSpec /\ KernelFairness /\ CloseFairness

-----------------------------------------------------------------------------
(* Properties. *)

Stored == (nwrite - nread) % Wrap

Contents == [k \in 1 .. Stored |-> pdata[(nread + k - 1) % PIPESIZE]]

F == INSTANCE Fifo WITH Byte <- PipeByte, queue <- Contents, Capacity <- PIPESIZE

\* The pipe is a queue of at most PIPESIZE bytes, first in first out, across
\* the wrap of the buffer and of the two counters, whoever reads and writes.
IsFifo == F!FSpec

\* No wakeup of a writer is missed: it sleeps only on a full pipe that can
\* still be read, but for the moment until the reader that changed this, and
\* still holds the lock, calls wakeup().
NoMissedWrite ==
    \A p \in PipeUser : pp[p] = "asleep_w" =>
        (PipeFull /\ "read" \in open) \/ \E q \in PipeUser : plock = q /\ pp[q] = "copy"

\* The same of readers: they sleep only on an empty pipe that can still be
\* written, but for the moment until the writer calls wakeup().
NoMissedRead ==
    \A p \in PipeUser : pp[p] = "asleep_r" =>
        (PipeEmpty /\ "write" \in open) \/ \E q \in PipeUser : plock = q /\ pp[q] = "write"

\* The pipe is freed once nobody can come back to it: no process is in
\* pipe.c, asleep there or on its way, and no descriptor is left.
NoUseAfterFree ==
    freed => /\ \A p \in PipeUser : pp[p] = "user"
             /\ fds["read"] = {} /\ fds["write"] = {}

\* Nobody sleeps for ever in a pipe whose users each keep one end and close
\* it in the end (fork() copies ends, so they go on doing so): a sleeper is
\* woken, by a byte, by room, or by the close of the other end.
SleeperWoken ==
    \A p \in PipeUser :
        pp[p] \in {"asleep_r", "asleep_w"} /\ fds["read"] \cap fds["write"] = {}
            ~> pp[p] \notin {"asleep_r", "asleep_w"}
=============================================================================
