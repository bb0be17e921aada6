------------------------------- MODULE Mutex --------------------------------
(***************************************************************************)
(* The mutexes and condition variables of the kernel (mutex.h and the end  *)
(* of proc.c).  mxarray is shared by all processes and has no lock of its  *)
(* own, and a process can be preempted anywhere in these functions, so a   *)
(* function is split wherever another process may come between two of its  *)
(* accesses to mxarray.  A process names a mutex by the address of the     *)
(* string it passes, and uses it by an index of its own array mxproc.      *)
(***************************************************************************)
EXTENDS Integers

CONSTANTS
    Proc,        \* slots of the process table
    First,       \* ptable.proc, the first slot: init, which uses no mutex
    Name,        \* addresses of mutex names
    Null,        \* the address 0
    MUX_MAXNUM,  \* entries of mxarray and of each mxproc
    MaxRefs      \* bound: what num_proc counts up to

Index == 0 .. MUX_MAXNUM - 1
None == -1

ASSUME FirstAssumption == First \in Proc
ASSUME NameAssumption == Null \notin Name /\ Name \cap Index = {}
ASSUME MaxAssumption == MUX_MAXNUM \in Nat \ {0} /\ MaxRefs \in Nat

VARIABLES
    name, lock, num_proc,  \* the fields of mxarray's entries
    mxproc,                \* per process: the handles
    pc,                    \* per process: where it is in these functions
    arg,                   \* per process: the argument muxid, or initmutex()'s name
    gid,                   \* per process: initmutex()'s i, or gid elsewhere
    count,                 \* per process: num_proc as ++ has loaded it
    holds                  \* per process: mutexes it has locked and not yet unlocked

mx == <<name, lock, num_proc>>
mxvars == <<mx, mxproc, pc, arg, gid, count, holds>>

MxPlaces ==
    {"user",
     "found", "free",         \* initmutex(): name found, or free entry found
     "found++", "free++",     \* ... and num_proc loaded
     "name", "lock",          \* ... before it sets these fields
     "locked", "unlocked",    \* mxacquire(): what the test of lock said
     "asleep",                \* ... in sleep(&mxarray[gid].name, ..)
     "release",               \* mxrelease(): before its xchg
     "wait", "waiting",       \* cvwait(): before and in its sleep
     "exit", "gone"}          \* exit(): deleting handles; done

\* Type correctness.
MxTypeOK ==
    /\ name \in [Index -> Name \cup {Null}]
    /\ lock \in [Index -> {0, 1}]
    /\ num_proc \in [Index -> Nat]
    /\ mxproc \in [Proc -> [Index -> Index \cup {None}]]
    /\ pc \in [Proc -> MxPlaces]
    /\ arg \in [Proc -> Index \cup Name]
    /\ gid \in [Proc -> Index]
    /\ count \in [Proc -> Nat]
    /\ holds \in [Proc -> SUBSET Index]

\* mxarray_init(), and allocproc() for every process.
MxInit ==
    /\ name = [i \in Index |-> Null]
    /\ lock = [i \in Index |-> 0]
    /\ num_proc = [i \in Index |-> 0]
    /\ mxproc = [p \in Proc |-> [j \in Index |-> None]]
    /\ pc = [p \in Proc |-> "user"]
    /\ arg = [p \in Proc |-> 0]
    /\ gid = [p \in Proc |-> 0]
    /\ count = [p \in Proc |-> 0]
    /\ holds = [p \in Proc |-> {}]

MxGoto(p, place) == pc' = [pc EXCEPT ![p] = place]
Local(p, a, g) == arg' = [arg EXCEPT ![p] = a] /\ gid' = [gid EXCEPT ![p] = g]
MxReturn(p) == MxGoto(p, "user") /\ Local(p, 0, 0)
Calls(p) == pc[p] = "user" /\ p # First

MxIsFirst(i, S) == i \in S /\ \A k \in S : i <= k
Handles(p) == {j \in Index : mxproc[p][j] # None}

-----------------------------------------------------------------------------
(* initmutex(a) *)

\* The scan stops at the first entry that is free or has the same name.
CreateScan(p, a) ==
    /\ Calls(p)
    /\ \E i \in Index :
        /\ num_proc[i] < MaxRefs
        /\ MxIsFirst(i, {k \in Index : name[k] \in {Null, a}})
        /\ MxGoto(p, IF name[i] = Null THEN "free" ELSE "found")
        /\ Local(p, a, i)
    /\ UNCHANGED <<mx, mxproc, count, holds>>

\* num_proc++ loads ...
CreateLoad(p) ==
    /\ pc[p] \in {"found", "free"}
    /\ Handles(p) # Index
    /\ count' = [count EXCEPT ![p] = num_proc[gid[p]]]
    /\ MxGoto(p, IF pc[p] = "found" THEN "found++" ELSE "free++")
    /\ UNCHANGED <<mx, mxproc, arg, gid, holds>>

\* The handle is the first free index of the process's array.
Handle(p) ==
    \E j \in Index :
        /\ MxIsFirst(j, Index \ Handles(p))
        /\ mxproc' = [mxproc EXCEPT ![p][j] = gid[p]]

\* ... and stores.  An entry that has the name already is ready, ...
CreateStore(p) ==
    /\ pc[p] \in {"found++", "free++"}
    /\ num_proc' = [num_proc EXCEPT ![gid[p]] = count[p] + 1]
    /\ count' = [count EXCEPT ![p] = 0]
    /\ IF pc[p] = "found++"
       THEN Handle(p) /\ MxReturn(p)
       ELSE MxGoto(p, "name") /\ UNCHANGED <<mxproc, arg, gid>>
    /\ UNCHANGED <<name, lock, holds>>

\* ... a free one gets the name ...
CreateName(p) ==
    /\ pc[p] = "name"
    /\ name' = [name EXCEPT ![gid[p]] = arg[p]]
    /\ MxGoto(p, "lock")
    /\ UNCHANGED <<lock, num_proc, mxproc, arg, gid, count, holds>>

\* ... and an open lock.
CreateLock(p) ==
    /\ pc[p] = "lock"
    /\ lock' = [lock EXCEPT ![gid[p]] = 0]
    /\ Handle(p)
    /\ MxReturn(p)
    /\ UNCHANGED <<name, num_proc, count, holds>>

\* The process's array is full: return -1.
CreateFull(p) ==
    /\ pc[p] \in {"found", "free"}
    /\ Handles(p) = Index
    /\ MxReturn(p)
    /\ UNCHANGED <<mx, mxproc, count, holds>>

-----------------------------------------------------------------------------
(* mxacquire(j), mxrelease(j) *)

\* The tests at the head of the functions that take a handle.
Usable(p, j) == j \in Handles(p) /\ name[mxproc[p][j]] # Null

\* The lock is tested without any lock held.
LockTest(p, j) ==
    /\ Calls(p) /\ Usable(p, j)
    /\ mxproc[p][j] \notin holds[p]
    /\ MxGoto(p, IF lock[mxproc[p][j]] = 1 THEN "locked" ELSE "unlocked")
    /\ Local(p, j, mxproc[p][j])
    /\ UNCHANGED <<mx, mxproc, count, holds>>

LockSleep(p) ==
    /\ pc[p] = "locked"
    /\ MxGoto(p, "asleep")
    /\ UNCHANGED <<mx, mxproc, arg, gid, count, holds>>

\* xchg(&mxarray[muxid].lock, 1): the result is not looked at.
LockSet(p) ==
    /\ pc[p] = "unlocked"
    /\ lock' = [lock EXCEPT ![arg[p]] = 1]
    /\ holds' = [holds EXCEPT ![p] = @ \cup {gid[p]}]
    /\ MxReturn(p)
    /\ UNCHANGED <<name, num_proc, mxproc, count>>

\* mxrelease() of a mutex whose lock is 0 wakes the sleepers, ...
UnlockWake(p, j) ==
    /\ Calls(p) /\ Usable(p, j)
    /\ mxproc[p][j] \in holds[p]
    /\ lock[mxproc[p][j]] = 0
    /\ pc' = [q \in Proc |-> IF pc[q] = "asleep" /\ gid[q] = mxproc[p][j] THEN "unlocked" ELSE pc[q]]
    /\ holds' = [holds EXCEPT ![p] = @ \ {mxproc[p][j]}]
    /\ UNCHANGED <<mx, mxproc, arg, gid, count>>

\* ... and of one whose lock is 1 clears it.
UnlockTest(p, j) ==
    /\ Calls(p) /\ Usable(p, j)
    /\ mxproc[p][j] \in holds[p]
    /\ lock[mxproc[p][j]] = 1
    /\ MxGoto(p, "release")
    /\ Local(p, j, mxproc[p][j])
    /\ holds' = [holds EXCEPT ![p] = @ \ {mxproc[p][j]}]
    /\ UNCHANGED <<mx, mxproc, count>>

UnlockClear(p) ==
    /\ pc[p] = "release"
    /\ lock' = [lock EXCEPT ![gid[p]] = 0]
    /\ MxReturn(p)
    /\ UNCHANGED <<name, num_proc, mxproc, count, holds>>

-----------------------------------------------------------------------------
(* cvwait(j), cvsignal(j) *)

CvWait(p, j) ==
    /\ Calls(p) /\ Usable(p, j)
    /\ MxGoto(p, "wait")
    /\ Local(p, j, mxproc[p][j])
    /\ UNCHANGED <<mx, mxproc, count, holds>>

CvSleep(p) ==
    /\ pc[p] = "wait"
    /\ MxGoto(p, "waiting")
    /\ UNCHANGED <<mx, mxproc, arg, gid, count, holds>>

\* wakeup(&mxarray[gid]): the waiters return to their programs.
CvSignal(p, j) ==
    /\ Calls(p) /\ Usable(p, j)
    /\ LET woken == {q \in Proc : pc[q] = "waiting" /\ gid[q] = mxproc[p][j]} IN
        /\ pc' = [q \in Proc |-> IF q \in woken THEN "user" ELSE pc[q]]
        /\ arg' = [q \in Proc |-> IF q \in woken THEN 0 ELSE arg[q]]
        /\ gid' = [q \in Proc |-> IF q \in woken THEN 0 ELSE gid[q]]
    /\ UNCHANGED <<mx, mxproc, count, holds>>

-----------------------------------------------------------------------------
(* mxdelete(j), and exit(), which calls it for every handle *)

\* Mutant: p is the caller, as its name suggests.
MxdeleteCaller(p, j) ==
    IF Usable(p, j)
    THEN LET g == mxproc[p][j]
             last == num_proc[g] = 1
         IN  /\ num_proc' = [num_proc EXCEPT ![g] = @ - 1]
             /\ mxproc' = [mxproc EXCEPT ![p][j] = None]
             /\ name' = IF last THEN [name EXCEPT ![g] = Null] ELSE name
             /\ lock' = IF last THEN [lock EXCEPT ![g] = 0] ELSE lock
    ELSE UNCHANGED <<mx, mxproc>>

\* p is ptable.proc, whoever calls.
Mxdelete(p, j) ==
    IF Usable(First, j)
    THEN LET g == mxproc[First][j]
             last == num_proc[g] = 1
         IN  /\ num_proc' = [num_proc EXCEPT ![g] = @ - 1]
             /\ mxproc' = [mxproc EXCEPT ![First][j] = None]
             /\ name' = IF last THEN [name EXCEPT ![g] = Null] ELSE name
             /\ lock' = IF last THEN [lock EXCEPT ![g] = 0] ELSE lock
    ELSE UNCHANGED <<mx, mxproc>>

Delete(p, j) ==
    /\ Calls(p)
    /\ mxproc[p][j] \notin holds[p]
    /\ Mxdelete(p, j)
    /\ UNCHANGED <<pc, arg, gid, count, holds>>

\* Programs unlock what they hold before they exit.
Exit(p) ==
    /\ Calls(p)
    /\ holds[p] = {}
    /\ MxGoto(p, "exit")
    /\ UNCHANGED <<mx, mxproc, arg, gid, count, holds>>

ExitDelete(p) ==
    /\ pc[p] = "exit"
    /\ IF arg[p] \in Handles(p) THEN Mxdelete(p, arg[p]) ELSE UNCHANGED <<mx, mxproc>>
    /\ arg' = [arg EXCEPT ![p] = IF @ + 1 \in Index THEN @ + 1 ELSE 0]
    /\ MxGoto(p, IF arg[p] + 1 \in Index THEN "exit" ELSE "gone")
    /\ UNCHANGED <<gid, count, holds>>

\* allocproc() takes the slot for a new process.
Reuse(p) ==
    /\ pc[p] = "gone"
    /\ mxproc' = [mxproc EXCEPT ![p] = [j \in Index |-> None]]
    /\ MxGoto(p, "user")
    /\ UNCHANGED <<mx, arg, gid, count, holds>>

\* Kernel code that goes on by itself.
MxKernel(p) ==
    \/ CreateLoad(p) \/ CreateStore(p) \/ CreateName(p) \/ CreateLock(p) \/ CreateFull(p)
    \/ LockSleep(p) \/ LockSet(p) \/ UnlockClear(p) \/ CvSleep(p)
    \/ ExitDelete(p) \/ Reuse(p)

Unlock(p) == \E j \in Index : UnlockWake(p, j) \/ UnlockTest(p, j)

MxNext == \E p \in Proc :
    \/ MxKernel(p)
    \/ \E a \in Name : CreateScan(p, a)
    \/ \E j \in Index : LockTest(p, j) \/ CvWait(p, j) \/ CvSignal(p, j) \/ Delete(p, j)
    \/ Unlock(p)
    \/ Exit(p)

MxSpec == MxInit /\ [][MxNext]_mxvars

-----------------------------------------------------------------------------
(* Properties. *)

\* What is in use is kept, although initmutex(), mxdelete() and exit() change
\* the entries without a lock: the entry of a handle keeps a name and is
\* counted as in use, and nobody sleeps on one without a name, where unlock and
\* signal return early and could not wake them.
EntryKept ==
    /\ \A p \in Proc, j \in Index : j \in Handles(p) /\ pc[p] # "gone" =>
          name[mxproc[p][j]] # Null /\ num_proc[mxproc[p][j]] > 0
    /\ \A p \in Proc : pc[p] \in {"asleep", "waiting"} => name[gid[p]] # Null

\* mutex_lock() excludes: no two processes are past it on the same mutex.
MutualExclusion == \A p, q \in Proc : p # q => holds[p] \cap holds[q] = {}
=============================================================================
