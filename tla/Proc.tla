-------------------------------- MODULE Proc --------------------------------
(***************************************************************************)
(* The process table of the kernel (proc.c), the timer interrupt that      *)
(* drives preemption (trap.c) and the sleep system call (sysproc.c).       *)
(*                                                                         *)
(* Several CPUs run scheduler(); each has at most one current process.     *)
(* ptable.lock and tickslock are explicit, because what the code promises  *)
(* depends on where they are taken and released: ptable.lock is held       *)
(* across the switch between a process and the scheduler, and sleep()      *)
(* takes it before it drops the caller's lock.  A stretch of code between  *)
(* the acquire and the release of one lock that gives nobody else a chance *)
(* to look is one action.                                                  *)
(***************************************************************************)
EXTENDS Integers

CONSTANTS
    NPROC,             \* slots of the process table (param.h)
    NCPU,              \* CPUs that run scheduler(); CPU 0 counts the ticks
    MaxPid,            \* bound: pids the model hands out
    TickMod,           \* ticks is an unsigned word: it counts modulo TickMod
    SleepArgs,         \* arguments programs pass to sleep()
    KillPids,          \* arguments programs pass to kill()
    HighPrioCallers    \* slots whose program calls setHighPrio()

Slot == 0 .. NPROC - 1
CPU  == 0 .. NCPU - 1

\* initproc: userinit() takes the first slot of an empty table, with pid 1.
initproc == 0

NoProc == -1
NoCpu  == -1
NoChan == -1
\* The address of the variable ticks, distinct from that of every process.
TicksChan == NPROC

ASSUME NPROCAssumption == NPROC \in Nat \ {0}
ASSUME NCPUAssumption  == NCPU \in Nat \ {0}
ASSUME MaxPidAssumption == MaxPid \in Nat \ {0}
ASSUME TickAssumption  == TickMod \in Nat \ {0} /\ SleepArgs \subseteq 0 .. TickMod - 1
\* Nobody kills init: its exit() is the panic "init exiting".
ASSUME KillAssumption  == KillPids \subseteq Nat \ {1}
ASSUME HighPrioAssumption == HighPrioCallers \subseteq Slot

VARIABLES
    state, pid, parent, chan, killed,  \* the fields of struct proc
    nextpid, highpid,
    at,        \* where in the kernel the process is, or will be resumed
    child,     \* fork(): np
    ticks0, n, \* sys_sleep(): its locals
    ticks,
    ptlock,    \* CPU that holds ptable.lock
    tlock,     \* CPU that holds tickslock
    proc,      \* per CPU: the process whose kernel stack it runs on
    scan,      \* per CPU: scheduler()'s p, as an index
    irq        \* per CPU: progress of the timer interrupt handler

table == <<state, pid, parent, chan, killed, nextpid>>
locals == <<at, child, ticks0, n>>
sched == <<proc, scan>>
vars == <<table, highpid, locals, ticks, ptlock, tlock, sched, irq>>

States == {"UNUSED", "EMBRYO", "SLEEPING", "RUNNABLE", "RUNNING", "ZOMBIE"}

Places ==
    {"user",      \* user mode, or a system call that leaves the table alone
     "fork",      \* after allocproc() took a slot
     "forked",    \* np is complete but not yet RUNNABLE
     "exit",      \* files closed, about to take ptable.lock
     "wait",      \* asleep in wait()
     "loop",      \* sys_sleep(), at the head of its while
     "tosleep",   \* sys_sleep(), about to call sleep()
     "slept",     \* in sleep(&ticks, &tickslock)
     "reacquire"} \* sleep(), about to reacquire tickslock

\* Type correctness.
TypeOK ==
    /\ state \in [Slot -> States]
    /\ pid \in [Slot -> 0 .. MaxPid]
    /\ parent \in [Slot -> Slot \cup {NoProc}]
    /\ chan \in [Slot -> Slot \cup {TicksChan, NoChan}]
    /\ killed \in [Slot -> BOOLEAN]
    /\ nextpid \in 1 .. MaxPid + 1
    /\ highpid \in 0 .. MaxPid
    /\ at \in [Slot -> Places]
    /\ child \in [Slot -> Slot \cup {NoProc}]
    /\ ticks0 \in [Slot -> 0 .. TickMod - 1]
    /\ n \in [Slot -> 0 .. TickMod - 1]
    /\ ticks \in 0 .. TickMod - 1
    /\ ptlock \in CPU \cup {NoCpu}
    /\ tlock \in CPU \cup {NoCpu}
    /\ proc \in [CPU -> Slot \cup {NoProc}]
    /\ scan \in [CPU -> 0 .. NPROC]
    /\ irq \in [CPU -> {"none", "tick", "wake", "preempt"}]

\* pinit(), userinit() and the start of scheduler() on every CPU.
Init ==
    /\ state = [p \in Slot |-> IF p = initproc THEN "RUNNABLE" ELSE "UNUSED"]
    /\ pid = [p \in Slot |-> IF p = initproc THEN 1 ELSE 0]
    /\ parent = [p \in Slot |-> NoProc]
    /\ chan = [p \in Slot |-> NoChan]
    /\ killed = [p \in Slot |-> FALSE]
    /\ nextpid = 2
    /\ highpid = 0
    /\ at = [p \in Slot |-> "user"]
    /\ child = [p \in Slot |-> NoProc]
    /\ ticks0 = [p \in Slot |-> 0]
    /\ n = [p \in Slot |-> 0]
    /\ ticks = 0
    /\ ptlock = NoCpu
    /\ tlock = NoCpu
    /\ proc = [c \in CPU |-> NoProc]
    /\ scan = [c \in CPU |-> 0]
    /\ irq = [c \in CPU |-> "none"]

-----------------------------------------------------------------------------
(* scheduler(), sched() and the way back into a process. *)

Runnable(from) == {p \in Slot : p >= from /\ state[p] = "RUNNABLE"}
High == {p \in Slot : highpid # 0 /\ state[p] = "RUNNABLE" /\ pid[p] = highpid}

\* A loop over the table that stops at the first member of S stops at p.
IsFirst(p, S) == p \in S /\ \A q \in S : p <= q

Dispatch(c, p, next) ==
    /\ proc' = [proc EXCEPT ![c] = p]
    /\ state' = [state EXCEPT ![p] = "RUNNING"]
    /\ scan' = [scan EXCEPT ![c] = next]

InScheduler(c) == proc[c] = NoProc /\ irq[c] = "none"

\* The head of the for(;;): the high-priority process runs, once ...
SchedHigh(c) ==
    /\ InScheduler(c)
    /\ ptlock = NoCpu
    /\ ptlock' = c
    /\ \E p \in Slot : IsFirst(p, High) /\ Dispatch(c, p, NPROC)
    /\ UNCHANGED <<pid, parent, chan, killed, nextpid, highpid, locals, ticks, tlock, irq>>

\* ... or a round over the table starts.
SchedRound(c) ==
    /\ InScheduler(c)
    /\ ptlock = NoCpu
    /\ High = {}
    /\ ptlock' = c
    /\ scan' = [scan EXCEPT ![c] = 0]
    /\ UNCHANGED <<table, highpid, locals, ticks, tlock, proc, irq>>

\* Mutant: the round goes back to the start of the table.
SchedPickAgain(c) ==
    /\ InScheduler(c)
    /\ ptlock = c
    /\ \E p \in Slot : IsFirst(p, Runnable(scan[c])) /\ Dispatch(c, p, 0)
    /\ UNCHANGED <<pid, parent, chan, killed, nextpid, highpid, locals, ticks, ptlock, tlock, irq>>

\* The round goes on with the next RUNNABLE slot ...
SchedPick(c) ==
    /\ InScheduler(c)
    /\ ptlock = c
    /\ \E p \in Slot : IsFirst(p, Runnable(scan[c])) /\ Dispatch(c, p, p + 1)
    /\ UNCHANGED <<pid, parent, chan, killed, nextpid, highpid, locals, ticks, ptlock, tlock, irq>>

\* ... and ends after the last one.
SchedEnd(c) ==
    /\ InScheduler(c)
    /\ ptlock = c
    /\ Runnable(scan[c]) = {}
    /\ ptlock' = NoCpu
    /\ scan' = [scan EXCEPT ![c] = 0]
    /\ UNCHANGED <<table, highpid, locals, ticks, tlock, proc, irq>>

\* sched(): the process has changed its state; swtch() leaves its stack.
Swtch(c) ==
    /\ proc[c] # NoProc
    /\ ptlock = c
    /\ state[proc[c]] # "RUNNING"
    /\ proc' = [proc EXCEPT ![c] = NoProc]
    /\ UNCHANGED <<table, highpid, locals, ticks, ptlock, tlock, scan, irq>>

\* A CPU that executes process p, outside interrupts.
Runs(c, p) == proc[c] = p /\ irq[c] = "none" /\ state[p] = "RUNNING"

\* Resumed in forkret(), yield() or sleep(&ticks, ..): tidy up, release.
Resume(c, p) ==
    /\ Runs(c, p)
    /\ ptlock = c
    /\ at[p] # "wait"
    /\ ptlock' = NoCpu
    /\ IF at[p] = "slept"
       THEN chan' = [chan EXCEPT ![p] = NoChan] /\ at' = [at EXCEPT ![p] = "reacquire"]
       ELSE UNCHANGED <<chan, at>>
    /\ UNCHANGED <<state, pid, parent, killed, nextpid, highpid, child, ticks0, n,
                   ticks, tlock, sched, irq>>

-----------------------------------------------------------------------------
(* The timer interrupt: trap() with IRQ_TIMER. *)

\* acquire() keeps interrupts off on a CPU that holds a lock (pushcli).
TimerIrq(c) ==
    /\ irq[c] = "none"
    /\ ptlock # c
    /\ tlock # c
    /\ irq' = [irq EXCEPT ![c] = IF c = 0 THEN "tick" ELSE "preempt"]
    /\ UNCHANGED <<table, highpid, locals, ticks, ptlock, tlock, sched>>

\* Mutant: the count does not wrap.
TickCountWide(c) ==
    /\ irq[c] = "tick"
    /\ tlock = NoCpu
    /\ tlock' = c
    /\ ticks' = ticks + 1
    /\ irq' = [irq EXCEPT ![c] = "wake"]
    /\ UNCHANGED <<table, highpid, locals, ptlock, sched>>

\* acquire(&tickslock); ticks++
TickCount(c) ==
    /\ irq[c] = "tick"
    /\ tlock = NoCpu
    /\ tlock' = c
    /\ ticks' = (ticks + 1) % TickMod
    /\ irq' = [irq EXCEPT ![c] = "wake"]
    /\ UNCHANGED <<table, highpid, locals, ptlock, sched>>

\* wakeup1(ch), as what it makes of the states.
Wakeup1(ch, st) ==
    [p \in Slot |-> IF st[p] = "SLEEPING" /\ chan[p] = ch THEN "RUNNABLE" ELSE st[p]]

\* wakeup(&ticks); release(&tickslock)
TickWake(c) ==
    /\ irq[c] = "wake"
    /\ ptlock = NoCpu
    /\ state' = Wakeup1(TicksChan, state)
    /\ tlock' = NoCpu
    /\ irq' = [irq EXCEPT ![c] = "preempt"]
    /\ UNCHANGED <<pid, parent, chan, killed, nextpid, highpid, locals, ticks, ptlock, sched>>

\* The end of trap(): nothing to preempt, ...
IrqReturn(c) ==
    /\ irq[c] = "preempt"
    /\ proc[c] = NoProc
    /\ irq' = [irq EXCEPT ![c] = "none"]
    /\ UNCHANGED <<table, highpid, locals, ticks, ptlock, tlock, sched>>

\* ... a killed process in user mode calls exit() ...
IrqExit(c, p) ==
    /\ irq[c] = "preempt"
    /\ proc[c] = p
    /\ at[p] = "user" /\ killed[p]
    /\ irq' = [irq EXCEPT ![c] = "none"]
    /\ at' = [at EXCEPT ![p] = "exit"]
    /\ UNCHANGED <<table, highpid, child, ticks0, n, ticks, ptlock, tlock, sched>>

\* Mutant: yield() does not take ptable.lock.
YieldUnlocked(c, p) ==
    /\ irq[c] = "preempt"
    /\ proc[c] = p
    /\ ~(at[p] = "user" /\ killed[p])
    /\ ptlock = NoCpu
    /\ state' = [state EXCEPT ![p] = "RUNNABLE"]
    /\ irq' = [irq EXCEPT ![c] = "none"]
    /\ UNCHANGED <<pid, parent, chan, killed, nextpid, highpid, locals, ticks, ptlock, tlock, sched>>

\* ... and any other one yield().
Yield(c, p) ==
    /\ irq[c] = "preempt"
    /\ proc[c] = p
    /\ ~(at[p] = "user" /\ killed[p])
    /\ ptlock = NoCpu
    /\ ptlock' = c
    /\ state' = [state EXCEPT ![p] = "RUNNABLE"]
    /\ irq' = [irq EXCEPT ![c] = "none"]
    /\ UNCHANGED <<pid, parent, chan, killed, nextpid, highpid, locals, ticks, tlock, sched>>

-----------------------------------------------------------------------------
(* System calls of the process p that CPU c runs. *)

\* trap() starts a system call only for a process that is not killed.
Syscall(c, p) == Runs(c, p) /\ ptlock # c /\ at[p] = "user" /\ ~killed[p]
In(c, p, place) == Runs(c, p) /\ ptlock # c /\ at[p] = place
Goto(p, place) == at' = [at EXCEPT ![p] = place]

\* Mutant: allocproc() leaves the slot UNUSED.
ForkAllocUnmarked(c, p) ==
    /\ Syscall(c, p)
    /\ ptlock = NoCpu
    /\ nextpid <= MaxPid
    /\ \E np \in Slot :
        /\ IsFirst(np, {q \in Slot : state[q] = "UNUSED"})
        /\ state' = state
        /\ pid' = [pid EXCEPT ![np] = nextpid]
        /\ child' = [child EXCEPT ![p] = np]
    /\ nextpid' = nextpid + 1
    /\ Goto(p, "fork")
    /\ UNCHANGED <<parent, chan, killed, highpid, ticks0, n, ticks, ptlock, tlock, sched, irq>>

\* allocproc(): the first UNUSED slot becomes an EMBRYO with a fresh pid.
ForkAlloc(c, p) ==
    /\ Syscall(c, p)
    /\ ptlock = NoCpu
    /\ nextpid <= MaxPid
    /\ \E np \in Slot :
        /\ IsFirst(np, {q \in Slot : state[q] = "UNUSED"})
        /\ state' = [state EXCEPT ![np] = "EMBRYO"]
        /\ pid' = [pid EXCEPT ![np] = nextpid]
        /\ child' = [child EXCEPT ![p] = np]
    /\ nextpid' = nextpid + 1
    /\ Goto(p, "fork")
    /\ UNCHANGED <<parent, chan, killed, highpid, ticks0, n, ticks, ptlock, tlock, sched, irq>>

\* kalloc() or copyuvm() fails: the slot is given back without ptable.lock.
ForkFail(c, p) ==
    /\ In(c, p, "fork")
    /\ state' = [state EXCEPT ![child[p]] = "UNUSED"]
    /\ child' = [child EXCEPT ![p] = NoProc]
    /\ Goto(p, "user")
    /\ UNCHANGED <<pid, parent, chan, killed, nextpid, highpid, ticks0, n, ticks,
                   ptlock, tlock, sched, irq>>

\* np->parent = proc and the rest of the copy; the child starts in forkret().
ForkCopy(c, p) ==
    /\ In(c, p, "fork")
    /\ parent' = [parent EXCEPT ![child[p]] = p]
    /\ at' = [at EXCEPT ![p] = "forked", ![child[p]] = "user"]
    /\ UNCHANGED <<state, pid, chan, killed, nextpid, highpid, child, ticks0, n, ticks,
                   ptlock, tlock, sched, irq>>

ForkPublish(c, p) ==
    /\ In(c, p, "forked")
    /\ ptlock = NoCpu
    /\ state' = [state EXCEPT ![child[p]] = "RUNNABLE"]
    /\ child' = [child EXCEPT ![p] = NoProc]
    /\ Goto(p, "user")
    /\ UNCHANGED <<pid, parent, chan, killed, nextpid, highpid, ticks0, n, ticks,
                   ptlock, tlock, sched, irq>>

\* exit(), called by the program or by trap() for a killed one: close files.
ExitClose(c, p) ==
    /\ In(c, p, "user")
    /\ p # initproc
    /\ Goto(p, "exit")
    /\ UNCHANGED <<table, highpid, child, ticks0, n, ticks, ptlock, tlock, sched, irq>>

\* Mutant: exit() leaves its children alone.
ExitOrphans(c, p) ==
    /\ In(c, p, "exit")
    /\ ptlock = NoCpu
    /\ ptlock' = c
    /\ parent' = parent
    /\ LET woken == Wakeup1(parent[p], state)
           inherited == \E q \in Slot : parent[q] = p /\ state[q] = "ZOMBIE"
           passed == IF inherited THEN Wakeup1(initproc, woken) ELSE woken
       IN  state' = [passed EXCEPT ![p] = "ZOMBIE"]
    /\ UNCHANGED <<pid, chan, killed, nextpid, highpid, locals, ticks, tlock, sched, irq>>

\* Mutant: exit() does not wake init for the zombies it hands over.
ExitQuiet(c, p) ==
    /\ In(c, p, "exit")
    /\ ptlock = NoCpu
    /\ ptlock' = c
    /\ parent' = [q \in Slot |-> IF parent[q] = p THEN initproc ELSE parent[q]]
    /\ state' = [Wakeup1(parent[p], state) EXCEPT ![p] = "ZOMBIE"]
    /\ UNCHANGED <<pid, chan, killed, nextpid, highpid, locals, ticks, tlock, sched, irq>>

\* exit() under ptable.lock: wake the parent, pass the children to init
\* (waking it for the zombies among them), become a ZOMBIE and call sched().
ExitZombie(c, p) ==
    /\ In(c, p, "exit")
    /\ ptlock = NoCpu
    /\ ptlock' = c
    /\ parent' = [q \in Slot |-> IF parent[q] = p THEN initproc ELSE parent[q]]
    /\ LET woken == Wakeup1(parent[p], state)
           inherited == \E q \in Slot : parent[q] = p /\ state[q] = "ZOMBIE"
           passed == IF inherited THEN Wakeup1(initproc, woken) ELSE woken
       IN  state' = [passed EXCEPT ![p] = "ZOMBIE"]
    /\ UNCHANGED <<pid, chan, killed, nextpid, highpid, locals, ticks, tlock, sched, irq>>

Kids(p) == {q \in Slot : parent[q] = p}
Zombies(p) == {q \in Kids(p) : state[q] = "ZOMBIE"}

\* In wait()'s loop with ptable.lock: just called, or woken in its sleep().
WaitLoop(c, p) ==
    \/ Syscall(c, p) /\ ptlock = NoCpu
    \/ Runs(c, p) /\ ptlock = c /\ at[p] = "wait"

\* wait() frees the first zombie child and returns.
WaitReap(c, p) ==
    /\ WaitLoop(c, p)
    /\ \E q \in Slot :
        /\ IsFirst(q, Zombies(p))
        /\ state' = [state EXCEPT ![q] = "UNUSED"]
        /\ pid' = [pid EXCEPT ![q] = 0]
        /\ parent' = [parent EXCEPT ![q] = NoProc]
        /\ killed' = [killed EXCEPT ![q] = FALSE]
    /\ chan' = [chan EXCEPT ![p] = NoChan]
    /\ Goto(p, "user")
    /\ ptlock' = NoCpu
    /\ UNCHANGED <<nextpid, highpid, child, ticks0, n, ticks, tlock, sched, irq>>

\* wait() returns -1: no children, or killed.
WaitNone(c, p) ==
    /\ WaitLoop(c, p)
    /\ Zombies(p) = {}
    /\ Kids(p) = {} \/ killed[p]
    /\ chan' = [chan EXCEPT ![p] = NoChan]
    /\ Goto(p, "user")
    /\ ptlock' = NoCpu
    /\ UNCHANGED <<state, pid, parent, killed, nextpid, highpid, child, ticks0, n, ticks,
                   tlock, sched, irq>>

\* sleep(proc, &ptable.lock): the lock stays held across sched().
WaitSleep(c, p) ==
    /\ WaitLoop(c, p)
    /\ Zombies(p) = {} /\ Kids(p) # {} /\ ~killed[p]
    /\ chan' = [chan EXCEPT ![p] = p]
    /\ state' = [state EXCEPT ![p] = "SLEEPING"]
    /\ Goto(p, "wait")
    /\ ptlock' = c
    /\ UNCHANGED <<pid, parent, killed, nextpid, highpid, child, ticks0, n, ticks,
                   tlock, sched, irq>>

\* Mutant: kill() leaves a sleeping process asleep.
KillQuiet(c, p, k) ==
    /\ Syscall(c, p)
    /\ ptlock = NoCpu
    /\ \E q \in Slot :
        /\ IsFirst(q, {r \in Slot : pid[r] = k})
        /\ killed' = [killed EXCEPT ![q] = TRUE]
        /\ state' = state
    /\ UNCHANGED <<pid, parent, chan, nextpid, highpid, locals, ticks, ptlock, tlock, sched, irq>>

\* kill(k): the first slot with that pid.
Kill(c, p, k) ==
    /\ Syscall(c, p)
    /\ ptlock = NoCpu
    /\ \E q \in Slot :
        /\ IsFirst(q, {r \in Slot : pid[r] = k})
        /\ killed' = [killed EXCEPT ![q] = TRUE]
        /\ state' = [state EXCEPT ![q] = IF @ = "SLEEPING" THEN "RUNNABLE" ELSE @]
    /\ UNCHANGED <<pid, parent, chan, nextpid, highpid, locals, ticks, ptlock, tlock, sched, irq>>

SetHighPrio(c, p) ==
    /\ Syscall(c, p)
    /\ p \in HighPrioCallers
    /\ highpid' = pid[p]
    /\ UNCHANGED <<table, locals, ticks, ptlock, tlock, sched, irq>>

-----------------------------------------------------------------------------
(* sys_sleep(): while (ticks - ticks0 < n) sleep(&ticks, &tickslock). *)

Elapsed(p) == (ticks - ticks0[p]) % TickMod

\* Any program but init.c, which never calls sleep().
SleepCall(c, p, arg) ==
    /\ Syscall(c, p)
    /\ p # initproc
    /\ tlock = NoCpu
    /\ tlock' = c
    /\ ticks0' = [ticks0 EXCEPT ![p] = ticks]
    /\ n' = [n EXCEPT ![p] = arg]
    /\ Goto(p, "loop")
    /\ UNCHANGED <<table, highpid, child, ticks, ptlock, sched, irq>>

\* The loop ends, or the process was killed: release and return.
SleepReturn(c, p) ==
    /\ In(c, p, "loop")
    /\ Elapsed(p) >= n[p] \/ killed[p]
    /\ tlock' = NoCpu
    /\ ticks0' = [ticks0 EXCEPT ![p] = 0]
    /\ n' = [n EXCEPT ![p] = 0]
    /\ Goto(p, "user")
    /\ UNCHANGED <<table, highpid, child, ticks, ptlock, sched, irq>>

\* Mutant: tickslock is released before ptable.lock is taken.
SleepAgainUnlocked(c, p) ==
    /\ In(c, p, "loop")
    /\ Elapsed(p) < n[p] /\ ~killed[p]
    /\ Goto(p, "tosleep")
    /\ tlock' = NoCpu
    /\ UNCHANGED <<table, highpid, child, ticks0, n, ticks, ptlock, sched, irq>>

\* The loop goes on: killed was tested, sleep() is called.
SleepAgain(c, p) ==
    /\ In(c, p, "loop")
    /\ Elapsed(p) < n[p] /\ ~killed[p]
    /\ Goto(p, "tosleep")
    /\ UNCHANGED <<table, highpid, child, ticks0, n, ticks, ptlock, tlock, sched, irq>>

\* Mutant: sleep() keeps the caller's lock.
SleepEnterLocked(c, p) ==
    /\ In(c, p, "tosleep")
    /\ ptlock = NoCpu
    /\ ptlock' = c
    /\ tlock' = tlock
    /\ chan' = [chan EXCEPT ![p] = TicksChan]
    /\ state' = [state EXCEPT ![p] = "SLEEPING"]
    /\ Goto(p, "slept")
    /\ UNCHANGED <<pid, parent, killed, nextpid, highpid, child, ticks0, n, ticks, sched, irq>>

\* sleep(): take ptable.lock, only then drop tickslock; SLEEPING; sched().
SleepEnter(c, p) ==
    /\ In(c, p, "tosleep")
    /\ ptlock = NoCpu
    /\ ptlock' = c
    /\ tlock' = NoCpu
    /\ chan' = [chan EXCEPT ![p] = TicksChan]
    /\ state' = [state EXCEPT ![p] = "SLEEPING"]
    /\ Goto(p, "slept")
    /\ UNCHANGED <<pid, parent, killed, nextpid, highpid, child, ticks0, n, ticks, sched, irq>>

\* sleep() reacquires tickslock after Resume.
SleepReacquire(c, p) ==
    /\ In(c, p, "reacquire")
    /\ tlock = NoCpu
    /\ tlock' = c
    /\ Goto(p, "loop")
    /\ UNCHANGED <<table, highpid, child, ticks0, n, ticks, ptlock, sched, irq>>

-----------------------------------------------------------------------------
Scheduler(c) ==
    \/ SchedHigh(c) \/ SchedRound(c) \/ SchedPick(c) \/ SchedEnd(c) \/ Swtch(c)

Interrupt(c) ==
    \/ TimerIrq(c) \/ TickCount(c) \/ TickWake(c) \/ IrqReturn(c)
    \/ \E p \in Slot : IrqExit(c, p) \/ Yield(c, p)

Process(c, p) ==
    \/ Resume(c, p)
    \/ ForkAlloc(c, p) \/ ForkFail(c, p) \/ ForkCopy(c, p) \/ ForkPublish(c, p)
    \/ ExitClose(c, p) \/ ExitZombie(c, p)
    \/ WaitReap(c, p) \/ WaitNone(c, p) \/ WaitSleep(c, p)
    \/ \E k \in KillPids : Kill(c, p, k)
    \/ SetHighPrio(c, p)
    \/ \E arg \in SleepArgs : SleepCall(c, p, arg)
    \/ SleepReturn(c, p) \/ SleepAgain(c, p) \/ SleepEnter(c, p) \/ SleepReacquire(c, p)

Next == \E c \in CPU : Scheduler(c) \/ Interrupt(c) \/ \E p \in Slot : Process(c, p)

Spec == Init /\ [][Next]_vars

\* Kernel code of p that runs to its end once p is dispatched often enough.
Kernel(c, p) ==
    \/ ForkFail(c, p) \/ ForkCopy(c, p) \/ ForkPublish(c, p)
    \/ ExitZombie(c, p)
    \/ SleepReturn(c, p) \/ SleepAgain(c, p) \/ SleepEnter(c, p) \/ SleepReacquire(c, p)
    \/ at[p] = "wait" /\ (WaitReap(c, p) \/ WaitNone(c, p) \/ WaitSleep(c, p))

Handler(c) ==
    \/ TickCount(c) \/ TickWake(c) \/ IrqReturn(c)
    \/ \E p \in Slot : IrqExit(c, p) \/ Yield(c, p)

\* The timer fires again and again (the local APIC keeps an interrupt pending
\* until the CPU takes it), handlers end, and between two interrupts a CPU
\* gets to execute.  init.c calls wait() in a loop.  No other program is
\* assumed to call anything.
Fairness ==
    /\ \A c \in CPU : SF_vars(TimerIrq(c)) /\ WF_vars(Handler(c)) /\ SF_vars(Scheduler(c))
    /\ \A p \in Slot : WF_vars(\E c \in CPU : Resume(c, p)) /\ SF_vars(\E c \in CPU : Kernel(c, p))
    /\ SF_vars(\E c \in CPU : WaitReap(c, initproc) \/ WaitSleep(c, initproc))

FairSpec == Spec /\ Fairness

-----------------------------------------------------------------------------
(* Properties. *)

\* A kernel stack is used by one CPU at a time.  Between the moment yield(),
\* sleep() or exit() changes the state of a process and the swtch() that
\* leaves its stack, no other CPU dispatches it and no wait() frees it.
OneCpuPerStack ==
    /\ \A c, d \in CPU : proc[c] = proc[d] /\ proc[c] # NoProc => c = d
    /\ \A c \in CPU : proc[c] # NoProc => state[proc[c]] \notin {"UNUSED", "EMBRYO"}
    /\ \A p \in Slot : state[p] = "RUNNING" => \E c \in CPU : proc[c] = p

\* The assertions at the head of sched(): a process that leaves the CPU holds
\* ptable.lock, holds no other lock, and is no longer RUNNING.
SchedAsserts ==
    \A c \in CPU : proc[c] # NoProc /\ state[proc[c]] # "RUNNING" =>
        ptlock = c /\ tlock # c /\ irq[c] = "none"

Live == {"RUNNABLE", "RUNNING", "SLEEPING"}

\* Every process but init has a live parent: exit() hands the children of
\* the process that dies to init before anybody can look.
LiveParent ==
    \A p \in Slot : p # initproc /\ state[p] \in Live \cup {"ZOMBIE"} =>
        parent[p] \in Slot /\ state[parent[p]] \in Live

\* No exit is missed: a process asleep in wait() has a child that has not
\* exited and none that has, and has not been killed.
NoMissedExit ==
    \A p \in Slot : state[p] = "SLEEPING" /\ chan[p] = p =>
        Kids(p) # {} /\ Zombies(p) = {} /\ ~killed[p]

\* No tick is missed: a process asleep in sys_sleep() still has ticks to
\* wait for, except while the handler that counted the last one is about
\* to wake it.
NoMissedTick ==
    \A p \in Slot : state[p] = "SLEEPING" /\ chan[p] = TicksChan /\ irq[0] # "wake" =>
        Elapsed(p) < n[p]

\* A slot that fork() has filled but not published, and a free one, are
\* nobody's process: no CPU runs it and nobody sleeps, waits or dies in it.
\* Two forks in progress never fill the same slot.
EmbryoOwned ==
    /\ \A p, q \in Slot : child[p] = child[q] /\ child[p] # NoProc => p = q
    /\ \A p \in Slot : child[p] # NoProc => state[child[p]] = "EMBRYO"

\* A process that fork() creates has not been killed: kill() marks "the
\* process with the given pid", and the new one's pid is fresh.
BornAlive == \A p \in Slot : state[p] = "EMBRYO" => ~killed[p]

\* An orphan's remains are freed: a zombie handed to init does not stay.
ZombieReaped ==
    \A p \in Slot : state[p] = "ZOMBIE" /\ parent[p] = initproc ~> state[p] = "UNUSED"

\* A killed process dies, wherever the kill met it: running, preempted, in
\* fork(), asleep in wait() or between sys_sleep()'s test of killed and its
\* sleep().  A process that asks for high priority may keep the CPU from it.
KilledDies ==
    \A p \in Slot :
        killed[p] /\ state[p] \in Live ~> state[p] \in {"ZOMBIE", "UNUSED"} \/ highpid # 0

\* The process that asked for high priority runs when it is RUNNABLE, though
\* the scheduler looks for it only between two rounds.
HighPrioRuns ==
    \A p \in Slot :
        state[p] = "RUNNABLE" /\ pid[p] = highpid ~>
            state[p] = "RUNNING" \/ highpid # pid[p]
=============================================================================
