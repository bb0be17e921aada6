----------------------------- MODULE ProcProofs -----------------------------
(***************************************************************************)
(* The safety invariants of Proc, proved for every number of slots, CPUs   *)
(* and pids and every width of ticks.                                      *)
(***************************************************************************)
EXTENDS Proc, TLAPS

-----------------------------------------------------------------------------
(* Who may use a kernel stack, and who holds the locks *)

\* Who may use a kernel stack, and who holds the two locks.
CpuInv ==
    /\ OneCpuPerStack
    /\ SchedAsserts
    /\ EmbryoOwned
    /\ \A p \in Slot : at[p] \in {"fork", "forked"} => child[p] # NoProc
    /\ \A c \in CPU : tlock = c =>
        \/ irq[c] = "wake"
        \/ irq[c] = "none" /\ proc[c] # NoProc /\ at[proc[c]] \in {"loop", "tosleep"}

-----------------------------------------------------------------------------
(* Type correctness. *)

\* The ranges that the types are made of.
LEMMA Ranges ==
    /\ initproc \in Slot
    /\ 0 \in CPU
    /\ \A p \in Slot : p \in Int /\ p + 1 \in 0 .. NPROC
    /\ 0 \in 0 .. NPROC /\ NPROC \in 0 .. NPROC
    /\ 0 \in 0 .. MaxPid
    /\ \A k \in 1 .. MaxPid + 1 : k <= MaxPid => k \in 0 .. MaxPid /\ k + 1 \in 1 .. MaxPid + 1
    /\ 0 \in 0 .. TickMod - 1 /\ SleepArgs \subseteq 0 .. TickMod - 1
    /\ \A k \in 0 .. TickMod - 1 : (k + 1) % TickMod \in 0 .. TickMod - 1
BY NPROCAssumption, NCPUAssumption, MaxPidAssumption, TickAssumption DEF Slot, CPU, initproc

\* Every step of the kernel keeps the types.
LEMMA TypeStep == TypeOK /\ [Next]_vars => TypeOK'
<1> SUFFICES ASSUME TypeOK, [Next]_vars PROVE TypeOK'
    OBVIOUS
<1> USE Ranges DEF TypeOK, States, Places
<1>1. CASE UNCHANGED vars
    BY <1>1 DEF vars, table, locals, sched
<1>2. ASSUME NEW c \in CPU, Scheduler(c) PROVE TypeOK'
    <2>1. CASE SchedHigh(c)
        BY <2>1 DEF SchedHigh, InScheduler, IsFirst, High, Dispatch, table, locals, sched
    <2>2. CASE SchedRound(c)
        BY <2>2 DEF SchedRound, InScheduler, table, locals, sched
    <2>3. CASE SchedPick(c)
        BY <2>3 DEF SchedPick, InScheduler, IsFirst, Runnable, Dispatch, table, locals, sched
    <2>4. CASE SchedEnd(c)
        BY <2>4 DEF SchedEnd, InScheduler, table, locals, sched
    <2>5. CASE Swtch(c)
        BY <2>5 DEF Swtch, table, locals, sched
    <2> HIDE DEF TypeOK
    <2> QED BY <1>2, <2>1, <2>2, <2>3, <2>4, <2>5 DEF Scheduler
<1>3. ASSUME NEW c \in CPU, Interrupt(c) PROVE TypeOK'
    <2>1. CASE TimerIrq(c)
        BY <2>1 DEF TimerIrq, table, locals, sched
    <2>2. CASE TickCount(c)
        BY <2>2 DEF TickCount, table, locals, sched
    <2>3. CASE TickWake(c)
        BY <2>3 DEF TickWake, Wakeup1, table, locals, sched
    <2>4. CASE IrqReturn(c)
        BY <2>4 DEF IrqReturn, table, locals, sched
    <2>5. ASSUME NEW p \in Slot, IrqExit(c, p) PROVE TypeOK'
        BY <2>5 DEF IrqExit, table, locals, sched
    <2>6. ASSUME NEW p \in Slot, Yield(c, p) PROVE TypeOK'
        BY <2>6 DEF Yield, table, locals, sched
    <2> HIDE DEF TypeOK
    <2> QED BY <1>3, <2>1, <2>2, <2>3, <2>4, <2>5, <2>6 DEF Interrupt
<1>4. ASSUME NEW c \in CPU, NEW p \in Slot, Process(c, p) PROVE TypeOK'
    <2>1. CASE Resume(c, p)
        BY <2>1 DEF Resume, Runs, table, locals, sched
    <2>2. CASE ForkAlloc(c, p)
        BY <2>2 DEF ForkAlloc, Syscall, Runs, Goto, IsFirst, table, locals, sched
    <2>3. CASE ForkFail(c, p)
        BY <2>3, Zenon DEF ForkFail, In, Runs, Goto, table, locals, sched
    <2>4. CASE ForkCopy(c, p)
        BY <2>4, Zenon DEF ForkCopy, In, Runs, table, locals, sched
    <2>5. CASE ForkPublish(c, p)
        BY <2>5, Zenon DEF ForkPublish, In, Runs, Goto, table, locals, sched
    <2>6. CASE ExitClose(c, p)
        BY <2>6 DEF ExitClose, In, Runs, Goto, table, locals, sched
    <2>7. CASE ExitZombie(c, p)
        BY <2>7 DEF ExitZombie, In, Runs, Wakeup1, table, locals, sched
    <2>8. CASE WaitReap(c, p)
        BY <2>8 DEF WaitReap, WaitLoop, Syscall, Runs, Goto, IsFirst, Zombies, Kids, table, locals, sched
    <2>9. CASE WaitNone(c, p)
        BY <2>9 DEF WaitNone, WaitLoop, Syscall, Runs, Goto, table, locals, sched
    <2>10. CASE WaitSleep(c, p)
        BY <2>10 DEF WaitSleep, WaitLoop, Syscall, Runs, Goto, table, locals, sched
    <2>11. CASE SetHighPrio(c, p)
        BY <2>11 DEF SetHighPrio, Syscall, Runs, table, locals, sched
    <2>12. CASE SleepReturn(c, p)
        BY <2>12 DEF SleepReturn, In, Runs, Goto, table, locals, sched
    <2>13. CASE SleepAgain(c, p)
        BY <2>13 DEF SleepAgain, In, Runs, Goto, table, locals, sched
    <2>14. CASE SleepEnter(c, p)
        BY <2>14 DEF SleepEnter, In, Runs, Goto, table, locals, sched
    <2>15. CASE SleepReacquire(c, p)
        BY <2>15 DEF SleepReacquire, In, Runs, Goto, table, locals, sched
    <2>16. ASSUME NEW k \in KillPids, Kill(c, p, k) PROVE TypeOK'
        BY <2>16 DEF Kill, Syscall, Runs, IsFirst, table, locals, sched
    <2>17. ASSUME NEW arg \in SleepArgs, SleepCall(c, p, arg) PROVE TypeOK'
        BY <2>17 DEF SleepCall, Syscall, Runs, Goto, table, locals, sched
    <2> HIDE DEF TypeOK
    <2> QED
        BY <1>4, <2>1, <2>2, <2>3, <2>4, <2>5, <2>6, <2>7, <2>8, <2>9,
           <2>10, <2>11, <2>12, <2>13, <2>14, <2>15, <2>16, <2>17 DEF
           Process
<1> HIDE DEF TypeOK
<1> QED BY <1>1, <1>2, <1>3, <1>4 DEF Next

-----------------------------------------------------------------------------
(* Stacks and locks. *)

\* "Nobody" and the channel of the ticks are no members of the sets.
LEMMA Sentinels ==
    /\ NoProc \notin Slot /\ NoCpu \notin CPU
    /\ TicksChan \notin Slot /\ NoChan \notin Slot /\ NoChan # TicksChan
BY NPROCAssumption DEF Slot, CPU, NoProc, NoCpu, TicksChan, NoChan

\* Every step keeps CpuInv.
LEMMA CpuStep == TypeOK /\ CpuInv /\ [Next]_vars => CpuInv'
<1> SUFFICES ASSUME TypeOK, CpuInv, [Next]_vars PROVE CpuInv'
    OBVIOUS
<1>0. /\ state \in [Slot -> States] /\ at \in [Slot -> Places]
      /\ child \in [Slot -> Slot \cup {NoProc}] /\ proc \in [CPU -> Slot \cup {NoProc}]
      /\ tlock \in CPU \cup {NoCpu} /\ irq \in [CPU -> {"none", "tick", "wake", "preempt"}]
    BY DEF TypeOK
<1> USE <1>0, Sentinels DEF CpuInv, OneCpuPerStack, SchedAsserts, EmbryoOwned
<1>1. CASE UNCHANGED vars
    BY <1>1 DEF vars, table, locals, sched
<1>2. ASSUME NEW c \in CPU, Scheduler(c) PROVE CpuInv'
    <2>1. CASE SchedHigh(c)
        BY <2>1 DEF SchedHigh, InScheduler, IsFirst, High, Dispatch, table, locals, sched
    <2>2. CASE SchedRound(c)
        BY <2>2 DEF SchedRound, InScheduler, table, locals, sched
    <2>3. CASE SchedPick(c)
        BY <2>3 DEF SchedPick, InScheduler, IsFirst, Runnable, Dispatch, table, locals, sched
    <2>4. CASE SchedEnd(c)
        BY <2>4 DEF SchedEnd, InScheduler, table, locals, sched
    <2>5. CASE Swtch(c)
        BY <2>5 DEF Swtch, table, locals, sched
    <2> HIDE DEF CpuInv
    <2> QED BY <1>2, <2>1, <2>2, <2>3, <2>4, <2>5 DEF Scheduler
<1>3. ASSUME NEW c \in CPU, Interrupt(c) PROVE CpuInv'
    <2>1. CASE TimerIrq(c)
        BY <2>1 DEF TimerIrq, table, locals, sched
    <2>2. CASE TickCount(c)
        BY <2>2 DEF TickCount, table, locals, sched
    <2>3. CASE TickWake(c)
        BY <2>3 DEF TickWake, Wakeup1, table, locals, sched
    <2>4. CASE IrqReturn(c)
        BY <2>4 DEF IrqReturn, table, locals, sched
    <2>5. ASSUME NEW p \in Slot, IrqExit(c, p) PROVE CpuInv'
        BY <2>5 DEF IrqExit, table, locals, sched
    <2>6. ASSUME NEW p \in Slot, Yield(c, p) PROVE CpuInv'
        BY <2>6 DEF Yield, table, locals, sched
    <2> HIDE DEF CpuInv
    <2> QED BY <1>3, <2>1, <2>2, <2>3, <2>4, <2>5, <2>6 DEF Interrupt
<1>4. ASSUME NEW c \in CPU, NEW p \in Slot, Process(c, p) PROVE CpuInv'
    <2>1. CASE Resume(c, p)
        BY <2>1 DEF Resume, Runs, table, locals, sched
    <2>2. CASE ForkAlloc(c, p)
        BY <2>2 DEF ForkAlloc, Syscall, Runs, Goto, IsFirst, table, locals, sched
    <2>3. CASE ForkFail(c, p)
        BY <2>3 DEF ForkFail, In, Runs, Goto, table, locals, sched
    <2>4. CASE ForkCopy(c, p)
        BY <2>4 DEF ForkCopy, In, Runs, table, locals, sched
    <2>5. CASE ForkPublish(c, p)
        BY <2>5 DEF ForkPublish, In, Runs, Goto, table, locals, sched
    <2>6. CASE ExitClose(c, p)
        BY <2>6 DEF ExitClose, In, Runs, Goto, table, locals, sched
    <2>7. CASE ExitZombie(c, p)
        <3>1. /\ proc[c] = p /\ irq[c] = "none" /\ state[p] = "RUNNING" /\ at[p] = "exit"
              /\ ptlock = NoCpu /\ ptlock' = c
              /\ UNCHANGED <<at, child, proc, tlock, irq>>
            BY <2>7 DEF ExitZombie, In, Runs, locals, sched
        <3>2. state'[p] = "ZOMBIE"
            BY <2>7 DEF ExitZombie, Wakeup1
        <3>3. \A q \in Slot \ {p} :
                state'[q] = state[q] \/ (state[q] = "SLEEPING" /\ state'[q] = "RUNNABLE")
            BY <2>7 DEF ExitZombie, Wakeup1
        <3>4. OneCpuPerStack'
            BY <3>1, <3>2, <3>3
        <3>5. SchedAsserts'
            BY <3>1, <3>2, <3>3
        <3>6. EmbryoOwned'
            BY <3>1, <3>2, <3>3
        <3> QED
            BY <3>1, <3>4, <3>5, <3>6
    <2>8. CASE WaitReap(c, p)
        BY <2>8 DEF WaitReap, WaitLoop, Syscall, Runs, Goto, IsFirst, Zombies, Kids, table, locals, sched
    <2>9. CASE WaitNone(c, p)
        BY <2>9 DEF WaitNone, WaitLoop, Syscall, Runs, Goto, Zombies, Kids, table, locals, sched
    <2>10. CASE WaitSleep(c, p)
        BY <2>10 DEF WaitSleep, WaitLoop, Syscall, Runs, Goto, Zombies, Kids, table, locals, sched
    <2>11. CASE SetHighPrio(c, p)
        BY <2>11 DEF SetHighPrio, Syscall, Runs, table, locals, sched
    <2>12. CASE SleepReturn(c, p)
        BY <2>12 DEF SleepReturn, In, Runs, Goto, table, locals, sched
    <2>13. CASE SleepAgain(c, p)
        BY <2>13 DEF SleepAgain, In, Runs, Goto, table, locals, sched
    <2>14. CASE SleepEnter(c, p)
        BY <2>14 DEF SleepEnter, In, Runs, Goto, table, locals, sched
    <2>15. CASE SleepReacquire(c, p)
        BY <2>15 DEF SleepReacquire, In, Runs, Goto, table, locals, sched
    <2>16. ASSUME NEW k \in KillPids, Kill(c, p, k) PROVE CpuInv'
        BY <2>16 DEF Kill, Syscall, Runs, IsFirst, table, locals, sched
    <2>17. ASSUME NEW arg \in SleepArgs, SleepCall(c, p, arg) PROVE CpuInv'
        BY <2>17 DEF SleepCall, Syscall, Runs, Goto, table, locals, sched
    <2> HIDE DEF CpuInv
    <2> QED
        BY <1>4, <2>1, <2>2, <2>3, <2>4, <2>5, <2>6, <2>7, <2>8, <2>9,
           <2>10, <2>11, <2>12, <2>13, <2>14, <2>15, <2>16, <2>17 DEF
           Process
<1> HIDE DEF CpuInv
<1> QED BY <1>1, <1>2, <1>3, <1>4 DEF Next

-----------------------------------------------------------------------------
(* Parents and children, sleepers and ticks *)

\* Who is whose child.  init lives for ever.
FamilyInv ==
    /\ LiveParent
    /\ NoMissedExit
    /\ state[initproc] \in Live /\ at[initproc] # "exit"
    /\ pid[initproc] = 1 /\ ~killed[initproc] /\ parent[initproc] = NoProc
    /\ \A p \in Slot : parent[p] # p
    /\ \A p \in Slot : state[p] = "UNUSED" => parent[p] = NoProc
    /\ \A p \in Slot : at[p] = "fork" => parent[child[p]] = NoProc
    /\ \A p \in Slot : at[p] = "forked" => parent[child[p]] = p

\* Who counts ticks and who waits for them: a process in sys_sleep()'s loop
\* is on a CPU and has tickslock, and so has the handler that counts.
TickInv ==
    /\ NoMissedTick
    /\ \A c \in CPU : irq[c] \in {"tick", "wake"} => c = 0
    /\ \A c \in CPU : irq[c] = "wake" => tlock = c
    /\ \A p \in Slot : at[p] \in {"loop", "tosleep"} =>
        \E c \in CPU : proc[c] = p /\ tlock = c /\ irq[c] = "none"
    /\ \A p \in Slot : at[p] = "tosleep" => Elapsed(p) < n[p]

-----------------------------------------------------------------------------
(* Parents and children. *)

\* Every step keeps FamilyInv.
LEMMA FamilyStep == TypeOK /\ CpuInv /\ FamilyInv /\ [Next]_vars => FamilyInv'
<1> SUFFICES ASSUME TypeOK, CpuInv, FamilyInv, [Next]_vars PROVE FamilyInv'
    OBVIOUS
<1>a. /\ state \in [Slot -> States] /\ at \in [Slot -> Places]
      /\ parent \in [Slot -> Slot \cup {NoProc}]
      /\ chan \in [Slot -> Slot \cup {TicksChan, NoChan}]
      /\ killed \in [Slot -> BOOLEAN] /\ pid \in [Slot -> 0 .. MaxPid]
      /\ child \in [Slot -> Slot \cup {NoProc}]
    BY DEF TypeOK
<1>b. initproc \in Slot /\ NoProc \notin Slot /\ NoChan \notin Slot /\ TicksChan \notin Slot
    BY Ranges, Sentinels
<1>c. /\ \A p, q \in Slot : child[p] = child[q] /\ child[p] # NoProc => p = q
      /\ \A p \in Slot : child[p] # NoProc => state[child[p]] = "EMBRYO"
      /\ \A p \in Slot : at[p] \in {"fork", "forked"} => child[p] # NoProc
    BY DEF CpuInv, EmbryoOwned
<1>d. \A c \in CPU, p \in Slot : irq[c] = "preempt" /\ proc[c] = p => state[p] = "RUNNING"
    BY Sentinels DEF CpuInv, SchedAsserts
<1> USE <1>a, <1>b, <1>c DEF FamilyInv, LiveParent, NoMissedExit, Live, Kids, Zombies
<1>1. CASE UNCHANGED vars
    BY <1>1 DEF vars, table, locals, sched
<1>2. ASSUME NEW c \in CPU, Scheduler(c) PROVE FamilyInv'
    <2>1. CASE SchedHigh(c)
        BY <2>1 DEF SchedHigh, InScheduler, IsFirst, High, Dispatch, table, locals, sched
    <2>2. CASE SchedRound(c)
        BY <2>2 DEF SchedRound, InScheduler, table, locals, sched
    <2>3. CASE SchedPick(c)
        BY <2>3 DEF SchedPick, InScheduler, IsFirst, Runnable, Dispatch, table, locals, sched
    <2>4. CASE SchedEnd(c)
        BY <2>4 DEF SchedEnd, InScheduler, table, locals, sched
    <2>5. CASE Swtch(c)
        BY <2>5 DEF Swtch, table, locals, sched
    <2> HIDE DEF FamilyInv
    <2> QED BY <1>2, <2>1, <2>2, <2>3, <2>4, <2>5 DEF Scheduler
<1>3. ASSUME NEW c \in CPU, Interrupt(c) PROVE FamilyInv'
    <2>1. CASE TimerIrq(c)
        BY <2>1 DEF TimerIrq, table, locals, sched
    <2>2. CASE TickCount(c)
        BY <2>2 DEF TickCount, table, locals, sched
    <2>3. CASE TickWake(c)
        BY <2>3 DEF TickWake, Wakeup1, table, locals, sched
    <2>4. CASE IrqReturn(c)
        BY <2>4 DEF IrqReturn, table, locals, sched
    <2>5. ASSUME NEW p \in Slot, IrqExit(c, p) PROVE FamilyInv'
        BY <2>5, <1>d DEF IrqExit, table, locals, sched
    <2>6. ASSUME NEW p \in Slot, Yield(c, p) PROVE FamilyInv'
        BY <2>6, <1>d DEF Yield, table, locals, sched
    <2> HIDE DEF FamilyInv
    <2> QED BY <1>3, <2>1, <2>2, <2>3, <2>4, <2>5, <2>6 DEF Interrupt
<1>4. ASSUME NEW c \in CPU, NEW p \in Slot, Process(c, p) PROVE FamilyInv'
    <2>1. CASE Resume(c, p)
        <3> USE <2>1 DEF Resume, Runs, table, locals, sched
        <3>1. \A q \in Slot : chan'[q] = q => chan[q] = q
            OBVIOUS
        <3>2. \A q \in Slot : at'[q] \in {"fork", "forked", "exit"} => at'[q] = at[q]
            OBVIOUS
        <3>3. LiveParent' /\ NoMissedExit'
            BY <3>1
        <3> QED
            BY <3>2, <3>3
    <2>2. CASE ForkAlloc(c, p)
        BY <2>2 DEF ForkAlloc, Syscall, Runs, Goto, IsFirst, table, locals, sched
    <2>3. CASE ForkFail(c, p)
        BY <2>3 DEF ForkFail, In, Runs, Goto, table, locals, sched
    <2>4. CASE ForkCopy(c, p)
        BY <2>4 DEF ForkCopy, In, Runs, table, locals, sched
    <2>5. CASE ForkPublish(c, p)
        BY <2>5 DEF ForkPublish, In, Runs, Goto, table, locals, sched
    <2>6. CASE ExitClose(c, p)
        BY <2>6 DEF ExitClose, In, Runs, Goto, table, locals, sched
    <2>7. CASE ExitZombie(c, p)
        <3> USE <2>7 DEF ExitZombie, In, Runs, table, locals, sched
        <3>1. /\ p # initproc /\ state[p] = "RUNNING" /\ p \notin {child[q] : q \in Slot}
              /\ parent' = [q \in Slot |-> IF parent[q] = p THEN initproc ELSE parent[q]]
              /\ state'[p] = "ZOMBIE"
            BY DEF Wakeup1
        <3>2. \A q \in Slot \ {p} :
                \/ state'[q] = state[q] /\ ~(state[q] = "SLEEPING" /\ chan[q] = parent[p])
                \/ state[q] = "SLEEPING" /\ state'[q] = "RUNNABLE"
            BY DEF Wakeup1
        <3>3. (\E q \in Slot : parent[q] = p /\ state[q] = "ZOMBIE") =>
                ~(state'[initproc] = "SLEEPING" /\ chan[initproc] = initproc)
            BY <3>1 DEF Wakeup1
        <3>4. LiveParent'
            BY <3>1, <3>2
        <3>5. NoMissedExit'
            BY <3>1, <3>2, <3>3
        <3>6. state'[initproc] \in Live /\ at'[initproc] # "exit" /\ pid'[initproc] = 1 /\ ~killed'[initproc]
            BY <3>1, <3>2
        <3>7. parent'[initproc] = NoProc /\ \A q \in Slot : parent'[q] # q
            BY <3>1
        <3>8. \A q \in Slot : state'[q] = "UNUSED" => parent'[q] = NoProc
            BY <3>1, <3>2
        <3>9. \A q \in Slot : /\ at'[q] = "fork" => parent'[child'[q]] = NoProc
                              /\ at'[q] = "forked" => parent'[child'[q]] = q
            BY <3>1
        <3> HIDE <2>7 DEF LiveParent, NoMissedExit
        <3> QED
            BY <3>4, <3>5, <3>6, <3>7, <3>8, <3>9
    <2>8. CASE WaitReap(c, p)
        BY <2>8 DEF WaitReap, WaitLoop, Syscall, Runs, Goto, IsFirst, Zombies, Kids, table, locals, sched
    <2>9. CASE WaitNone(c, p)
        BY <2>9 DEF WaitNone, WaitLoop, Syscall, Runs, Goto, Zombies, Kids, table, locals, sched
    <2>10. CASE WaitSleep(c, p)
        BY <2>10 DEF WaitSleep, WaitLoop, Syscall, Runs, Goto, Zombies, Kids, table, locals, sched
    <2>11. CASE SetHighPrio(c, p)
        BY <2>11 DEF SetHighPrio, Syscall, Runs, table, locals, sched
    <2>12. CASE SleepReturn(c, p)
        BY <2>12 DEF SleepReturn, In, Runs, Goto, table, locals, sched
    <2>13. CASE SleepAgain(c, p)
        BY <2>13 DEF SleepAgain, In, Runs, Goto, table, locals, sched
    <2>14. CASE SleepEnter(c, p)
        BY <2>14 DEF SleepEnter, In, Runs, Goto, table, locals, sched
    <2>15. CASE SleepReacquire(c, p)
        BY <2>15 DEF SleepReacquire, In, Runs, Goto, table, locals, sched
    <2>16. ASSUME NEW k \in KillPids, Kill(c, p, k) PROVE FamilyInv'
        BY <2>16, KillAssumption DEF Kill, Syscall, Runs, IsFirst, table, locals, sched
    <2>17. ASSUME NEW arg \in SleepArgs, SleepCall(c, p, arg) PROVE FamilyInv'
        BY <2>17 DEF SleepCall, Syscall, Runs, Goto, table, locals, sched
    <2> HIDE DEF FamilyInv
    <2> QED
        BY <1>4, <2>1, <2>2, <2>3, <2>4, <2>5, <2>6, <2>7, <2>8, <2>9,
           <2>10, <2>11, <2>12, <2>13, <2>14, <2>15, <2>16, <2>17 DEF
           Process
<1> HIDE DEF FamilyInv
<1> QED BY <1>1, <1>2, <1>3, <1>4 DEF Next

-----------------------------------------------------------------------------
(* Ticks. *)

\* Every step keeps TickInv.
LEMMA TickStep == TypeOK /\ CpuInv /\ TickInv /\ [Next]_vars => TickInv'
<1> SUFFICES ASSUME TypeOK, CpuInv, TickInv, [Next]_vars PROVE TickInv'
    OBVIOUS
<1>a. /\ state \in [Slot -> States] /\ at \in [Slot -> Places]
      /\ chan \in [Slot -> Slot \cup {TicksChan, NoChan}]
      /\ child \in [Slot -> Slot \cup {NoProc}]
      /\ ticks0 \in [Slot -> 0 .. TickMod - 1] /\ n \in [Slot -> 0 .. TickMod - 1]
      /\ proc \in [CPU -> Slot \cup {NoProc}]
      /\ irq \in [CPU -> {"none", "tick", "wake", "preempt"}]
    BY DEF TypeOK
<1>b. 0 \in CPU /\ NoProc \notin Slot /\ NoCpu \notin CPU /\ NoChan # TicksChan /\ TicksChan \notin Slot
    BY Ranges, Sentinels
<1>c. /\ \A c, d \in CPU : proc[c] = proc[d] /\ proc[c] # NoProc => c = d
      /\ \A c \in CPU : proc[c] # NoProc => state[proc[c]] \notin {"UNUSED", "EMBRYO"}
      /\ \A c \in CPU : proc[c] # NoProc /\ state[proc[c]] # "RUNNING" => tlock # c /\ irq[c] = "none"
      /\ \A p \in Slot : child[p] # NoProc => state[child[p]] = "EMBRYO"
      /\ \A p \in Slot : at[p] \in {"fork", "forked"} => child[p] # NoProc
    BY DEF CpuInv, OneCpuPerStack, SchedAsserts, EmbryoOwned
<1> USE <1>a, <1>b, <1>c DEF TickInv, NoMissedTick, Elapsed
<1>1. CASE UNCHANGED vars
    BY <1>1 DEF vars, table, locals, sched
<1>2. ASSUME NEW c \in CPU, Scheduler(c) PROVE TickInv'
    <2>1. CASE SchedHigh(c)
        BY <2>1 DEF SchedHigh, InScheduler, IsFirst, High, Dispatch, table, locals, sched
    <2>2. CASE SchedRound(c)
        BY <2>2 DEF SchedRound, InScheduler, table, locals, sched
    <2>3. CASE SchedPick(c)
        BY <2>3 DEF SchedPick, InScheduler, IsFirst, Runnable, Dispatch, table, locals, sched
    <2>4. CASE SchedEnd(c)
        BY <2>4 DEF SchedEnd, InScheduler, table, locals, sched
    <2>5. CASE Swtch(c)
        BY <2>5 DEF Swtch, table, locals, sched
    <2> HIDE DEF TickInv
    <2> QED BY <1>2, <2>1, <2>2, <2>3, <2>4, <2>5 DEF Scheduler
<1>3. ASSUME NEW c \in CPU, Interrupt(c) PROVE TickInv'
    <2>1. CASE TimerIrq(c)
        BY <2>1 DEF TimerIrq, table, locals, sched
    <2>2. CASE TickCount(c)
        BY <2>2 DEF TickCount, table, locals, sched
    <2>3. CASE TickWake(c)
        <3> USE <2>3 DEF TickWake, table, locals, sched
        <3>1. \A q \in Slot : ~(state'[q] = "SLEEPING" /\ chan'[q] = TicksChan)
            BY DEF Wakeup1
        <3>2. tlock = c
            OBVIOUS
        <3> QED
            BY <3>1, <3>2
    <2>4. CASE IrqReturn(c)
        BY <2>4 DEF IrqReturn, table, locals, sched
    <2>5. ASSUME NEW p \in Slot, IrqExit(c, p) PROVE TickInv'
        BY <2>5 DEF IrqExit, table, locals, sched
    <2>6. ASSUME NEW p \in Slot, Yield(c, p) PROVE TickInv'
        BY <2>6 DEF Yield, table, locals, sched
    <2> HIDE DEF TickInv
    <2> QED BY <1>3, <2>1, <2>2, <2>3, <2>4, <2>5, <2>6 DEF Interrupt
<1>4. ASSUME NEW c \in CPU, NEW p \in Slot, Process(c, p) PROVE TickInv'
    <2>1. CASE Resume(c, p)
        BY <2>1 DEF Resume, Runs, table, locals, sched
    <2>2. CASE ForkAlloc(c, p)
        BY <2>2 DEF ForkAlloc, Syscall, Runs, Goto, IsFirst, table, locals, sched
    <2>3. CASE ForkFail(c, p)
        BY <2>3 DEF ForkFail, In, Runs, Goto, table, locals, sched
    <2>4. CASE ForkCopy(c, p)
        BY <2>4 DEF ForkCopy, In, Runs, table, locals, sched
    <2>5. CASE ForkPublish(c, p)
        BY <2>5 DEF ForkPublish, In, Runs, Goto, table, locals, sched
    <2>6. CASE ExitClose(c, p)
        BY <2>6 DEF ExitClose, In, Runs, Goto, table, locals, sched
    <2>7. CASE ExitZombie(c, p)
        BY <2>7 DEF ExitZombie, In, Runs, Wakeup1, table, locals, sched
    <2>8. CASE WaitReap(c, p)
        BY <2>8 DEF WaitReap, WaitLoop, Syscall, Runs, Goto, IsFirst, Zombies, Kids, table, locals, sched
    <2>9. CASE WaitNone(c, p)
        BY <2>9 DEF WaitNone, WaitLoop, Syscall, Runs, Goto, Zombies, Kids, table, locals, sched
    <2>10. CASE WaitSleep(c, p)
        BY <2>10 DEF WaitSleep, WaitLoop, Syscall, Runs, Goto, Zombies, Kids, table, locals, sched
    <2>11. CASE SetHighPrio(c, p)
        BY <2>11 DEF SetHighPrio, Syscall, Runs, table, locals, sched
    <2>12. CASE SleepReturn(c, p)
        BY <2>12 DEF SleepReturn, In, Runs, Goto, table, locals, sched
    <2>13. CASE SleepAgain(c, p)
        BY <2>13 DEF SleepAgain, In, Runs, Goto, table, locals, sched
    <2>14. CASE SleepEnter(c, p)
        BY <2>14 DEF SleepEnter, In, Runs, Goto, table, locals, sched
    <2>15. CASE SleepReacquire(c, p)
        BY <2>15 DEF SleepReacquire, In, Runs, Goto, table, locals, sched
    <2>16. ASSUME NEW k \in KillPids, Kill(c, p, k) PROVE TickInv'
        BY <2>16 DEF Kill, Syscall, Runs, IsFirst, table, locals, sched
    <2>17. ASSUME NEW arg \in SleepArgs, SleepCall(c, p, arg) PROVE TickInv'
        BY <2>17 DEF SleepCall, Syscall, Runs, Goto, table, locals, sched
    <2> HIDE DEF TickInv
    <2> QED
        BY <1>4, <2>1, <2>2, <2>3, <2>4, <2>5, <2>6, <2>7, <2>8, <2>9,
           <2>10, <2>11, <2>12, <2>13, <2>14, <2>15, <2>16, <2>17 DEF
           Process
<1> HIDE DEF TickInv
<1> QED BY <1>1, <1>2, <1>3, <1>4 DEF Next
-----------------------------------------------------------------------------
(* The invariants of every behaviour. *)

Inv == TypeOK /\ CpuInv /\ FamilyInv /\ TickInv

\* The boot state satisfies the invariant.
LEMMA InitInv == Init => Inv
<1> SUFFICES ASSUME Init PROVE Inv
    OBVIOUS
<1>1. TypeOK
    BY NPROCAssumption, NCPUAssumption, MaxPidAssumption, TickAssumption
    DEF Init, TypeOK, States, Places, Slot, CPU, NoProc, NoCpu, NoChan, TicksChan, initproc
<1>2. CpuInv
    BY Ranges, Sentinels DEF Init, CpuInv, OneCpuPerStack, SchedAsserts, EmbryoOwned
<1>3. FamilyInv
    BY Ranges, Sentinels DEF Init, FamilyInv, LiveParent, NoMissedExit, Live
<1>4. TickInv
    BY Ranges, Sentinels DEF Init, TickInv, NoMissedTick
<1> QED BY <1>1, <1>2, <1>3, <1>4 DEF Inv

\* The invariant of the process table: the three parts support each other.
THEOREM Invariance == Spec => []Inv
<1>1. Inv /\ [Next]_vars => Inv'
    BY TypeStep, CpuStep, FamilyStep, TickStep DEF Inv
<1> QED BY InitInv, <1>1, PTL DEF Spec

\* The variables of the process table, the scheduler and the timer always
\* have their types.
THEOREM TypeCorrect == Spec => []TypeOK
<1>1. Inv => TypeOK
    BY DEF Inv
<1> QED BY Invariance, <1>1, PTL

\* scheduler(), sched(), yield(), sleep(), exit() and wait() hand ptable.lock
\* over so that no two CPUs are ever on the same kernel stack, and none is on
\* the stack of a slot that is free or being filled.
THEOREM StackExclusion == Spec => []OneCpuPerStack
<1>1. Inv => OneCpuPerStack
    BY DEF Inv, CpuInv
<1> QED BY Invariance, <1>1, PTL

\* The panics at the head of sched() cannot happen.
THEOREM SchedNeverPanics == Spec => []SchedAsserts
<1>1. Inv => SchedAsserts
    BY DEF Inv, CpuInv
<1> QED BY Invariance, <1>1, PTL

\* fork() owns the slot that allocproc() gave it until it publishes the child
\* or gives the slot back, although it does so without ptable.lock.
THEOREM ForkOwnsSlot == Spec => []EmbryoOwned
<1>1. Inv => EmbryoOwned
    BY DEF Inv, CpuInv
<1> QED BY Invariance, <1>1, PTL

\* exit() leaves no process without a living parent.
THEOREM ParentsLive == Spec => []LiveParent
<1>1. Inv => LiveParent
    BY DEF Inv, FamilyInv
<1> QED BY Invariance, <1>1, PTL

\* wait() misses neither the exit of a child, nor a zombie that somebody
\* else's exit() hands over, nor a kill().
THEOREM WaitMissesNothing == Spec => []NoMissedExit
<1>1. Inv => NoMissedExit
    BY DEF Inv, FamilyInv
<1> QED BY Invariance, <1>1, PTL

\* sys_sleep() misses no tick, whatever the width of the counter.
THEOREM SleepMissesNoTick == Spec => []NoMissedTick
<1>1. Inv => NoMissedTick
    BY DEF Inv, TickInv
<1> QED BY Invariance, <1>1, PTL
=============================================================================
