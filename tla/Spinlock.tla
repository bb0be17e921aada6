------------------------------ MODULE Spinlock ------------------------------
(***************************************************************************)
(* Spinlocks and the interrupt flag (spinlock.c).  On every CPU a kernel   *)
(* thread takes locks in order, releases them in any order, and can be     *)
(* interrupted wherever interrupts are on, by a handler that takes a lock  *)
(* too.  A step is one access to shared or per-CPU memory.                 *)
(***************************************************************************)
EXTENDS Integers, Sequences, FiniteSets

CONSTANTS Cpu, NLock

SpinLock == 1 .. NLock

ASSUME SpinAssumption == 0 \notin Cpu /\ NLock \in Nat \ {0}

VARIABLES
    locked, lkcpu,      \* per lock: its word; lk->cpu, 0 if none
    intr,               \* per CPU: FL_IF
    ncli, intena,       \* per CPU: the depth of pushcli(), and FL_IF before the first
    frame,              \* per CPU: the thread, and the handler on top of it
    spinpanic           \* a check in acquire(), release() or popcli() failed

spvars == <<locked, lkcpu, intr, ncli, intena, frame, spinpanic>>

\* A frame: its place, the lock it works on, the flags that pushcli() has read,
\* and the locks it holds.
Frame == [at |-> "out", lk |-> 1, eflags |-> TRUE, held |-> {}]

SpInit ==
    /\ locked = [l \in SpinLock |-> FALSE] /\ lkcpu = [l \in SpinLock |-> 0]
    /\ intr = [c \in Cpu |-> TRUE] /\ ncli = [c \in Cpu |-> 0] /\ intena = [c \in Cpu |-> TRUE]
    /\ frame = [c \in Cpu |-> <<Frame>>]
    /\ spinpanic = FALSE

Top(c) == frame[c][Len(frame[c])]
SpSet(c, f) == frame' = [frame EXCEPT ![c][Len(frame[c])] = f]
SpAt(c, place) == Top(c).at = place /\ ~spinpanic
SpGoto(c, place) == SpSet(c, [Top(c) EXCEPT !.at = place])

\* holding(): a read of two words.
Holding(c, l) == locked[l] /\ lkcpu[l] = c

\* acquire() is called: locks have an order; pushcli() reads the flags ...
SpAcquire(c) ==
    \E l \in SpinLock :
    /\ SpAt(c, "out") /\ \A f \in 1 .. Len(frame[c]) : \A h \in frame[c][f].held : h < l
    /\ SpSet(c, [Top(c) EXCEPT !.at = "cli", !.lk = l, !.eflags = intr[c]])
    /\ UNCHANGED <<locked, lkcpu, intr, ncli, intena, spinpanic>>

\* The flags that the first pushcli() notes.
Noted(c) == IF ncli[c] = 0 THEN [intena EXCEPT ![c] = Top(c).eflags] ELSE intena

\* ... turns interrupts off and counts; holding() is tested.
PushCli(c) ==
    /\ SpAt(c, "cli")
    /\ intr' = [intr EXCEPT ![c] = FALSE]
    /\ intena' = Noted(c) /\ ncli' = [ncli EXCEPT ![c] = @ + 1]
    /\ spinpanic' = Holding(c, Top(c).lk)
    /\ SpGoto(c, "xchg")
    /\ UNCHANGED <<locked, lkcpu>>

\* xchg(&lk->locked, 1) until it was 0.
Xchg(c) ==
    /\ SpAt(c, "xchg") /\ ~locked[Top(c).lk]
    /\ locked' = [locked EXCEPT ![Top(c).lk] = TRUE]
    /\ SpGoto(c, "own")
    /\ UNCHANGED <<lkcpu, intr, ncli, intena, spinpanic>>

Own(c) ==
    /\ SpAt(c, "own")
    /\ lkcpu' = [lkcpu EXCEPT ![Top(c).lk] = c]
    /\ SpSet(c, [Top(c) EXCEPT !.at = "out", !.held = @ \cup {Top(c).lk}])
    /\ UNCHANGED <<locked, intr, ncli, intena, spinpanic>>

\* The two words of a lock that release() clears.
ClearsWord(l) == locked' = [locked EXCEPT ![l] = FALSE] /\ UNCHANGED lkcpu
ClearsCpu(l) == lkcpu' = [lkcpu EXCEPT ![l] = 0] /\ UNCHANGED locked

\* Mutant: release() clears the lock word first.
ReleaseSwapped(l, n) == IF n = 1 THEN ClearsWord(l) ELSE ClearsCpu(l)

\* The two writes of release(), in their order.
ReleaseWrite(l, n) == IF n = 1 THEN ClearsCpu(l) ELSE ClearsWord(l)

\* release(): lk->cpu is cleared, ...
SpRelease(c) ==
    \E l \in Top(c).held :
    /\ SpAt(c, "out")
    /\ spinpanic' = ~Holding(c, l)
    /\ ReleaseWrite(l, 1)
    /\ SpSet(c, [Top(c) EXCEPT !.at = "unlock", !.lk = l, !.held = @ \ {l}])
    /\ UNCHANGED <<intr, ncli, intena>>

\* ... then the word, ...
ReleaseUnlock(c) ==
    /\ SpAt(c, "unlock") /\ ReleaseWrite(Top(c).lk, 2) /\ SpGoto(c, "pop")
    /\ UNCHANGED <<intr, ncli, intena, spinpanic>>

\* ... and popcli() may turn interrupts on.
PopCli(c) ==
    /\ SpAt(c, "pop")
    /\ spinpanic' = (intr[c] \/ ncli[c] = 0)
    /\ ncli' = [ncli EXCEPT ![c] = @ - 1]
    /\ intr' = IF ncli[c] = 1 /\ intena[c] THEN [intr EXCEPT ![c] = TRUE] ELSE intr
    /\ SpGoto(c, "out")
    /\ UNCHANGED <<locked, lkcpu, intena>>

\* An interrupt gate turns interrupts off; the handler runs on the thread's stack.
SpInterrupt(c) ==
    /\ intr[c] /\ Len(frame[c]) = 1 /\ ~spinpanic
    /\ intr' = [intr EXCEPT ![c] = FALSE]
    /\ frame' = [frame EXCEPT ![c] = Append(@, Frame)]
    /\ UNCHANGED <<locked, lkcpu, ncli, intena, spinpanic>>

\* iret: the interrupted code had interrupts on.
Iret(c) ==
    /\ Len(frame[c]) = 2 /\ SpAt(c, "out") /\ Top(c).held = {}
    /\ intr' = [intr EXCEPT ![c] = TRUE]
    /\ frame' = [frame EXCEPT ![c] = <<@[1]>>]
    /\ UNCHANGED <<locked, lkcpu, ncli, intena, spinpanic>>

SpStep(c) ==
    \/ SpAcquire(c) \/ PushCli(c) \/ Xchg(c) \/ Own(c)
    \/ SpRelease(c) \/ ReleaseUnlock(c) \/ PopCli(c) \/ SpInterrupt(c) \/ Iret(c)
SpNext == \E c \in Cpu : SpStep(c)
SpSpec == SpInit /\ [][SpNext]_spvars

-----------------------------------------------------------------------------
(* Properties *)

\* A lock has one holder, and interrupts are off on its CPU; a thread that holds
\* none has them on again, a handler off (spinlock.c:86, pushcli() and popcli()
\* are matched).  The checks in acquire(), release() and popcli() never panic:
\* no handler wants a lock of the thread it interrupts, and holding() is right
\* about the caller although other CPUs write the words it reads.
SpinDiscipline ==
    /\ ~spinpanic
    /\ \A c \in Cpu, f \in 1 .. 2 : f <= Len(frame[c]) => \A l \in frame[c][f].held :
          /\ ~intr[c] /\ lkcpu[l] = c
          /\ \A d \in Cpu : d # c => l \notin Top(d).held
    /\ \A c \in Cpu : SpAt(c, "out") /\ Top(c).held = {} => ncli[c] = 0 /\ (intr[c] <=> Len(frame[c]) = 1)

=============================================================================
