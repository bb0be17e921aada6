----------------------------- MODULE AtomicDisk -----------------------------
(***************************************************************************)
(* What the logging layer promises to the file system (the comment at the  *)
(* head of log.c): system calls that run between begin_op() and end_op()   *)
(* write blocks; the blocks become durable together, only at moments when  *)
(* no system call is active, and a crash brings back the last such moment. *)
(***************************************************************************)
CONSTANTS Proc, Home, Val

VARIABLES
    mem,      \* the blocks as the file system reads them
    stable,   \* the blocks as they are after a crash and recovery
    active    \* the processes between begin_op() and end_op()

avars == <<mem, stable, active>>

AInit ==
    /\ mem \in [Home -> Val]
    /\ stable = mem
    /\ active = {}

ABegin(p) == p \notin active /\ active' = active \cup {p} /\ UNCHANGED <<mem, stable>>

AEnd(p) == p \in active /\ active' = active \ {p} /\ UNCHANGED <<mem, stable>>

AWrite(p, b, v) ==
    /\ p \in active
    /\ mem' = [mem EXCEPT ![b] = v]
    /\ UNCHANGED <<stable, active>>

ACommit ==
    /\ active = {}
    /\ stable' = mem
    /\ UNCHANGED <<mem, active>>

ACrash ==
    /\ mem' = stable
    /\ active' = {}
    /\ UNCHANGED stable

ANext ==
    \/ \E p \in Proc : ABegin(p) \/ AEnd(p) \/ \E b \in Home, v \in Val : AWrite(p, b, v)
    \/ ACommit
    \/ ACrash

ASpec == AInit /\ [][ANext]_avars
=============================================================================
