----------------------------- MODULE MCProcesses ----------------------------
(***************************************************************************)
(* Processes and what they share, for model checking: the process table,   *)
(* spin locks, memory, and the tree of files.  A behaviour is one of one   *)
(* component; the others stay as they start.                               *)
(***************************************************************************)
EXTENDS Proc, Spinlock, Memory, FileTree, TLC

CONSTANTS p1, p2, a, b

VARIABLE part

\* Type correctness of the components.
PsTypes == TypeOK /\ MemTypeOK /\ FtTypeOK

\* Files and one level of directories: every ".." is the root.
Flat ==
    p1 :> {[call |-> "mkdir", path |-> <<"/", b>>],
           [call |-> "create", path |-> <<a>>],
           [call |-> "create", path |-> <<b, a>>],
           [call |-> "link", path |-> <<a>>, new |-> <<b, a>>],
           [call |-> "chdir", path |-> <<b>>],
           [call |-> "fork"], [call |-> "close"]}
    @@ p2 :> {[call |-> "open", path |-> <<"/", a>>, mode |-> "r"],
              [call |-> "unlink", path |-> <<"/", a>>],
              [call |-> "unlink", path |-> <<"/", b, a>>],
              [call |-> "unlink", path |-> <<"/", b>>],
              [call |-> "dup"], [call |-> "exit"]}
FlatCalls == p1 :> 4 @@ p2 :> 2

PsInit ==
    /\ part \in {"proc", "spin", "tree", "memory"}
    /\ Init /\ SpInit /\ FtInit /\ MemInit

\* The bounds on calls let these parts stop.
PsStop == part \in {"tree", "memory"} /\ UNCHANGED <<part, vars, spvars, ftvars, memvars>>

PsNext ==
    \/ part = "proc"   /\ Next    /\ UNCHANGED <<part, spvars, ftvars, memvars>>
    \/ part = "spin"   /\ SpNext  /\ UNCHANGED <<part, vars, ftvars, memvars>>
    \/ part = "tree"   /\ FtNext  /\ UNCHANGED <<part, vars, spvars, memvars>>
    \/ part = "memory" /\ MemNext /\ UNCHANGED <<part, vars, spvars, ftvars>>
    \/ PsStop

PsSpec == PsInit /\ [][PsNext]_<<part, vars, spvars, ftvars, memvars>>
=============================================================================
