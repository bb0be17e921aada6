------------------------------ MODULE MCQueues ------------------------------
(***************************************************************************)
(* A pipe and the mutexes, for model checking: processes that wait for     *)
(* each other.  A behaviour is one of one component; the other stays as it *)
(* starts.                                                                 *)
(***************************************************************************)
EXTENDS Pipe, Mutex, TLC

CONSTANTS init, p1, p2, a1, a2, b1, b2

VARIABLE part

ThreeProcs == {init, p1, p2}

\* Only the first process is special; bytes and names of mutexes are values
\* that are copied and compared.
Alike == Permutations({p1, p2}) \cup Permutations({a1, a2}) \cup Permutations({b1, b2})

\* Type correctness of the components.
QuTypes == PipeTypeOK /\ MxTypeOK

QuInit ==
    /\ part \in {"pipe", "mutex"}
    /\ PipeInit /\ MxInit
    /\ part # "pipe" => pdata = [i \in DOMAIN pdata |-> b1]

QuNext ==
    \/ part = "pipe"  /\ PipeNext /\ UNCHANGED <<part, mxvars>>
    \/ part = "mutex" /\ MxNext   /\ UNCHANGED <<part, pipevars>>

QuSpec == QuInit /\ [][QuNext]_<<part, pipevars, mxvars>>
=============================================================================
