------------------------------- MODULE MCCalls ------------------------------
(***************************************************************************)
(* What programs wait for, for model checking: system calls that follow    *)
(* paths, a pipe, and the shell's prompt.  A behaviour is one of one       *)
(* component; the others stay as they start.                               *)
(***************************************************************************)
EXTENDS FileTree, Pipe, Shell, TLC

CONSTANTS p1, p2, a, b

VARIABLE part

\* Files and one level of directories: every ".." is the root.
Flat ==
    p1 :> {[call |-> "mkdir", path |-> <<"/", b>>],
           [call |-> "create", path |-> <<a>>],
           [call |-> "create", path |-> <<b, a>>],
           [call |-> "link", path |-> <<a>>, new |-> <<b, a>>],
           [call |-> "chdir", path |-> <<b>>],
           [call |-> "fork"], [call |-> "close"]}
    @@ p2 :> {[call |-> "open", path |-> <<"/", a>>, mode |-> "r"],
              [call |-> "unlink", path |-> <<"/", a>>],
              [call |-> "unlink", path |-> <<"/", b, a>>],
              [call |-> "unlink", path |-> <<"/", b>>],
              [call |-> "dup"], [call |-> "exit"]}
FlatCalls == p1 :> 3 @@ p2 :> 2

\* Pipelines, lists, background, redirections and parentheses, and their nesting.
MCLines ==
    {<<"a", "|", "b", "|", "a">>, <<"(", "a", ";", "b", ")", "|", "a">>, <<"a", "&", ";", "b">>,
     <<"a", "<", "b", "|", "b">>, <<"a", "|", "b", "&">>, <<"a", ">", "b", "<", "a">>, <<"(", "a">>,
     <<"a", "|", "b", ";", "a">>, <<"(", "a", "|", "b", ")", ">", "a", "|", "b">>,
     <<"(", "a", "|", "b", "&", ")", ";", "a", "+", "b">>}

CaInit ==
    /\ part \in {"tree", "pipe", "shell"}
    /\ FtInit /\ PipeInit /\ ShInit

InTree(A)  == part = "tree"  /\ A /\ UNCHANGED <<part, pipevars, shvars>>
InPipe(A)  == part = "pipe"  /\ A /\ UNCHANGED <<part, ftvars, shvars>>
InShell(A) == part = "shell" /\ A /\ UNCHANGED <<part, ftvars, pipevars>>

CaNext == InTree(FtNext) \/ InPipe(PipeNext) \/ InShell(ShNext)

cavars == <<part, ftvars, pipevars, shvars>>

\* The fairness of FtSpec, ExitSpec and ShSpec.
CaSpec ==
    /\ CaInit /\ [][CaNext]_cavars
    /\ \A p \in Proc : WF_cavars(InTree(panic = "" /\ Working(p)))
    /\ \A p \in PipeUser : SF_cavars(InPipe(PipeKernel(p)))
    /\ \A p \in PipeUser : SF_cavars(InPipe(\E e \in PipeEnds : CloseEnd(p, e)))
    /\ \A p \in Pid : WF_cavars(InShell(ShStep(p)))
=============================================================================
