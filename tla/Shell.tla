-------------------------------- MODULE Shell --------------------------------
(***************************************************************************)
(* The shell (sh.c).  Its parser is the recursive operators below, over a  *)
(* line of tokens: a word, or the symbol itself, with "+" for >>.  runcmd()*)
(* runs a parsed line in processes that fork, pipe, dup, close, exec, exit *)
(* and wait; the kernel is the descriptor tables and parents they have.    *)
(***************************************************************************)
EXTENDS Integers, Sequences, FiniteSets

CONSTANTS
    Word,      \* tokens that are words
    Symbol,    \* and the symbols that are typed
    MAXARGS,
    MaxLine,   \* bound on the tokens of a line
    RunLines,  \* the lines that are run
    MaxShPid, MaxFd

-----------------------------------------------------------------------------
(* parsecmd().  An operator that stands for a parsing function gives the   *)
(* command and the index of the next token, 0 after panic().               *)

Tok(s, i) == IF i \in 1 .. Len(s) THEN s[i] ELSE "end"
Failed == [cmd |-> [type |-> "none"], i |-> 0]
Execcmd(argv) == [type |-> "exec", argv |-> argv]
Redircmd(c, file, fd) == [type |-> "redir", cmd |-> c, file |-> file, fd |-> fd]
Pipecmd(l, r) == [type |-> "pipe", left |-> l, right |-> r]
Listcmd(l, r) == [type |-> "list", left |-> l, right |-> r]
Backcmd(c) == [type |-> "back", cmd |-> c]

\* parseredirs(), and the words of parseexec() between them.  The redirections
\* seen so far wrap whatever the arguments turn out to be, so they are kept apart.
RECURSIVE Redirs(_, _), Args(_, _)
Redirs(s, x) ==
    IF x.i = 0 \/ Tok(s, x.i) \notin {"<", ">", "+"} THEN x
    ELSE IF Tok(s, x.i + 1) \notin Word THEN [x EXCEPT !.i = 0]
    ELSE Redirs(s, [x EXCEPT !.i = @ + 2,
                             !.rs = Append(@, <<Tok(s, x.i + 1), IF Tok(s, x.i) = "<" THEN 0 ELSE 1>>)])
Args(s, x) ==
    IF x.i = 0 \/ Tok(s, x.i) \in {"|", ")", "&", ";", "end"} THEN x
    ELSE IF Tok(s, x.i) \notin Word \/ Len(x.argv) + 1 >= MAXARGS THEN [x EXCEPT !.i = 0]
    ELSE Args(s, Redirs(s, [x EXCEPT !.i = @ + 1, !.argv = Append(@, Tok(s, x.i))]))

\* c with the redirections, the last one outermost.
RECURSIVE Wrapped(_, _)
Wrapped(c, rs) ==
    IF rs = <<>> THEN c
    ELSE Redircmd(Wrapped(c, SubSeq(rs, 1, Len(rs) - 1)), rs[Len(rs)][1], rs[Len(rs)][2])

RECURSIVE Parseline(_, _), Parsepipe(_, _), Parseexec(_, _), Parseback(_, _)
Parseexec(s, i) ==
    LET start == [i |-> i, argv |-> <<>>, rs |-> <<>>] IN
    IF Tok(s, i) = "("
    THEN LET l == Parseline(s, i + 1)
             x == Redirs(s, [start EXCEPT !.i = l.i + 1])
         IN  IF l.i = 0 \/ Tok(s, l.i) # ")" \/ x.i = 0 THEN Failed
             ELSE [cmd |-> Wrapped(l.cmd, x.rs), i |-> x.i]
    ELSE LET x == Args(s, Redirs(s, start))
         IN  IF x.i = 0 THEN Failed ELSE [cmd |-> Wrapped(Execcmd(x.argv), x.rs), i |-> x.i]

Parsepipe(s, i) ==
    LET l == Parseexec(s, i)
        r == Parsepipe(s, l.i + 1)
    IN  IF l.i = 0 \/ Tok(s, l.i) # "|" THEN l
        ELSE IF r.i = 0 THEN Failed ELSE [cmd |-> Pipecmd(l.cmd, r.cmd), i |-> r.i]

\* The loop over & in parseline().
Parseback(s, x) ==
    IF x.i = 0 \/ Tok(s, x.i) # "&" THEN x ELSE Parseback(s, [cmd |-> Backcmd(x.cmd), i |-> x.i + 1])

\* Mutant: what follows a semicolon is a pipeline.
AfterSemiPipe(s, i) == Parsepipe(s, i)

AfterSemi(s, i) == Parseline(s, i)

Parseline(s, i) ==
    LET l == Parseback(s, Parsepipe(s, i))
        r == AfterSemi(s, l.i + 1)
    IN  IF l.i = 0 \/ Tok(s, l.i) # ";" THEN l
        ELSE IF r.i = 0 THEN Failed ELSE [cmd |-> Listcmd(l.cmd, r.cmd), i |-> r.i]

Parsecmd(s) == LET l == Parseline(s, 1) IN IF l.i = Len(s) + 1 THEN l.cmd ELSE Failed.cmd

-----------------------------------------------------------------------------
(* runcmd() and main().                                                    *)

VARIABLES
    line,   \* what has been typed
    task,   \* per process: its place, what it runs, descriptors, parent,
            \* children to wait for, whether it is in the background
    execs   \* the commands that were executed, and their descriptors

shvars == <<line, task, execs>>

Pid == 1 .. MaxShPid
Sh == 1
\* What a descriptor is open for: a file, or an end of the pipe made by a process.
Object(kind, name, pid) == [kind |-> kind, name |-> name, pid |-> pid]
Closed == Object("closed", "", 0)
Tty == Object("file", "console", 0)
PipeEnd(p, e) == Object(e, "", p)
Gone == [at |-> "gone", cmd |-> Failed.cmd, fd |-> [d \in 0 .. MaxFd |-> Closed],
         parent |-> 0, waits |-> 0, bg |-> FALSE]

\* main() sees to it that descriptors 0, 1 and 2 are open.
Consoles == [d \in 0 .. MaxFd |-> IF d < 3 THEN Tty ELSE Closed]

ShInit ==
    /\ line = <<>> /\ execs = {}
    /\ task = [p \in Pid |-> IF p = Sh THEN [Gone EXCEPT !.at = "prompt", !.fd = Consoles] ELSE Gone]

\* A process identifier that was not used for this line, so that a pipe can be
\* named by the process that makes it.
NewPid == CHOOSE p \in Pid : task[p] = Gone /\ \A q \in Pid : task[q] = Gone => p <= q

\* The lowest closed descriptor, as fdalloc() finds it.
Lowest(fd) == CHOOSE d \in 0 .. MaxFd : fd[d] = Closed /\ \A e \in 0 .. d - 1 : fd[e] # Closed
OpenFd(fd, x) == [fd EXCEPT ![Lowest(fd)] = x]
CloseFds(fd, S) == [d \in 0 .. MaxFd |-> IF d \in S THEN Closed ELSE fd[d]]

\* fork1() by p: the child is at a place, with a command; p goes on as after.
Forks(p, after, place, cmd, bg) ==
    task' = [task EXCEPT ![p] = after,
                         ![NewPid] = [at |-> place, cmd |-> cmd, fd |-> after.fd, parent |-> p,
                                      waits |-> 0, bg |-> bg]]

\* exit(): descriptors are closed, children go to init, the parent is to wait.
ShExit(p) ==
    task' = [q \in Pid |-> IF q = p THEN [task[p] EXCEPT !.at = "zombie", !.fd = Gone.fd]
                           ELSE IF task[q].parent = p THEN [task[q] EXCEPT !.parent = 0]
                           ELSE task[q]]

\* A line is typed, token by token, ...
TypeToken ==
    /\ task[Sh].at = "prompt" /\ Len(line) < MaxLine
    /\ \A p \in Pid \ {Sh} : task[p] = Gone
    /\ \E t \in Word \cup Symbol : line' = Append(line, t)
    /\ UNCHANGED <<task, execs>>

\* ... or a whole line is entered: main() forks a child for it, which parses
\* it, and waits.
Enter ==
    \E l \in RunLines :
    /\ task[Sh].at = "prompt" /\ line = <<>> /\ line' = l
    /\ Forks(Sh, [task[Sh] EXCEPT !.at = "wait", !.waits = 1], "run", Parsecmd(l), FALSE)
    /\ UNCHANGED execs

ShRuns(p, type) == task[p].at = "run" /\ task[p].cmd.type = type

\* The parser has panicked, or there is nothing to execute.
RunNone(p) ==
    /\ ShRuns(p, "none") \/ (ShRuns(p, "exec") /\ task[p].cmd.argv = <<>>)
    /\ ShExit(p) /\ UNCHANGED <<line, execs>>

\* exec() runs the command, or there is no such program.
RunExec(p) ==
    /\ ShRuns(p, "exec") /\ task[p].cmd.argv # <<>>
    /\ \/ /\ task' = [task EXCEPT ![p].at = "cmd"]
          /\ execs' = execs \cup {<<task[p].cmd.argv, task[p].fd>>}
       \/ task' = [task EXCEPT ![p].at = "leave"] /\ UNCHANGED execs
    /\ UNCHANGED line

\* The file is opened in place of the descriptor, or cannot be.
RunRedir(p) ==
    LET c == task[p].cmd IN
    /\ ShRuns(p, "redir")
    /\ \/ task' = [task EXCEPT ![p].cmd = c.cmd, ![p].fd = OpenFd(CloseFds(@, {c.fd}), Object("file", c.file, 0))]
       \/ ShExit(p)
    /\ UNCHANGED <<line, execs>>

RunList(p) ==
    /\ ShRuns(p, "list")
    /\ Forks(p, [task[p] EXCEPT !.at = "wait", !.waits = 1, !.cmd = @.right], "run",
             task[p].cmd.left, task[p].bg)
    /\ UNCHANGED <<line, execs>>

\* pipe(p) and the left child, ...
RunPipe(p) ==
    LET fd == OpenFd(OpenFd(task[p].fd, PipeEnd(p, "r")), PipeEnd(p, "w")) IN
    /\ ShRuns(p, "pipe")
    /\ Forks(p, [task[p] EXCEPT !.at = "pipe2", !.fd = fd], "left", task[p].cmd.left, task[p].bg)
    /\ UNCHANGED <<line, execs>>

\* ... the right child, ...
RunPipe2(p) ==
    /\ task[p].at = "pipe2"
    /\ Forks(p, [task[p] EXCEPT !.at = "close"], "right", task[p].cmd.right, task[p].bg)
    /\ UNCHANGED <<line, execs>>

\* Mutant: a process keeps the write end of the pipe.
EndsRead(fd, q) == {d \in 0 .. MaxFd : d > 2 /\ fd[d] = PipeEnd(q, "r")}

\* p[0] and p[1], that is, the descriptors above 2 of the pipe that q made.
Ends(fd, q) == {d \in 0 .. MaxFd : d > 2 /\ fd[d] \in {PipeEnd(q, "r"), PipeEnd(q, "w")}}

\* Mutant: only one child is waited for.
PipeWaitsOne == 1

PipeWaits == 2

\* ... and the parent closes its ends and waits.
RunPipeClose(p) ==
    /\ task[p].at = "close"
    /\ task' = [task EXCEPT ![p].at = "wait", ![p].waits = PipeWaits, ![p].cmd = Execcmd(<<>>),
                            ![p].fd = CloseFds(@, Ends(@, p))]
    /\ UNCHANGED <<line, execs>>

\* A child of a pipeline: close(1), dup(p[1]), or close(0), dup(p[0]); its
\* parent made the pipe.
PipeSide(p) ==
    LET q == task[p].parent
        io == IF task[p].at = "left" THEN <<1, PipeEnd(q, "w")>> ELSE <<0, PipeEnd(q, "r")>>
        fd == OpenFd(CloseFds(task[p].fd, {io[1]}), io[2])
    IN
    /\ task[p].at \in {"left", "right"}
    /\ task' = [task EXCEPT ![p].at = "run", ![p].fd = CloseFds(fd, Ends(fd, q))]
    /\ UNCHANGED <<line, execs>>

RunBack(p) ==
    /\ ShRuns(p, "back")
    /\ Forks(p, [task[p] EXCEPT !.at = "leave"], "run", task[p].cmd.cmd, TRUE)
    /\ UNCHANGED <<line, execs>>

\* The exit() at the end of runcmd().
Leave(p) == task[p].at = "leave" /\ ShExit(p) /\ UNCHANGED <<line, execs>>

\* wait(): a zombie child is freed; then the right side of a list is run, or
\* the process of a pipeline leaves, or the shell prompts.
WaitChild(p) ==
    LET last == task[p].waits = 1 IN
    /\ task[p].at = "wait"
    /\ \E q \in Pid :
        /\ task[q].parent = p /\ task[q].at = "zombie"
        /\ task' = [task EXCEPT ![q].at = "dead", ![p].waits = @ - 1,
                                ![p].at = IF ~last THEN "wait" ELSE IF p = Sh THEN "prompt" ELSE "run"]
    /\ UNCHANGED <<line, execs>>

\* A command that reads a pipe ends when nobody can write to it any more.
CmdExit(p) ==
    LET in == task[p].fd[0] IN
    /\ task[p].at = "cmd"
    /\ in.kind = "r" => \A q \in Pid, d \in 0 .. MaxFd : task[q].fd[d] # PipeEnd(in.pid, "w")
    /\ ShExit(p) /\ UNCHANGED <<line, execs>>

\* init waits for the orphans.
ShReap(p) ==
    /\ task[p].at = "zombie" /\ task[p].parent = 0
    /\ task' = [task EXCEPT ![p].at = "dead"] /\ UNCHANGED <<line, execs>>

ShStep(p) ==
    \/ RunNone(p) \/ RunExec(p) \/ RunRedir(p) \/ RunList(p)
    \/ RunPipe(p) \/ RunPipe2(p) \/ RunPipeClose(p) \/ PipeSide(p)
    \/ RunBack(p) \/ Leave(p) \/ WaitChild(p) \/ CmdExit(p) \/ ShReap(p)
ShNext == TypeToken \/ Enter \/ \E p \in Pid : ShStep(p)

\* Every process that can go on is run, and commands end.
ShSpec == ShInit /\ [][ShNext]_shvars /\ \A p \in Pid : WF_shvars(ShStep(p))

-----------------------------------------------------------------------------
(* Properties.  First, what a line means, without a parser: it is cut at   *)
(* its first ; and | outside parentheses, and at the & at its end.         *)

Bad == Failed.cmd
Depth(s, k) == Cardinality({i \in 1 .. k : s[i] = "("}) - Cardinality({i \in 1 .. k : s[i] = ")"})
CutsAt(s, t) == {k \in 1 .. Len(s) : s[k] = t /\ Depth(s, k) = 0}
FirstIn(S) == CHOOSE k \in S : \A j \in S : k <= j
IsRedir(t) == t \in {"<", ">", "+"}

\* The positions of s from k on that name a file, and the redirections there.
FileAt(s, k) == {i \in k + 1 .. Len(s) : IsRedir(s[i - 1])}
RedirSeq(s, k) ==
    LET at == {i \in k .. Len(s) : IsRedir(s[i])}
        nth(n) == CHOOSE i \in at : Cardinality({j \in at : j < i}) = n - 1
    IN  [n \in 1 .. Cardinality(at) |-> <<s[nth(n) + 1], IF s[nth(n)] = "<" THEN 0 ELSE 1>>]

\* Nothing but words and complete redirections.
IsPlain(s, k) ==
    /\ \A i \in k .. Len(s) : s[i] \in Word \/ IsRedir(s[i])
    /\ \A i \in k .. Len(s) : IsRedir(s[i]) => i < Len(s) /\ s[i + 1] \in Word

Combine(op(_, _), l, r) == IF Bad \in {l, r} THEN Bad ELSE op(l, r)

RECURSIVE MeansLine(_), MeansBack(_), MeansPipe(_), MeansSimple(_)
MeansLine(s) ==
    LET cut == CutsAt(s, ";") IN
    IF cut = {} THEN MeansBack(s)
    ELSE Combine(Listcmd, MeansBack(SubSeq(s, 1, FirstIn(cut) - 1)),
                          MeansLine(SubSeq(s, FirstIn(cut) + 1, Len(s))))
MeansBack(s) ==
    IF s = <<>> \/ s[Len(s)] # "&" THEN MeansPipe(s)
    ELSE LET c == MeansBack(SubSeq(s, 1, Len(s) - 1)) IN IF c = Bad THEN Bad ELSE Backcmd(c)
MeansPipe(s) ==
    LET cut == CutsAt(s, "|") IN
    IF cut = {} THEN MeansSimple(s)
    ELSE Combine(Pipecmd, MeansSimple(SubSeq(s, 1, FirstIn(cut) - 1)),
                          MeansPipe(SubSeq(s, FirstIn(cut) + 1, Len(s))))
MeansSimple(s) ==
    IF s # <<>> /\ s[1] = "("
    THEN LET close == CutsAt(s, ")")
             k == FirstIn(close)
             c == MeansLine(SubSeq(s, 2, k - 1))
         IN  IF close = {} THEN Bad
             ELSE IF c = Bad \/ ~IsPlain(s, k + 1) \/ Len(s) - k # 2 * Len(RedirSeq(s, k + 1)) THEN Bad
             ELSE Wrapped(c, RedirSeq(s, k + 1))
    ELSE IF ~IsPlain(s, 1) THEN Bad
    ELSE LET args == SelectSeq([i \in 1 .. Len(s) |-> IF i \in FileAt(s, 1) THEN "<" ELSE s[i]],
                               LAMBDA t : ~IsRedir(t))
         IN  IF Len(args) >= MAXARGS THEN Bad ELSE Wrapped(Execcmd(args), RedirSeq(s, 1))

\* Every line, right or wrong, is parsed into what it means, or refused.
ParsesAsMeant == Parsecmd(line) = MeansLine(line)

\* The commands of c, each with what its descriptors 0 and 1 are open for; the
\* pipe of node n of the tree is called n.
RECURSIVE Wires(_, _, _, _)
Wires(c, n, in, out) ==
    CASE c.type = "exec"  -> IF c.argv = <<>> THEN {} ELSE {<<c.argv, in, out>>}
      [] c.type = "redir" -> LET f == Object("file", c.file, 0)
                             IN  IF c.fd = 0 THEN Wires(c.cmd, 2 * n, f, out) ELSE Wires(c.cmd, 2 * n, in, f)
      [] c.type = "pipe"  -> Wires(c.left, 2 * n, in, PipeEnd(n, "w"))
                                \cup Wires(c.right, 2 * n + 1, PipeEnd(n, "r"), out)
      [] c.type = "list"  -> Wires(c.left, 2 * n, in, out) \cup Wires(c.right, 2 * n + 1, in, out)
      [] c.type = "back"  -> Wires(c.cmd, 2 * n, in, out)
      [] OTHER            -> {}

\* A command is executed with the descriptors that its place in the line gives
\* it, and no other: the right end of the right pipe, the file, the console.
ExecWired ==
    LET wires == Wires(Parsecmd(line), 1, Tty, Tty)
        pipes == {n \in UNION {{w[2].pid, w[3].pid} : w \in wires} : n # 0}
        Named(x, f) == IF x.pid = 0 THEN x ELSE [x EXCEPT !.pid = f[x.pid]]
    IN  execs # {} => \E f \in [pipes -> Pid] : \A e \in execs : \E w \in wires :
            /\ e[1] = w[1] /\ e[2][0] = Named(w[2], f) /\ e[2][1] = Named(w[3], f) /\ e[2][2] = Tty
            /\ \A d \in 3 .. MaxFd : e[2][d] = Closed

\* When the shell prompts, only what was put in the background still runs.
PromptAfterForeground ==
    task[Sh].at = "prompt" => \A p \in Pid \ {Sh} : task[p].at \in {"gone", "dead"} \/ task[p].bg

\* The shell prompts again: no pipeline waits for a writer that is only a
\* descriptor somebody forgot to close, and wait() has children to wait for.
PromptReturns == task[Sh].at = "wait" ~> task[Sh].at = "prompt"

=============================================================================
