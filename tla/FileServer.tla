----------------------------- MODULE FileServer -----------------------------
(***************************************************************************)
(* The file server (fileserver.c) and the calls of its clients (fss.h).    *)
(* Request and response are in shared memory; the two sides meet through   *)
(* two mutexes and their condition variables, as the kernel has them: a    *)
(* lock is tested and then set, an unlock wakes sleepers only if the lock  *)
(* is 0, a signal wakes who waits at that moment.  All of it does nothing  *)
(* for a process that has not created the mutexes.  A file's contents are  *)
(* the number of the request that wrote them.                              *)
(***************************************************************************)
EXTENDS Integers, FiniteSets

CONSTANTS
    FsClient,  \* clients
    Creating,  \* those that call intialize_mutex()
    FsPath,    \* paths of files
    FsOps,     \* operations that they call
    NFd,       \* descriptors of the server
    MaxCall    \* bound on the calls

Server == "server"
Actor == FsClient \cup {Server}
Fds == 1 .. NFd
Nothing == 0   \* also the contents of a missing file, and a failed call

VARIABLES
    request,      \* the shared request: operation, descriptor, path, its number
    response,     \* the shared response: the number of the request answered
    fsmx,         \* per mutex: its lock
    fsat,         \* per actor: its place
    mode,         \* per actor: running, about to set a lock, asleep, waiting
    my,           \* per client: its call
    got,          \* per client: the answer it returned last, and to which call
    file, check,  \* per path: the file, and its copy in /checkpoint
    ino,          \* per path: which file it is, by the request that created it
    fdt,          \* per descriptor of the server: the path and the file opened
    stored,       \* per descriptor: whether stored_path is set
    tempath,      \* what they all point to
    calls,        \* requests so far
    before        \* per path: its contents before the last write() to it

fsvars == <<request, response, fsmx, fsat, mode, my, got, file, check, ino, fdt, stored, tempath, calls, before>>
files == <<file, check, ino, fdt, stored, tempath, before>>

NoFile == [path |-> Nothing, ino |-> Nothing]
NoCall == [op |-> "none", fd |-> 1, path |-> CHOOSE f \in FsPath : TRUE, id |-> 0]

FsInit ==
    /\ request = NoCall /\ response = 0
    /\ fsmx = [m \in {"req", "resp"} |-> 0]
    /\ fsat = [a \in Actor |-> IF a = Server THEN "wait" ELSE "idle"]
    /\ mode = [a \in Actor |-> "run"]
    /\ my = [c \in FsClient |-> NoCall] /\ got = [c \in FsClient |-> [id |-> 0, answer |-> 0]]
    /\ file = [f \in FsPath |-> Nothing] /\ check = file /\ before = file /\ ino = file
    /\ fdt = [d \in Fds |-> NoFile] /\ stored = [d \in Fds |-> FALSE] /\ tempath = Nothing
    /\ calls = 0

Has(a) == a \in Creating \cup {Server}
FsRuns(a, place) == fsat[a] = place /\ mode[a] = "run"
FsGo(a, place) == fsat' = [fsat EXCEPT ![a] = place]

\* mutex_lock(m) between two places: the test, ...
FsLockTest(a, m, from, to) ==
    /\ FsRuns(a, from)
    /\ IF Has(a) THEN mode' = [mode EXCEPT ![a] = IF fsmx[m] = 1 THEN "asleep" ELSE "set"] /\ UNCHANGED fsat
       ELSE FsGo(a, to) /\ UNCHANGED mode
    /\ UNCHANGED fsmx

\* ... and the xchg, after a sleep too.
FsLockSet(a, m, from, to) ==
    /\ fsat[a] = from /\ mode[a] = "set"
    /\ fsmx' = [fsmx EXCEPT ![m] = 1] /\ mode' = [mode EXCEPT ![a] = "run"] /\ FsGo(a, to)

FsLock(a, m, from, to) == FsLockTest(a, m, from, to) \/ FsLockSet(a, m, from, to)

\* The places where an actor is in mutex_lock(m), in cv_wait(m).
Locking(m) == IF m = "req" THEN {"lock"} ELSE {"lockresp", "serve"}
Waiting(m) == IF m = "req" THEN {"wait"} ELSE {"await"}

\* mutex_unlock(m)
FsUnlock(a, m, from, to) ==
    /\ FsRuns(a, from) /\ FsGo(a, to)
    /\ mode' = [b \in Actor |->
                  IF Has(a) /\ fsmx[m] = 0 /\ mode[b] = "asleep" /\ fsat[b] \in Locking(m) THEN "set" ELSE mode[b]]
    /\ fsmx' = IF Has(a) THEN [fsmx EXCEPT ![m] = 0] ELSE fsmx

\* Where an actor goes on after cv_wait(): fss_open() reads the response before
\* it releases the mutex, the others after.
FsWoken(b) == IF b = Server THEN "work" ELSE IF my[b].op = "open" THEN "result" ELSE "unlock"

\* cv_signal(m): the waiters go on.
FsSignal(a, m, from, to) ==
    LET woken == IF Has(a) THEN {b \in Actor : fsat[b] \in Waiting(m) /\ mode[b] = "waiting"} ELSE {} IN
    /\ FsRuns(a, from)
    /\ mode' = [b \in Actor |-> IF b \in woken THEN "run" ELSE mode[b]]
    /\ fsat' = [b \in Actor |-> IF b = a THEN to ELSE IF b \in woken
                              THEN FsWoken(b) ELSE fsat[b]]
    /\ UNCHANGED fsmx

\* cv_wait(m)
FsWait(a, from) ==
    /\ FsRuns(a, from)
    /\ IF Has(a) THEN mode' = [mode EXCEPT ![a] = "waiting"] /\ UNCHANGED fsat
       ELSE FsGo(a, FsWoken(a)) /\ UNCHANGED mode
    /\ UNCHANGED fsmx

-----------------------------------------------------------------------------
(* The client: fss_open(), fss_write() and the others. *)

Call(c) ==
    \E op \in FsOps, d \in Fds, f \in FsPath :
    /\ FsRuns(c, "idle") /\ calls < MaxCall /\ calls' = calls + 1
    /\ my' = [my EXCEPT ![c] = [op |-> op, fd |-> d, path |-> f, id |-> calls']]
    /\ FsGo(c, "lock")
    /\ UNCHANGED <<request, response, fsmx, mode, got, files>>

\* The request is written into the shared memory.
Fill(c) ==
    /\ FsRuns(c, "fill") /\ FsGo(c, "signal") /\ request' = my[c]
    /\ UNCHANGED <<response, fsmx, mode, my, got, files, calls>>

\* The response is read.
Result(c) ==
    /\ FsRuns(c, "result") /\ FsGo(c, IF my[c].op = "open" THEN "unlock" ELSE "idle")
    /\ got' = [got EXCEPT ![c] = [id |-> my[c].id, answer |-> response]]
    /\ UNCHANGED <<request, response, fsmx, mode, my, files, calls>>

\* The locks and signals of a call: fss_mkdir() alone locks the response.
ClientSync(c) ==
    /\ \/ FsLock(c, "req", "lock", "fill")
       \/ FsSignal(c, "req", "signal", IF my[c].op = "mkdir" THEN "lockresp" ELSE "await")
       \/ FsLock(c, "resp", "lockresp", "await")
       \/ FsWait(c, "await")
       \/ FsUnlock(c, "resp", "unlock", IF my[c].op = "open" THEN "idle" ELSE "result")
    /\ UNCHANGED <<request, response, my, got, files, calls>>

-----------------------------------------------------------------------------
(* The server's loop. *)

ServerSync ==
    /\ \/ FsWait(Server, "wait")
       \/ request.op # "restore" /\ FsUnlock(Server, "req", "work", "serve")
       \/ FsLock(Server, "resp", "serve", "do")
       \/ FsSignal(Server, "resp", "answer", "wait")
    /\ UNCHANGED <<request, response, my, got, files, calls>>

\* restore() goes through /checkpoint.  What it opens for a file it finds there
\* is the path "", which it cannot create, and every way out of it is exit(), at
\* a directory that of restore("path"): no file changes, the server ends.
Restore ==
    /\ FsRuns(Server, "work") /\ request.op = "restore" /\ FsGo(Server, "gone")
    /\ UNCHANGED <<request, response, fsmx, mode, my, got, files, calls>>

FreeFds == {d \in Fds : fdt[d] = NoFile}

\* open(): request->fd is the mode, of which 1 has no O_CREATE.  The path goes
\* to tempath, to which every stored_path points.
FsOpen ==
    LET f == request.path
        d == CHOOSE i \in FreeFds : \A j \in FreeFds : i <= j
    IN
    /\ request.op = "open"
    /\ tempath' = f
    /\ IF FreeFds = {} \/ (file[f] = Nothing /\ request.fd = 1) THEN UNCHANGED <<file, ino, fdt, stored>>
       ELSE /\ ino' = IF file[f] = Nothing THEN [ino EXCEPT ![f] = request.id] ELSE ino
            /\ file' = IF file[f] = Nothing THEN [file EXCEPT ![f] = request.id] ELSE file
            /\ fdt' = [fdt EXCEPT ![d] = [path |-> f, ino |-> ino'[f]]]
            /\ stored' = [stored EXCEPT ![d] = TRUE]
    /\ UNCHANGED <<check, before>>

\* Mutant: the file is copied when it has been written.
CheckpointedAfter(d) == IF stored[d] THEN [check EXCEPT ![tempath] = request.id] ELSE check

\* checkpoint(): the file that stored_path names is copied, if it is there and
\* there are descriptors for it and for the copy.
Checkpointed(d) ==
    IF stored[d] /\ file[tempath] # Nothing /\ Cardinality(FreeFds) > 1 THEN [check EXCEPT ![tempath] = file[tempath]] ELSE check

\* The descriptor is for the file that still has the path.
IsCurrent(d) == fdt[d] # NoFile /\ file[fdt[d].path] # Nothing /\ ino[fdt[d].path] = fdt[d].ino

FsWrite ==
    LET d == request.fd
        f == fdt[d].path
    IN
    /\ request.op = "write"
    /\ check' = Checkpointed(d)
    /\ IF ~IsCurrent(d) THEN UNCHANGED <<file, before>>
       ELSE before' = [before EXCEPT ![f] = file[f]] /\ file' = [file EXCEPT ![f] = request.id]
    /\ UNCHANGED <<ino, fdt, stored, tempath>>

FsClose ==
    /\ request.op = "close"
    /\ fdt' = [fdt EXCEPT ![request.fd] = NoFile]
    /\ stored' = [stored EXCEPT ![request.fd] = FALSE]
    /\ UNCHANGED <<file, check, ino, tempath, before>>

FsUnlink ==
    /\ request.op = "unlink"
    /\ file' = [file EXCEPT ![request.path] = Nothing]
    /\ UNCHANGED <<check, ino, fdt, stored, tempath, before>>

\* read() and mkdir() change none of these files.
Other == request.op \in {"read", "mkdir"} /\ UNCHANGED files

\* Mutant: the response is signalled and then written.
AnswerOld == response

\* response->res
Answer == request.id

Serve ==
    /\ FsRuns(Server, "do") /\ FsGo(Server, "answer")
    /\ FsOpen \/ FsWrite \/ FsClose \/ FsUnlink \/ Other
    /\ response' = Answer
    /\ UNCHANGED <<request, fsmx, mode, my, got, calls>>

FsNext ==
    \/ ServerSync \/ Restore \/ Serve
    \/ \E c \in FsClient : Call(c) \/ Fill(c) \/ Result(c) \/ ClientSync(c)

FsSpec == FsInit /\ [][FsNext]_fsvars

-----------------------------------------------------------------------------
(* Properties *)

\* fss.h:45, "waits on server to write": the answer that a call returns is the
\* server's answer to that call, not one from before.
AnswerIsMine == \A c \in FsClient : got[c].answer = got[c].id

\* fileserver.c:313: when a write() to an open file has been answered, the copy
\* in /checkpoint has the contents of before it, if the server had descriptors
\* for the copying.
CheckpointIsBefore ==
    \A c \in FsClient :
        LET d == my[c].fd IN
        fsat[c] \in {"unlock", "result"} /\ my[c].op = "write" /\ IsCurrent(d) /\ Cardinality(FreeFds) > 1
            => check[fdt[d].path] = before[fdt[d].path]

=============================================================================
