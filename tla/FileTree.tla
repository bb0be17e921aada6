------------------------------ MODULE FileTree ------------------------------
(***************************************************************************)
(* The file tree: the inode cache, directories and path names of fs.c, the *)
(* open files of file.c, and the system calls of sysfile.c that change     *)
(* them.  Every call runs as the steps between which another process can   *)
(* get in: an inode is locked with ilock(), which waits while it is        *)
(* I_BUSY; a reference dropped by iput() may free the inode, and iput()    *)
(* works without icache.lock while it does.                                *)
(*                                                                         *)
(* dinode and ents are the disk as the buffer cache shows it; the calls    *)
(* are transactions of the log, so a crash is not this module's business.  *)
(* A path is a sequence of names, with "/" first if it is absolute.        *)
(***************************************************************************)
EXTENDS Integers, Sequences, FiniteSets, FiniteSetsExt

CONSTANTS
    Proc,       \* processes
    First,      \* the one that runs first; it can fork the others
    Name,       \* names of directory entries, "." and ".." apart
    NInum,      \* inodes on the disk, 1 .. NInum
    NINODE,     \* entries of the inode cache
    NFILE,      \* entries of the file table
    NOFILE,     \* descriptors of a process
    Requests,   \* bound: the system calls each process makes, with their arguments
    MaxCalls    \* bound: how many each process makes

ROOTINO == 1
Inum == 1 .. NInum
ICacheSlot == 1 .. NINODE
File == 1 .. NFILE
None == 0
Dots == {".", ".."}

VARIABLES
    dinode,   \* disk: type and nlink of each inode
    ents,     \* disk: the entries of each directory
    icache,   \* the inode cache
    ftable,   \* open files: reference count and inode
    ofile,    \* per process: its descriptors
    cwd,      \* per process: the cache entry of its current directory
    pc,       \* per process: the next step of its system call
    r,        \* per process: the local variables of the call
    calls,    \* per process: the system calls made
    panic     \* the message of a kernel panic, "" while there is none

disk == <<dinode, ents>>
files == <<ftable, ofile>>
ftvars == <<disk, icache, files, cwd, pc, r, calls, panic>>

NoEntries == [n \in Name \cup Dots |-> None]
Idle == [req |-> [call |-> "none"], path |-> <<>>, parent |-> FALSE, name |-> "",
         ip |-> None, dp |-> None, old |-> None, put |-> None, ret |-> "user"]

\* mkfs: a root directory; the first process is in it, without open files.
FtInit ==
    /\ dinode = [i \in Inum |-> IF i = ROOTINO THEN [type |-> "dir", nlink |-> 1]
                                               ELSE [type |-> "free", nlink |-> 0]]
    /\ ents = [i \in Inum |-> IF i = ROOTINO THEN [NoEntries EXCEPT !["."] = 1, ![".."] = 1]
                                             ELSE NoEntries]
    /\ icache = [s \in ICacheSlot |-> [inum |-> IF s = 1 THEN ROOTINO ELSE None,
                                 ref |-> IF s = 1 THEN 1 ELSE 0,
                                 busy |-> FALSE, valid |-> FALSE, type |-> "free", nlink |-> 0]]
    /\ ftable = [f \in File |-> [ref |-> 0, ip |-> None]]
    /\ ofile = [p \in Proc |-> [d \in 1 .. NOFILE |-> None]]
    /\ cwd = [p \in Proc |-> IF p = First THEN 1 ELSE None]
    /\ pc = [p \in Proc |-> IF p = First THEN "user" ELSE "unused"]
    /\ r = [p \in Proc |-> Idle]
    /\ calls = [p \in Proc |-> 0]
    /\ panic = ""

-----------------------------------------------------------------------------
(* The inode cache *)

Panic(msg) == panic' = msg /\ UNCHANGED <<disk, icache, files, cwd, pc, r, calls>>

\* Action A, or the panic msg of the code where cond does not hold.
Require(cond, msg, A) == IF cond THEN A ELSE Panic(msg)

Cached(ic, i) == {s \in ICacheSlot : ic[s].ref > 0 /\ ic[s].inum = i}
Empty(ic) == {s \in ICacheSlot : ic[s].ref = 0}

\* iget(): the entry of inode i, or the first empty one.
IgetSlot(i) == IF Cached(icache, i) # {} THEN Min(Cached(icache, i)) ELSE Min(Empty(icache))

\* An action that gets inode i: iget() panics when the cache is full.
WithIget(i, A) == Require(Cached(icache, i) # {} \/ Empty(icache) # {}, "iget: no inodes", A)

NewEntry(ic, i) == [ic EXCEPT ![Min(Empty(ic))] = [inum |-> i, ref |-> 1, busy |-> FALSE,
                                  valid |-> FALSE, type |-> "free", nlink |-> 0]]

\* Mutant: an entry is found again only once ilock() has read it.
IgetValid(ic, i) ==
    LET hit == {s \in Cached(ic, i) : ic[s].valid}
    IN  IF hit # {} THEN [ic EXCEPT ![Min(hit)].ref = @ + 1] ELSE NewEntry(ic, i)

Iget(ic, i) ==
    IF Cached(ic, i) # {} THEN [ic EXCEPT ![Min(Cached(ic, i))].ref = @ + 1] ELSE NewEntry(ic, i)

Idup(ic, s) == [ic EXCEPT ![s].ref = @ + 1]

\* ilock(): what the entry holds once it is locked, read from the disk if it
\* was not valid.
Ilock(s) ==
    [icache EXCEPT ![s].busy = TRUE, ![s].valid = TRUE,
                   ![s].type = IF icache[s].valid THEN @ ELSE dinode[icache[s].inum].type,
                   ![s].nlink = IF icache[s].valid THEN @ ELSE dinode[icache[s].inum].nlink]
LocksFree(s) == ~icache[s].valid /\ dinode[icache[s].inum].type = "free"

Iunlock(ic, s) == [ic EXCEPT ![s].busy = FALSE]

\* Mutant: the link count stays in memory.
IupdateType(d, ic, s) == [d EXCEPT ![ic[s].inum].type = ic[s].type]

\* iupdate(): the disk gets the inode as the cache has it.
Iupdate(d, ic, s) == [d EXCEPT ![ic[s].inum] = [type |-> ic[s].type, nlink |-> ic[s].nlink]]

\* ialloc(): the first inode that is free on the disk.
FreeInums == {i \in Inum : dinode[i].type = "free"}

-----------------------------------------------------------------------------
(* Steps shared by the system calls *)

\* Process p goes on at place, with the local variables l.
FtGoto(p, place, l) ==
    /\ pc' = [pc EXCEPT ![p] = place]
    /\ r' = [r EXCEPT ![p] = IF place = "user" THEN Idle ELSE l]

\* The next step is iput(s), and then the one at place.
Put(p, s, place, l) == FtGoto(p, "iput", [l EXCEPT !.put = s, !.ret = place])

\* iunlockput(ip), or of dp, before the step at place.
UnlockPut(p, place) ==
    /\ icache' = Iunlock(icache, r[p].ip)
    /\ Put(p, r[p].ip, place, [r[p] EXCEPT !.ip = None])
UnlockPutDp(p, ic, place) ==
    /\ icache' = Iunlock(ic, r[p].dp)
    /\ Put(p, r[p].dp, place, [r[p] EXCEPT !.dp = None])

\* ilock(s) at place from, before place to.
LockStep(p, from, s, to) ==
    /\ pc[p] = from
    /\ ~icache[s].busy
    /\ Require(~LocksFree(s), "ilock: no type",
         /\ icache' = Ilock(s)
         /\ FtGoto(p, to, r[p])
         /\ UNCHANGED <<disk, files, cwd, calls, panic>>)

\* Mutants: any reference may free it; none does.
LastPutAny(s) == icache[s].valid /\ icache[s].nlink = 0 /\ ~icache[s].busy
LastPutNone(s) == icache[s].ref = 0 /\ icache[s].valid /\ icache[s].nlink = 0

\* iput() frees an inode without links, if this is the last reference to it.
LastPut(s) == icache[s].ref = 1 /\ icache[s].valid /\ icache[s].nlink = 0

IputStep(p) ==
    LET s == r[p].put IN
    /\ pc[p] = "iput"
    /\ IF LastPut(s)
       THEN Require(~icache[s].busy, "iput busy",
              /\ icache' = [icache EXCEPT ![s].busy = TRUE]
              /\ FtGoto(p, "ifree", r[p])
              /\ UNCHANGED <<disk, files, cwd, calls, panic>>)
       ELSE /\ icache' = [icache EXCEPT ![s].ref = @ - 1]
            /\ FtGoto(p, r[p].ret, [r[p] EXCEPT !.put = None])
            /\ UNCHANGED <<disk, files, cwd, calls, panic>>

\* iput(), without icache.lock: itrunc(), type 0, iupdate().
IfreeStep(p) ==
    LET s == r[p].put IN
    /\ pc[p] = "ifree"
    /\ icache' = [icache EXCEPT ![s].type = "free"]
    /\ dinode' = Iupdate(dinode, icache', s)
    /\ ents' = [ents EXCEPT ![icache[s].inum] = NoEntries]
    /\ FtGoto(p, "idrop", r[p])
    /\ UNCHANGED <<files, cwd, calls, panic>>

\* Mutant: the entry stays locked.
IdropBusy(p) ==
    LET s == r[p].put IN
    /\ pc[p] = "idrop"
    /\ icache' = [icache EXCEPT ![s].valid = FALSE, ![s].ref = @ - 1]
    /\ FtGoto(p, r[p].ret, [r[p] EXCEPT !.put = None])
    /\ UNCHANGED <<disk, files, cwd, calls, panic>>

IdropStep(p) ==
    LET s == r[p].put IN
    /\ pc[p] = "idrop"
    /\ icache' = [icache EXCEPT ![s].busy = FALSE, ![s].valid = FALSE, ![s].ref = @ - 1]
    /\ FtGoto(p, r[p].ret, [r[p] EXCEPT !.put = None])
    /\ UNCHANGED <<disk, files, cwd, calls, panic>>

-----------------------------------------------------------------------------
(* Path names *)

\* namex() begins at the root or at the current directory.
NamexStart(p, ic, l, path, parent) ==
    LET abs == path[1] = "/"
        s == IF abs THEN IgetSlot(ROOTINO) ELSE cwd[p]
    IN  /\ icache' = IF abs THEN Iget(ic, ROOTINO) ELSE Idup(ic, s)
        /\ FtGoto(p, "namex", [l EXCEPT !.path = IF abs THEN Tail(path) ELSE path,
                                      !.parent = parent, !.ip = s])

\* Where the call goes on when namex() returns 0, an inode, or a parent.
NotFound(l) == IF l.req.call = "link" /\ l.parent THEN "link_bad" ELSE "user"
Found(l) == l.req.call
ParentFound(l) == IF l.req.call \in {"mkdir", "mknod"} THEN "create"
                  ELSE IF l.req.call = "link" THEN "link_dp" ELSE l.req.call

\* The end of the path: nameiparent() of a path without a name fails.
NamexEnd(p) ==
    /\ pc[p] = "namex" /\ r[p].path = <<>>
    /\ IF r[p].parent THEN Put(p, r[p].ip, NotFound(r[p]), [r[p] EXCEPT !.ip = None])
                      ELSE FtGoto(p, Found(r[p]), r[p])
    /\ UNCHANGED <<disk, icache, files, cwd, calls, panic>>

NamexLock(p) == r[p].path # <<>> /\ LockStep(p, "namex", r[p].ip, "lookup")

\* The loop of namex() with ip locked.
Lookup(p) ==
    LET l == r[p]
        s == l.ip
        next == ents[icache[s].inum][l.path[1]]
        last == l.parent /\ Len(l.path) = 1
    IN
    /\ pc[p] = "lookup"
    /\ \/ /\ icache[s].type # "dir" \/ (~last /\ next = None)
          /\ UnlockPut(p, NotFound(l))
          /\ UNCHANGED <<disk, files, cwd, calls, panic>>
       \/ /\ icache[s].type = "dir" /\ last
          /\ icache' = Iunlock(icache, s)
          /\ FtGoto(p, ParentFound(l), [l EXCEPT !.ip = None, !.dp = s, !.name = l.path[1]])
          /\ UNCHANGED <<disk, files, cwd, calls, panic>>
       \/ /\ icache[s].type = "dir" /\ ~last /\ next # None
          /\ WithIget(next,
               /\ icache' = Iunlock(Iget(icache, next), s)
               /\ Put(p, s, "namex", [l EXCEPT !.ip = IgetSlot(next), !.path = Tail(@)])
               /\ UNCHANGED <<disk, files, cwd, calls, panic>>)

-----------------------------------------------------------------------------
(* System calls *)

MayCall(p) == pc[p] = "user" /\ calls[p] < MaxCalls[p]
Count(p) == calls' = [calls EXCEPT ![p] = @ + 1]

PathCall(p) ==
    \E req \in Requests[p] :
       /\ req.call \in {"open", "create", "mkdir", "mknod", "link", "unlink", "chdir"}
       /\ MayCall(p)
       /\ WithIget(ROOTINO,
            /\ NamexStart(p, icache, [Idle EXCEPT !.req = req], req.path,
                          req.call \in {"create", "mkdir", "mknod", "unlink"})
            /\ Count(p)
            /\ UNCHANGED <<disk, files, cwd, panic>>)

\* The steps that only wait for the lock of an inode: the place, the local
\* variable that holds the inode, the place once it is locked.
Waits == {<<"open", "ip", "opened">>, <<"create", "dp", "create_look">>,
          <<"create_found", "ip", "found">>, <<"create_new", "ip", "create_link">>,
          <<"unlink", "dp", "unlink_look">>, <<"unlink_ip", "ip", "unlink_do">>,
          <<"link", "ip", "link_inc">>, <<"link_dp", "dp", "link_add">>,
          <<"link_bad", "old", "link_dec">>, <<"chdir", "ip", "chdir_set">>}
Lock(p) == \E w \in Waits : pc[p] = w[1] /\ LockStep(p, w[1], r[p][w[2]], w[3])

FreeFiles == {f \in File : ftable[f].ref = 0}
FreeFds(p) == {d \in 1 .. NOFILE : ofile[p][d] = None}

\* sys_open() with ip locked, found or just created.
Opened(p) ==
    LET l == r[p]
        refused == \/ pc[p] = "found" /\ (l.req.call # "create" \/ icache[l.ip].type # "file")
                   \/ l.req.call = "open" /\ icache[l.ip].type = "dir" /\ l.req.mode # "r"
                   \/ FreeFiles = {} \/ FreeFds(p) = {}
    IN
    /\ pc[p] \in {"opened", "found"}
    /\ IF refused THEN UnlockPut(p, "user") /\ UNCHANGED files
       ELSE /\ ftable' = [ftable EXCEPT ![Min(FreeFiles)] = [ref |-> 1, ip |-> l.ip]]
            /\ ofile' = [ofile EXCEPT ![p][Min(FreeFds(p))] = Min(FreeFiles)]
            /\ icache' = Iunlock(icache, l.ip)
            /\ FtGoto(p, "user", l)
    /\ UNCHANGED <<disk, cwd, calls, panic>>

\* create() with the parent dp locked: the name exists, or a new inode is
\* taken from the disk.
CreateLook(p) ==
    LET l == r[p]
        e == ents[icache[l.dp].inum][l.name]
        i == Min(FreeInums)
        type == CASE l.req.call = "mkdir" -> "dir" [] l.req.call = "mknod" -> "dev"
                  [] OTHER -> "file"
    IN
    /\ pc[p] = "create_look"
    /\ Require(icache[l.dp].type = "dir", "dirlookup not DIR",
         \/ /\ e # None
            /\ WithIget(e,
                 /\ icache' = Iunlock(Iget(icache, e), l.dp)
                 /\ Put(p, l.dp, "create_found", [l EXCEPT !.ip = IgetSlot(e), !.dp = None])
                 /\ UNCHANGED <<disk, files, cwd, calls, panic>>)
         \/ /\ e = None
            /\ Require(FreeInums # {}, "ialloc: no inodes", WithIget(i,
                 /\ dinode' = [dinode EXCEPT ![i] = [type |-> type, nlink |-> 0]]
                 /\ icache' = Iget(icache, i)
                 /\ FtGoto(p, "create_new", [l EXCEPT !.ip = IgetSlot(i)])
                 /\ UNCHANGED <<ents, files, cwd, calls, panic>>)))

\* create() with both locked: the link counts, "." and "..", the new entry.
CreateLink(p) ==
    LET l == r[p]
        isdir == icache[l.ip].type = "dir"
        ic == [icache EXCEPT ![l.ip].nlink = 1, ![l.dp].nlink = IF isdir THEN @ + 1 ELSE @]
        i == icache[l.ip].inum
        d == icache[l.dp].inum
    IN
    /\ pc[p] = "create_link"
    /\ dinode' = Iupdate(Iupdate(dinode, ic, l.ip), ic, l.dp)
    /\ ents' = [ents EXCEPT ![d][l.name] = i,
                            ![i] = IF isdir THEN [@ EXCEPT !["."] = i, ![".."] = d] ELSE @]
    /\ UnlockPutDp(p, ic, IF l.req.call = "create" THEN "opened" ELSE "made")
    /\ UNCHANGED <<files, cwd, calls, panic>>

\* sys_mkdir() and sys_mknod() drop the inode they made.
Made(p) ==
    /\ pc[p] = "made"
    /\ UnlockPut(p, "user")
    /\ UNCHANGED <<disk, files, cwd, calls, panic>>

\* sys_unlink() with dp locked.
UnlinkLook(p) ==
    LET l == r[p]
        e == ents[icache[l.dp].inum][l.name]
    IN
    /\ pc[p] = "unlink_look"
    /\ Require(l.name \in Dots \/ icache[l.dp].type = "dir", "dirlookup not DIR",
         \/ /\ l.name \in Dots \/ e = None
            /\ UnlockPutDp(p, icache, "user")
            /\ UNCHANGED <<disk, files, cwd, calls, panic>>
         \/ /\ l.name \notin Dots /\ e # None
            /\ WithIget(e,
                 /\ icache' = Iget(icache, e)
                 /\ FtGoto(p, "unlink_ip", [l EXCEPT !.ip = IgetSlot(e)])
                 /\ UNCHANGED <<disk, files, cwd, calls, panic>>))

IsDirEmpty(i) == \A n \in Name : ents[i][n] = None

\* sys_unlink() with both locked: a directory must be empty; the entry goes,
\* and with a directory the parent's link for "..".
UnlinkDo(p) ==
    LET l == r[p]
        isdir == icache[l.ip].type = "dir"
        ic == [icache EXCEPT ![l.dp].nlink = IF isdir THEN @ - 1 ELSE @]
    IN
    /\ pc[p] = "unlink_do"
    /\ Require(icache[l.ip].nlink >= 1, "unlink: nlink < 1",
         \/ /\ isdir /\ ~IsDirEmpty(icache[l.ip].inum)
            /\ UnlockPut(p, "unlink_bad")
            /\ UNCHANGED <<disk, files, cwd, calls, panic>>
         \/ /\ ~isdir \/ IsDirEmpty(icache[l.ip].inum)
            /\ ents' = [ents EXCEPT ![icache[l.dp].inum][l.name] = None]
            /\ dinode' = Iupdate(dinode, ic, l.dp)
            /\ UnlockPutDp(p, ic, "unlink_drop")
            /\ UNCHANGED <<files, cwd, calls, panic>>)

UnlinkBad(p) ==
    /\ pc[p] = "unlink_bad"
    /\ UnlockPutDp(p, icache, "user")
    /\ UNCHANGED <<disk, files, cwd, calls, panic>>

\* The last steps of sys_unlink() and of a sys_link() that failed: one link
\* less for the locked inode in local variable k.
DropLink(p, from, k) ==
    LET s == r[p][k]
        ic == [icache EXCEPT ![s].nlink = @ - 1]
    IN
    /\ pc[p] = from
    /\ dinode' = Iupdate(dinode, ic, s)
    /\ icache' = Iunlock(ic, s)
    /\ Put(p, s, "user", [r[p] EXCEPT ![k] = None])
    /\ UNCHANGED <<ents, files, cwd, calls, panic>>

\* sys_link() counts the new link before it looks for the place of its name.
LinkInc(p) ==
    LET l == r[p]
        ic == Iunlock([icache EXCEPT ![l.ip].nlink = @ + 1], l.ip)
    IN
    /\ pc[p] = "link_inc"
    /\ IF icache[l.ip].type = "dir"
       THEN UnlockPut(p, "user") /\ UNCHANGED <<disk, files, cwd, calls, panic>>
       ELSE WithIget(ROOTINO,
               /\ dinode' = Iupdate(dinode, ic, l.ip)
               /\ NamexStart(p, ic, [l EXCEPT !.old = l.ip], l.req.new, TRUE)
               /\ UNCHANGED <<ents, files, cwd, calls, panic>>)

\* dirlink() in sys_link(), with dp locked; it drops the inode of an entry
\* that is in the way.
LinkAdd(p) ==
    LET l == r[p]
        d == icache[l.dp].inum
        e == ents[d][l.name]
    IN
    /\ pc[p] = "link_add"
    /\ Require(icache[l.dp].type = "dir", "dirlookup not DIR",
         \/ /\ e # None
            /\ WithIget(e,
                 /\ icache' = Iget(icache, e)
                 /\ Put(p, IgetSlot(e), "link_undo", l)
                 /\ UNCHANGED <<disk, files, cwd, calls, panic>>)
         \/ /\ e = None
            /\ ents' = [ents EXCEPT ![d][l.name] = icache[l.old].inum]
            /\ UnlockPutDp(p, icache, "link_done")
            /\ UNCHANGED <<dinode, files, cwd, calls, panic>>)

LinkUndo(p) ==
    /\ pc[p] = "link_undo"
    /\ UnlockPutDp(p, icache, "link_bad")
    /\ UNCHANGED <<disk, files, cwd, calls, panic>>

LinkDone(p) ==
    /\ pc[p] = "link_done"
    /\ Put(p, r[p].old, "user", [r[p] EXCEPT !.old = None])
    /\ UNCHANGED <<disk, icache, files, cwd, calls, panic>>

\* sys_chdir(): proc->cwd, which only its process reads, changes with the
\* unlock and not after the iput() of the old directory.
ChdirSet(p) ==
    LET l == r[p] IN
    /\ pc[p] = "chdir_set"
    /\ IF icache[l.ip].type # "dir"
       THEN UnlockPut(p, "user") /\ UNCHANGED cwd
       ELSE /\ icache' = Iunlock(icache, l.ip)
            /\ cwd' = [cwd EXCEPT ![p] = l.ip]
            /\ Put(p, cwd[p], "user", [l EXCEPT !.ip = None])
    /\ UNCHANGED <<disk, files, calls, panic>>

-----------------------------------------------------------------------------
(* Descriptors, processes *)

Asks(p, call) == MayCall(p) /\ [call |-> call] \in Requests[p]

Dup(p) ==
    \E d \in 1 .. NOFILE :
       /\ Asks(p, "dup")
       /\ ofile[p][d] # None /\ FreeFds(p) # {}
       /\ ofile' = [ofile EXCEPT ![p][Min(FreeFds(p))] = ofile[p][d]]
       /\ ftable' = [ftable EXCEPT ![ofile[p][d]].ref = @ + 1]
       /\ Count(p)
       /\ UNCHANGED <<disk, icache, cwd, pc, r, panic>>

\* fileclose(): the last close of a file drops its inode.
FileClose(p, d, place) ==
    LET f == ofile[p][d] IN
    /\ ofile' = [ofile EXCEPT ![p][d] = None]
    /\ ftable' = [ftable EXCEPT ![f].ref = @ - 1, ![f].ip = IF ftable[f].ref = 1 THEN None ELSE @]
    /\ IF ftable[f].ref = 1 THEN Put(p, ftable[f].ip, place, r[p]) ELSE FtGoto(p, place, r[p])

Close(p) ==
    \E d \in 1 .. NOFILE :
       /\ Asks(p, "close") /\ ofile[p][d] # None
       /\ FileClose(p, d, "user")
       /\ Count(p)
       /\ UNCHANGED <<disk, icache, cwd, panic>>

\* fork() shares the open files and the current directory.
Fork(p) ==
    \E q \in Proc :
       /\ Asks(p, "fork") /\ pc[q] = "unused"
       /\ ofile' = [ofile EXCEPT ![q] = ofile[p]]
       /\ ftable' = [f \in File |-> [ftable[f] EXCEPT
                        !.ref = @ + Cardinality({d \in 1 .. NOFILE : ofile[p][d] = f})]]
       /\ icache' = Idup(icache, cwd[p])
       /\ cwd' = [cwd EXCEPT ![q] = cwd[p]]
       /\ pc' = [pc EXCEPT ![q] = "user"]
       /\ Count(p)
       /\ UNCHANGED <<disk, r, panic>>

\* exit() closes the files in turn and drops the current directory.
ExitCall(p) ==
    /\ Asks(p, "exit")
    /\ FtGoto(p, "exit", r[p])
    /\ Count(p)
    /\ UNCHANGED <<disk, icache, files, cwd, panic>>

ExitStep(p) ==
    LET open == {d \in 1 .. NOFILE : ofile[p][d] # None} IN
    /\ pc[p] = "exit"
    /\ IF open # {} THEN FileClose(p, Min(open), "exit") /\ UNCHANGED cwd
       ELSE /\ cwd' = [cwd EXCEPT ![p] = None]
            /\ Put(p, cwd[p], "zombie", r[p])
            /\ UNCHANGED files
    /\ UNCHANGED <<disk, icache, calls, panic>>

-----------------------------------------------------------------------------
Working(p) ==
    \/ NamexEnd(p) \/ NamexLock(p) \/ Lookup(p) \/ Lock(p)
    \/ IputStep(p) \/ IfreeStep(p) \/ IdropStep(p)
    \/ Opened(p) \/ CreateLook(p) \/ CreateLink(p) \/ Made(p)
    \/ UnlinkLook(p) \/ UnlinkDo(p) \/ UnlinkBad(p)
    \/ DropLink(p, "unlink_drop", "ip") \/ DropLink(p, "link_dec", "old")
    \/ LinkInc(p) \/ LinkAdd(p) \/ LinkUndo(p) \/ LinkDone(p)
    \/ ChdirSet(p) \/ ExitStep(p)

FtNext ==
    /\ panic = ""
    /\ \E p \in Proc : Working(p) \/ PathCall(p) \/ Dup(p) \/ Close(p) \/ Fork(p) \/ ExitCall(p)

\* A process in the kernel goes on once the lock it waits for is free.
FtSpec == FtInit /\ [][FtNext]_ftvars /\ \A p \in Proc : WF_ftvars(panic = "" /\ Working(p))

-----------------------------------------------------------------------------
(* Properties *)

FtTypeOK ==
    /\ dinode \in [Inum -> [type : {"free", "file", "dir", "dev"}, nlink : Nat]]
    /\ ents \in [Inum -> [Name \cup Dots -> Inum \cup {None}]]
    /\ icache \in [ICacheSlot -> [inum : Inum \cup {None}, ref : Nat, busy : BOOLEAN, valid : BOOLEAN,
                            type : {"free", "file", "dir", "dev"}, nlink : Nat]]
    /\ ftable \in [File -> [ref : Nat, ip : ICacheSlot \cup {None}]]
    /\ ofile \in [Proc -> [1 .. NOFILE -> File \cup {None}]]
    /\ cwd \in [Proc -> ICacheSlot \cup {None}]

Locals == {"ip", "dp", "old", "put"}

\* fs.c:117-118: the reference count of a cache entry is the number of
\* pointers to it, those of open files, of current directories and of the
\* calls under way; and an inode never has two entries.
RefIsPointers ==
    /\ \A s \in ICacheSlot : icache[s].ref =
          Cardinality({f \in File : ftable[f].ref > 0 /\ ftable[f].ip = s})
        + Cardinality({p \in Proc : cwd[p] = s})
        + Cardinality({x \in Proc \X Locals : r[x[1]][x[2]] = s})
    /\ \A i \in Inum : Cardinality(Cached(icache, i)) <= 1

\* No call of the system calls here runs into one of the code's panics, but
\* for those that say that the inodes, or the cache, are used up.
NoPanic == panic \in {"", "ialloc: no inodes", "iget: no inodes"}

\* Names and links agree, whatever calls are under way: a directory with links
\* never names an inode that has been freed, or one with fewer links than
\* names; and an inode without links is freed by the iput() of the last
\* reference, it does not stay on the disk.
NamesHaveLinks ==
    LET live == {d \in Inum : dinode[d].type = "dir" /\ dinode[d].nlink > 0}
    IN  \A i \in Inum :
           LET names == {x \in live \X Name : ents[x[1]][x[2]] = i}
           IN  /\ names # {} => dinode[i].type # "free" /\ dinode[i].nlink >= Cardinality(names)
               /\ dinode[i].type # "free" /\ dinode[i].nlink = 0 => Cached(icache, i) # {}

\* What the cache says of an inode that nobody has locked is what the disk says.
CacheIsDisk ==
    \A s \in ICacheSlot : icache[s].ref > 0 /\ icache[s].valid /\ ~icache[s].busy
                       => dinode[icache[s].inum] = [type |-> icache[s].type, nlink |-> icache[s].nlink]

\* Every system call returns: no two calls wait for each other's inodes.
CallReturns == \A p \in Proc : pc[p] # "user" ~> pc[p] \in {"user", "unused", "zombie"} \/ panic # ""

=============================================================================
