------------------------------- MODULE Memory -------------------------------
(***************************************************************************)
(* Physical pages and who has them: the allocator of kalloc.c, the address *)
(* spaces of vm.c as fork(), exec(), sbrk() and wait() build and free      *)
(* them, and the named shared regions of shm.h, whose tables no lock       *)
(* protects.                                                               *)
(*                                                                         *)
(* An address space is a function from page numbers to pages, 0 where no   *)
(* PTE is present; one page, dir, stands for its page directory and page   *)
(* tables.  Which free page kalloc() returns makes no difference: the      *)
(* model takes the least.  shm_get() runs as the steps between which       *)
(* another process can get in; the other calls touch the shared state in   *)
(* one place.                                                              *)
(***************************************************************************)
EXTENDS Integers, FiniteSets, FiniteSetsExt

CONSTANTS
    Task,        \* processes
    FirstTask,   \* the first one
    NPage,       \* pages of physical memory
    MaxVa,       \* bound: the pages of an address space
    ProgPages,   \* pages of a program, without guard and stack
    RegionName,  \* names that programs ask for
    SHM_MAXNUM,  \* entries of shm_arr and of a process's arrays
    Ops,         \* bound: the calls that processes make
    Benign,      \* bound: shared memory calls one at a time
    MaxOps       \* bound: the number of calls

Page == 1 .. NPage
Va == 1 .. MaxVa
Entry == 1 .. SHM_MAXNUM
DNE == "DNE"

VARIABLES
    free,      \* the free list
    twice,     \* a free page was freed
    space,     \* per process: dir, kernel stack, PTEs and size
    mine,      \* per process: its arrays shm_name, shm_vir and shm_phys
    region,    \* shm_arr
    used,      \* number of entries in use
    call,      \* per process: the place in shm_get(), and its local variables
    oom,       \* an allocation has failed
    mpanic,    \* the message of a kernel panic, "" while there is none
    ops        \* number of calls

memvars == <<free, twice, space, mine, region, used, call, oom, mpanic, ops>>

NoSpace == [dir |-> 0, kstack |-> 0, pt |-> [v \in Va |-> 0], sz |-> 0]
NoRegions == [i \in Entry |-> [name |-> DNE, vir |-> 0, phys |-> 0]]
Rest == [at |-> "user", name |-> DNE, slot |-> 0, found |-> 0]

\* userinit() and the exec() of init: one process with a program.
MemInit ==
    LET n == ProgPages + 2
    IN  /\ space = [t \in Task |-> IF t # FirstTask THEN NoSpace
                      ELSE [dir |-> 1, kstack |-> 2, sz |-> n,
                            pt |-> [v \in Va |-> IF v <= n THEN v + 2 ELSE 0]]]
        /\ free = n + 3 .. NPage
        /\ twice = FALSE
        /\ mine = [t \in Task |-> NoRegions]
        /\ region = [i \in Entry |-> [name |-> DNE, n |-> 0, page |-> 0]]
        /\ used = 0
        /\ call = [t \in Task |-> Rest]
        /\ oom = FALSE /\ mpanic = "" /\ ops = 0

-----------------------------------------------------------------------------
(* Pages and address spaces *)

\* The k-th page that kalloc() returns from now on.
Kalloc(k) == CHOOSE p \in free : Cardinality({q \in free : q < p}) = k - 1

Firsts(n) == {Kalloc(k) : k \in 1 .. n}

\* kfree() of the pages in s, with those in t taken.
Kfree(s, t) ==
    /\ free' = (free \ t) \cup s
    /\ twice' = (twice \/ s \cap free # {})

MemLive(t) == space[t].dir # 0
IsRegion(p) == \E i \in Entry : region[i].page = p

\* Mutant: the pages of a region are freed as well.
DeallocAll(t, lo, hi) == {space[t].pt[v] : v \in lo .. hi} \ {0}

\* deallocuvm(): the pages it frees between two sizes; regions stay, PTEs and
\* all.
Dealloc(t, lo, hi) == {space[t].pt[v] : v \in {u \in lo .. hi : ~IsRegion(space[t].pt[u])}} \ {0}

\* shm_arr_findPA() for every PTE of t up to page n: the counts change by d.
\* Nobody locks them: an update may be lost while another process is in
\* shm_get() or shm_rem().
Counts(t, n, d) ==
    LET hits(i) == IF region[i].page = 0 THEN 0
                   ELSE Cardinality({v \in 1 .. n : space[t].pt[v] = region[i].page})
        all == [i \in Entry |-> [region[i] EXCEPT !.n = @ + d * hits(i)]]
    IN  IF \E u \in Task : call[u].at # "user" THEN {all, region} ELSE {all}

MPanic(msg) == mpanic' = msg /\ UNCHANGED <<free, twice, space, mine, region, used, call, oom, ops>>
MemMayCall(t, op) == MemLive(t) /\ call[t] = Rest /\ op \in Ops /\ ops < MaxOps

\* sbrk(), growing by n pages: allocuvm() gives back what it got when the
\* memory runs out, and panics over a PTE that is still there.
SbrkGrow(t) ==
    \E n \in 1 .. 2 :
    LET s == space[t] IN
    /\ MemMayCall(t, "sbrk") /\ s.sz + n <= MaxVa
    /\ IF \E v \in s.sz + 1 .. s.sz + n : s.pt[v] # 0 THEN MPanic("remap")
       ELSE /\ IF Cardinality(free) < n
               THEN oom' = TRUE /\ UNCHANGED <<free, twice, space>>
               ELSE /\ space' = [space EXCEPT ![t].sz = @ + n,
                          ![t].pt = [v \in Va |-> IF v \in s.sz + 1 .. s.sz + n
                                                  THEN Kalloc(v - s.sz) ELSE @[v]]]
                    /\ Kfree({}, Firsts(n))
                    /\ UNCHANGED oom
            /\ ops' = ops + 1
            /\ UNCHANGED <<mine, region, used, call, mpanic>>

SbrkShrink(t) ==
    LET s == space[t] IN
    /\ MemMayCall(t, "sbrk") /\ s.sz > 1
    /\ Kfree(Dealloc(t, s.sz, s.sz), {})
    /\ space' = [space EXCEPT ![t].sz = @ - 1,
                              ![t].pt[s.sz] = IF IsRegion(@) THEN @ ELSE 0]
    /\ ops' = ops + 1
    /\ UNCHANGED <<mine, region, used, call, oom, mpanic>>

\* shm_assign(): the address of page p in the address space of t, -1 if none.
ShmAssign(t, p) ==
    LET at == {v \in 1 .. space[t].sz : space[t].pt[v] = p /\ IsRegion(p)}
    IN  IF at = {} THEN -1 ELSE Min(at)

\* fork(): a kernel stack, a directory, a copy of every page that is not a
\* region's; a failure gives the pages back, but not the counts.
MemFork(t) ==
    \E c \in Task :
    LET s == space[t]
        own == {v \in 1 .. s.sz : ~IsRegion(s.pt[v])}
        need == Cardinality(own) + 2
        rank(v) == Cardinality({u \in own : u < v})
    IN
    /\ MemMayCall(t, "fork") /\ ~MemLive(c)
    /\ IF \E v \in 1 .. s.sz : s.pt[v] = 0 THEN MPanic("copyuvm: page not present")
       ELSE /\ IF Cardinality(free) < need
               THEN /\ oom' = TRUE
                    /\ region' \in {region} \cup UNION {Counts(t, n, 1) : n \in 1 .. s.sz}
                    /\ UNCHANGED <<free, twice, space, mine>>
               ELSE /\ space' = [space EXCEPT ![c] =
                          [dir |-> Kalloc(2), kstack |-> Kalloc(1), sz |-> s.sz,
                           pt |-> [v \in Va |-> IF v > s.sz THEN 0
                                                ELSE IF v \in own THEN Kalloc(3 + rank(v)) ELSE s.pt[v]]]]
                    /\ region' \in Counts(t, s.sz, 1)
                    /\ mine' = [mine EXCEPT ![c] = [i \in Entry |->
                                  [mine[t][i] EXCEPT !.vir = ShmAssign(t, mine[t][i].phys)]]]
                    /\ Kfree({}, Firsts(need))
                    /\ UNCHANGED oom
            /\ ops' = ops + 1
            /\ UNCHANGED <<used, call, mpanic>>

\* exec(): the new address space is complete before the old one is freed; the
\* process keeps its arrays of regions, and the counts.
Exec(t) ==
    LET n == ProgPages + 2 IN
    /\ MemMayCall(t, "exec")
    /\ IF Cardinality(free) < n + 1
       THEN oom' = TRUE /\ UNCHANGED <<free, twice, space>>
       ELSE /\ space' = [space EXCEPT ![t].dir = Kalloc(1), ![t].sz = n,
                            ![t].pt = [v \in Va |-> IF v <= n THEN Kalloc(v + 1) ELSE 0]]
            /\ Kfree(Dealloc(t, 1, MaxVa) \cup {space[t].dir}, Firsts(n + 1))
            /\ UNCHANGED oom
    /\ ops' = ops + 1
    /\ UNCHANGED <<mine, region, used, call, mpanic>>

\* exit(), and wait() of the parent: freevm(), the kernel stack.
Reap(t) ==
    /\ MemMayCall(t, "exit") /\ t # FirstTask
    /\ Kfree(Dealloc(t, 1, MaxVa) \cup {space[t].dir, space[t].kstack}, {})
    /\ region' \in Counts(t, MaxVa, -1)
    /\ space' = [space EXCEPT ![t] = NoSpace]
    /\ ops' = ops + 1
    /\ UNCHANGED <<mine, used, call, oom, mpanic>>

-----------------------------------------------------------------------------
(* Shared regions *)

NameFound(n) == {i \in Entry : region[i].name = n}
MineFound(t, n) == {i \in Entry : mine[t][i].name = n}

\* sys_shm_get() and sys_shm_rem() refuse the name that marks a free entry.
ShmNames == RegionName \ {DNE}

\* With Benign, shared memory calls do not overlap.
MayShm(t, op) == MemMayCall(t, op) /\ (Benign => \A u \in Task : call[u] = Rest)
MemReturn(t) == call' = [call EXCEPT ![t] = Rest]

\* shm_get(), the searches: by name in the process, a free entry there, by
\* name in shm_arr.
ShmGet(t) ==
    \E n \in ShmNames :
    LET slots == MineFound(t, DNE)
    IN
    /\ MayShm(t, "shm_get")
    /\ call' = [call EXCEPT ![t] =
          IF MineFound(t, n) # {} \/ slots = {} \/ (NameFound(n) = {} /\ used >= SHM_MAXNUM) THEN Rest
          ELSE [at |-> IF NameFound(n) = {} THEN "new" ELSE "old", name |-> n, slot |-> Min(slots),
                found |-> IF NameFound(n) = {} THEN 0 ELSE Min(NameFound(n))]]
    /\ ops' = ops + 1
    /\ UNCHANGED <<free, twice, space, mine, region, used, oom, mpanic>>

\* The process gets page p at the end of its memory, as a region.
MapRegion(t, p, phys) ==
    LET s == space[t]
        c == call[t]
    IN  /\ space' = [space EXCEPT ![t].sz = @ + 1, ![t].pt[s.sz + 1] = p]
        /\ mine' = [mine EXCEPT ![t][c.slot] = [name |-> c.name, vir |-> s.sz + 1, phys |-> phys]]

Roomy(t) == space[t].sz < MaxVa

\* A name not found: allocshm() with a new page.  Without a free page it would
\* call deallocshm() for entry 0 of the process, whatever that is: not modelled.
ShmNew(t) ==
    /\ call[t].at = "new" /\ Roomy(t)
    /\ IF space[t].pt[space[t].sz + 1] # 0 THEN MPanic("remap")
       ELSE /\ free # {}
            /\ MapRegion(t, Kalloc(1), Kalloc(1))
            /\ Kfree({}, Firsts(1))
            /\ call' = [call EXCEPT ![t].at = "entry"]
            /\ UNCHANGED <<region, used, oom, mpanic, ops>>

\* shm_findFree(), and then the entry is filled.
ShmEntry(t) ==
    /\ call[t].at = "entry" /\ NameFound(DNE) # {}
    /\ call' = [call EXCEPT ![t].at = "fill", ![t].found = Min(NameFound(DNE))]
    /\ UNCHANGED <<free, twice, space, mine, region, used, oom, mpanic, ops>>

ShmFill(t) ==
    LET c == call[t] IN
    /\ c.at = "fill"
    /\ region' = [region EXCEPT ![c.found] =
                     [name |-> c.name, n |-> @.n + 1, page |-> mine[t][c.slot].phys]]
    /\ used' = used + 1
    /\ MemReturn(t)
    /\ UNCHANGED <<free, twice, space, mine, oom, mpanic, ops>>

\* A name found: the page of the entry is mapped.  allocshm() records the
\* address of a page that it did not allocate, an uninitialized variable: the
\* right one, or another one.
ShmOld(t) ==
    LET c == call[t]
        p == region[c.found].page
    IN
    /\ c.at = "old" /\ Roomy(t)
    /\ IF space[t].pt[space[t].sz + 1] # 0 THEN MPanic("remap")
       ELSE /\ \E phys \in {0, p} : MapRegion(t, p, phys)
            /\ region' = [region EXCEPT ![c.found].n = @ + 1]
            /\ MemReturn(t)
            /\ UNCHANGED <<free, twice, used, oom, mpanic, ops>>

\* shm_rem() of a region that others use, at the end of the process: the PTE
\* and the entry of the process go, the count drops.  The other cases are those
\* that the comment before deallocshm() disclaims.
ShmRem(t) ==
    \E n \in ShmNames :
    LET i == Min(MineFound(t, n))
        v == mine[t][i].vir
    IN
    /\ MayShm(t, "shm_rem")
    /\ MineFound(t, n) # {} /\ NameFound(n) # {}
    /\ v = space[t].sz
    /\ region[Min(NameFound(n))].n > 1 /\ region[Min(NameFound(n))].page = space[t].pt[v]
    /\ space' = [space EXCEPT ![t].sz = @ - 1, ![t].pt[v] = 0]
    /\ mine' = [mine EXCEPT ![t][i] = [name |-> DNE, vir |-> 0, phys |-> 0]]
    /\ region' = [region EXCEPT ![Min(NameFound(n))].n = @ - 1]
    /\ ops' = ops + 1
    /\ UNCHANGED <<free, twice, used, call, oom, mpanic>>

MemNext ==
    /\ mpanic = ""
    /\ \E t \in Task :
       \/ SbrkGrow(t) \/ SbrkShrink(t) \/ MemFork(t) \/ Exec(t) \/ Reap(t)
       \/ ShmGet(t) \/ ShmNew(t) \/ ShmEntry(t) \/ ShmFill(t) \/ ShmOld(t) \/ ShmRem(t)

MemSpec == MemInit /\ [][MemNext]_memvars

-----------------------------------------------------------------------------
(* Properties *)

MemTypeOK ==
    /\ free \subseteq Page
    /\ space \in [Task -> [dir : Page \cup {0}, kstack : Page \cup {0},
                           pt : [Va -> Page \cup {0}], sz : 0 .. MaxVa]]
    /\ mine \in [Task -> [Entry -> [name : RegionName \cup {DNE}, vir : Va \cup {-1, 0},
                                    phys : Page \cup {0}]]]
    /\ region \in [Entry -> [name : RegionName \cup {DNE}, n : Int, page : Page \cup {0}]]
    /\ used \in 0 .. SHM_MAXNUM + Cardinality(Task)

Mapped(t) == {space[t].pt[v] : v \in Va} \ {0}
MemKernel(t) == {space[t].dir, space[t].kstack} \ {0}

\* Every page has its place, whatever forks, execs, exits and failures went
\* before.  None is freed twice, and a free one is neither mapped nor a page
\* table, a kernel stack or a region; two processes have a page in common, or
\* one has it at two addresses, only if it is a region's; and until an
\* allocation fails, a page that nobody has is free.
PageOwners ==
    /\ ~twice
    /\ \A t \in Task : free \cap (Mapped(t) \cup MemKernel(t)) = {}
    /\ \A i \in Entry : region[i].page \notin free
    /\ \A t \in Task, v \in Va :
          space[t].pt[v] # 0 /\ ~IsRegion(space[t].pt[v])
             => \A u \in Task, x \in Va : space[u].pt[x] = space[t].pt[v] => u = t /\ x = v
    /\ ~oom => Page \subseteq free \cup {region[i].page : i \in Entry}
                                   \cup UNION {Mapped(t) \cup MemKernel(t) : t \in Task}

\* shm.h:429-431: shm_get() returns the location of the region if there is one.
\* Two processes that have a region by the same name, and an address for it,
\* have the same page there.
SameNameSamePage ==
    \A t, u \in Task, i, j \in Entry :
       /\ MemLive(t) /\ MemLive(u) /\ call[t] = Rest /\ call[u] = Rest
       /\ mine[t][i].name # DNE /\ mine[t][i].name = mine[u][j].name
       /\ -1 \notin {mine[t][i].vir, mine[u][j].vir}
       => space[t].pt[mine[t][i].vir] = space[u].pt[mine[u][j].vir]

=============================================================================
