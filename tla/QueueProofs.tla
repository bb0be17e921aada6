---------------------------- MODULE QueueProofs -----------------------------
(***************************************************************************)
(* The safety of Pipe and of Mutex, proved for every number of processes.  *)
(* A pipe is a bounded queue for every size of its buffer and width of its *)
(* counters, no writer misses its wakeup, and no process comes back to the *)
(* page of a pipe that was freed; no mutex in use loses its entry.         *)
(***************************************************************************)
EXTENDS Pipe, Mutex, SequenceTheorems, TLAPS

-----------------------------------------------------------------------------
(* Mutex *)

\* The places of initmutex(), where arg is a name, and the places where gid is
\* an entry that has a name.
Creating == {"found", "free", "found++", "free++", "name", "lock"}
Named == {"found", "found++", "lock", "locked", "unlocked", "asleep", "release", "wait", "waiting"}

\* The inductive invariant: the first process has no handle, so mxdelete(),
\* which looks at its handles, never drops an entry; an entry that has got a
\* name is counted, and what handles and calls refer to has a name.
MxInv ==
    /\ MxTypeOK
    /\ pc[First] = "user" /\ \A j \in Index : mxproc[First][j] = None
    /\ \A p \in Proc : IF pc[p] \in Creating THEN arg[p] \in Name ELSE arg[p] \in Index
    /\ \A i \in Index : name[i] # Null => num_proc[i] > 0
    /\ \A p \in Proc : pc[p] = "name" => num_proc[gid[p]] > 0
    /\ \A p \in Proc : pc[p] \in Named => name[gid[p]] # Null
    /\ \A p \in Proc, j \in Index : mxproc[p][j] # None => name[mxproc[p][j]] # Null

\* A step of process p, not the first, that only adds entries, and that leaves
\* p itself with what MxInv asks of it.
KeepsEntries(p) ==
    /\ p # First /\ MxTypeOK'
    /\ \A q \in Proc : q # p => UNCHANGED <<pc[q], arg[q], gid[q], mxproc[q]>>
    /\ \A i \in Index : /\ name[i] # Null => name'[i] # Null
                        /\ num_proc[i] > 0 => num_proc'[i] > 0
                        /\ name'[i] # Null => num_proc'[i] > 0
    /\ IF pc'[p] \in Creating THEN arg'[p] \in Name ELSE arg'[p] \in Index
    /\ pc'[p] = "name" => num_proc'[gid'[p]] > 0
    /\ pc'[p] \in Named => name'[gid'[p]] # Null
    /\ \A j \in Index : mxproc'[p][j] # None => name'[mxproc'[p][j]] # Null

\* Only one process moves: such a step keeps MxInv.
LEMMA MxFrame ==
    ASSUME MxInv, NEW p \in Proc, KeepsEntries(p)
    PROVE  MxInv'
<1> USE DEF KeepsEntries
<1>1. First \in Proc
    BY FirstAssumption, Zenon
<1>2. \A q \in Proc : gid[q] \in Index /\ \A j \in Index : mxproc[q][j] \in Index \cup {None}
    BY DEF MxInv, MxTypeOK
<1>3. pc'[First] = "user" /\ \A j \in Index : mxproc'[First][j] = None
    BY <1>1 DEF MxInv
<1>4. ASSUME NEW q \in Proc, q # p
      PROVE  /\ IF pc'[q] \in Creating THEN arg'[q] \in Name ELSE arg'[q] \in Index
             /\ pc'[q] = "name" => num_proc'[gid'[q]] > 0
             /\ pc'[q] \in Named => name'[gid'[q]] # Null
             /\ \A j \in Index : mxproc'[q][j] # None => name'[mxproc'[q][j]] # Null
    BY <1>2, <1>4 DEF MxInv
<1> QED BY <1>3, <1>4 DEF MxInv

\* What the steps of p start from.
LEMMA MxFacts ==
    ASSUME MxInv, NEW p \in Proc
    PROVE  /\ 0 \in Index /\ None \notin Index /\ First \in Proc
           /\ Null \notin Name /\ \A x \in Name : x \notin Index
           /\ name \in [Index -> Name \cup {Null}] /\ lock \in [Index -> {0, 1}]
           /\ num_proc \in [Index -> Nat] /\ mxproc \in [Proc -> [Index -> Index \cup {None}]]
           /\ pc \in [Proc -> MxPlaces] /\ arg \in [Proc -> Index \cup Name]
           /\ gid \in [Proc -> Index] /\ count \in [Proc -> Nat] /\ holds \in [Proc -> SUBSET Index]
           /\ \A i \in Index : name[i] # Null => num_proc[i] > 0
           /\ IF pc[p] \in Creating THEN arg[p] \in Name ELSE arg[p] \in Index
           /\ pc[p] = "name" => num_proc[gid[p]] > 0
           /\ pc[p] \in Named => name[gid[p]] # Null
           /\ \A j \in Index : mxproc[p][j] # None => name[mxproc[p][j]] # Null
<1>1. 0 \in Index /\ None \notin Index
    BY MaxAssumption DEF Index, None
<1> QED BY <1>1, FirstAssumption, NameAssumption DEF MxInv, MxTypeOK

\* The steps of initmutex().
LEMMA CreateSteps ==
    ASSUME MxInv, NEW p \in Proc,
           \/ \E a \in Name : CreateScan(p, a)
           \/ CreateLoad(p) \/ CreateStore(p) \/ CreateName(p) \/ CreateLock(p) \/ CreateFull(p)
    PROVE  MxInv'
<1>0. p # First
    BY Zenon DEF MxInv, CreateScan, Calls, CreateLoad, CreateStore, CreateName, CreateLock, CreateFull
<1>1. /\ 0 \in Index /\ None \notin Index /\ First \in Proc
      /\ Null \notin Name /\ \A x \in Name : x \notin Index
      /\ name \in [Index -> Name \cup {Null}] /\ lock \in [Index -> {0, 1}]
      /\ num_proc \in [Index -> Nat] /\ mxproc \in [Proc -> [Index -> Index \cup {None}]]
      /\ pc \in [Proc -> MxPlaces] /\ arg \in [Proc -> Index \cup Name]
      /\ gid \in [Proc -> Index] /\ count \in [Proc -> Nat] /\ holds \in [Proc -> SUBSET Index]
      /\ \A i \in Index : name[i] # Null => num_proc[i] > 0
      /\ IF pc[p] \in Creating THEN arg[p] \in Name ELSE arg[p] \in Index
      /\ pc[p] = "name" => num_proc[gid[p]] > 0
      /\ pc[p] \in Named => name[gid[p]] # Null
      /\ \A j \in Index : mxproc[p][j] # None => name[mxproc[p][j]] # Null
    BY MxFacts
<1> HIDE DEF Index, None
<1>2. ASSUME NEW a \in Name, CreateScan(p, a)
      PROVE  MxInv'
    <2>1. PICK i \in Index : /\ MxGoto(p, IF name[i] = Null THEN "free" ELSE "found")
                             /\ Local(p, a, i)
        BY <1>2 DEF CreateScan
    <2>2. /\ pc' = [pc EXCEPT ![p] = IF name[i] = Null THEN "free" ELSE "found"]
          /\ arg' = [arg EXCEPT ![p] = a] /\ gid' = [gid EXCEPT ![p] = i]
          /\ UNCHANGED <<name, lock, num_proc, mxproc, count, holds>>
        BY <1>2, <2>1, Zenon DEF CreateScan, MxGoto, Local, mx
    <2>3. MxTypeOK'
        BY <1>1, <2>2 DEF MxTypeOK, MxPlaces
    <2>8. KeepsEntries(p)
        BY <1>0, <1>1, <2>2, <2>3 DEF KeepsEntries, Creating, Named
    <2> QED BY <2>8, MxFrame, Zenon
<1>3. CASE CreateLoad(p)
    <2>2. /\ pc[p] \in {"found", "free"}
          /\ pc' = [pc EXCEPT ![p] = IF pc[p] = "found" THEN "found++" ELSE "free++"]
          /\ count' = [count EXCEPT ![p] = num_proc[gid[p]]]
          /\ UNCHANGED <<name, lock, num_proc, mxproc, arg, gid, holds>>
        BY <1>3, Zenon DEF CreateLoad, MxGoto, mx
    <2>3. MxTypeOK'
        BY <1>1, <2>2 DEF MxTypeOK, MxPlaces
    <2>8. KeepsEntries(p)
        BY <1>0, <1>1, <2>2, <2>3 DEF KeepsEntries, Creating, Named
    <2> QED BY <2>8, MxFrame, Zenon
<1>4. CASE CreateStore(p)
    <2>1. /\ num_proc' = [num_proc EXCEPT ![gid[p]] = count[p] + 1]
          /\ count' = [count EXCEPT ![p] = 0]
          /\ UNCHANGED <<name, lock, holds>>
          /\ pc[p] \in {"found++", "free++"}
        BY <1>4 DEF CreateStore
    <2>2. num_proc' \in [Index -> Nat] /\ num_proc'[gid[p]] > 0
          /\ \A i \in Index : num_proc[i] > 0 => num_proc'[i] > 0
        BY <1>1, <2>1
    <2>3. CASE pc[p] = "found++"
        <3>1. PICK j \in Index : mxproc' = [mxproc EXCEPT ![p][j] = gid[p]]
            BY <1>4, <2>3 DEF CreateStore, Handle
        <3>2. /\ pc' = [pc EXCEPT ![p] = "user"] /\ arg' = [arg EXCEPT ![p] = 0] /\ gid' = [gid EXCEPT ![p] = 0]
            BY <1>4, <2>3 DEF CreateStore, MxReturn, MxGoto, Local
        <3>3. MxTypeOK'
            BY <1>1, <2>1, <2>2, <3>1, <3>2 DEF MxTypeOK, MxPlaces
        <3>8. KeepsEntries(p)
            BY <1>0, <1>1, <2>1, <2>2, <2>3, <3>1, <3>2, <3>3 DEF KeepsEntries, Creating, Named
        <3> QED BY <3>8, MxFrame, Zenon
    <2>4. CASE pc[p] = "free++"
        <3>2. pc' = [pc EXCEPT ![p] = "name"] /\ UNCHANGED <<mxproc, arg, gid>>
            BY <1>4, <2>4 DEF CreateStore, MxGoto
        <3>3. MxTypeOK'
            BY <1>1, <2>1, <2>2, <3>2 DEF MxTypeOK, MxPlaces
        <3>8. KeepsEntries(p)
            BY <1>0, <1>1, <2>1, <2>2, <2>4, <3>2, <3>3 DEF KeepsEntries, Creating, Named
        <3> QED BY <3>8, MxFrame, Zenon
    <2> QED BY <2>1, <2>3, <2>4
<1>5. CASE CreateName(p)
    <2>2. /\ pc[p] = "name"
          /\ pc' = [pc EXCEPT ![p] = "lock"] /\ name' = [name EXCEPT ![gid[p]] = arg[p]]
          /\ UNCHANGED <<lock, num_proc, mxproc, arg, gid, count, holds>>
        BY <1>5 DEF CreateName, MxGoto
    <2>3. arg[p] \in Name /\ num_proc[gid[p]] > 0
        BY <2>2 DEF MxInv, Creating
    <2>4. MxTypeOK'
        BY <1>1, <2>2, <2>3 DEF MxTypeOK, MxPlaces
    <2>8. KeepsEntries(p)
        BY <1>0, <1>1, <2>2, <2>3, <2>4 DEF KeepsEntries, Creating, Named
    <2> QED BY <2>8, MxFrame, Zenon
<1>6. CASE CreateLock(p)
    <2>1. PICK j \in Index : mxproc' = [mxproc EXCEPT ![p][j] = gid[p]]
        BY <1>6, Zenon DEF CreateLock, Handle
    <2>2. /\ pc[p] = "lock" /\ lock' = [lock EXCEPT ![gid[p]] = 0]
          /\ pc' = [pc EXCEPT ![p] = "user"] /\ arg' = [arg EXCEPT ![p] = 0] /\ gid' = [gid EXCEPT ![p] = 0]
          /\ UNCHANGED <<name, num_proc, count, holds>>
        BY <1>6 DEF CreateLock, MxReturn, MxGoto, Local
    <2>3. MxTypeOK'
        BY <1>1, <2>1, <2>2 DEF MxTypeOK, MxPlaces
    <2>8. KeepsEntries(p)
        BY <1>0, <1>1, <2>1, <2>2, <2>3 DEF KeepsEntries, Creating, Named
    <2> QED BY <2>8, MxFrame, Zenon
<1>7. CASE CreateFull(p)
    <2>2. /\ pc' = [pc EXCEPT ![p] = "user"] /\ arg' = [arg EXCEPT ![p] = 0] /\ gid' = [gid EXCEPT ![p] = 0]
          /\ UNCHANGED <<name, lock, num_proc, mxproc, count, holds>>
        BY <1>7 DEF CreateFull, MxReturn, MxGoto, Local, mx
    <2>3. MxTypeOK'
        BY <1>1, <2>2 DEF MxTypeOK, MxPlaces
    <2>8. KeepsEntries(p)
        BY <1>0, <1>1, <2>2, <2>3 DEF KeepsEntries, Creating, Named
    <2> QED BY <2>8, MxFrame, Zenon
<1> QED BY <1>2, <1>3, <1>4, <1>5, <1>6, <1>7

\* What MxInv says of one process.
MxOf(q) ==
    /\ IF pc[q] \in Creating THEN arg[q] \in Name ELSE arg[q] \in Index
    /\ pc[q] = "name" => num_proc[gid[q]] > 0
    /\ pc[q] \in Named => name[gid[q]] # Null

\* A step that wakes processes and leaves the entries alone keeps MxInv.
LEMMA MxWakes ==
    ASSUME MxInv, MxTypeOK', UNCHANGED <<name, num_proc, mxproc>>, pc'[First] = "user",
           \A q \in Proc : MxOf(q)'
    PROVE  MxInv'
<1>1. \A i \in Index : name'[i] # Null => num_proc'[i] > 0
    BY DEF MxInv
<1>2. \A q \in Proc, j \in Index : mxproc'[q][j] # None => name'[mxproc'[q][j]] # Null
    BY DEF MxInv
<1>3. \A j \in Index : mxproc'[First][j] = None
    BY DEF MxInv
<1> QED BY <1>1, <1>2, <1>3, Zenon DEF MxInv, MxOf

\* The steps of the other functions, which leave num_proc and the names alone.
LEMMA UseSteps ==
    ASSUME MxInv, NEW p \in Proc,
           \/ LockSleep(p) \/ LockSet(p) \/ UnlockClear(p) \/ CvSleep(p) \/ Unlock(p)
           \/ \E j \in Index : LockTest(p, j) \/ CvWait(p, j) \/ CvSignal(p, j)
    PROVE  MxInv'
<1>1. /\ 0 \in Index /\ None \notin Index /\ First \in Proc
      /\ Null \notin Name /\ \A x \in Name : x \notin Index
      /\ name \in [Index -> Name \cup {Null}] /\ lock \in [Index -> {0, 1}]
      /\ num_proc \in [Index -> Nat] /\ mxproc \in [Proc -> [Index -> Index \cup {None}]]
      /\ pc \in [Proc -> MxPlaces] /\ arg \in [Proc -> Index \cup Name]
      /\ gid \in [Proc -> Index] /\ count \in [Proc -> Nat] /\ holds \in [Proc -> SUBSET Index]
      /\ \A i \in Index : name[i] # Null => num_proc[i] > 0
      /\ IF pc[p] \in Creating THEN arg[p] \in Name ELSE arg[p] \in Index
      /\ pc[p] = "name" => num_proc[gid[p]] > 0
      /\ pc[p] \in Named => name[gid[p]] # Null
      /\ \A j \in Index : mxproc[p][j] # None => name[mxproc[p][j]] # Null
    BY MxFacts
<1>0. p # First
    BY Zenon DEF MxInv, LockSleep, LockSet, UnlockClear, CvSleep, Unlock,
           UnlockWake, UnlockTest, LockTest, CvWait, CvSignal, Calls
<1> HIDE DEF Index, None
<1>2. ASSUME NEW j \in Index, Usable(p, j)
      PROVE  mxproc[p][j] \in Index /\ name[mxproc[p][j]] # Null
    BY <1>1, <1>2 DEF Usable, Handles
<1>3. ASSUME NEW j \in Index, LockTest(p, j) \/ CvWait(p, j) \/ UnlockTest(p, j)
      PROVE  MxInv'
    <2>1. mxproc[p][j] \in Index /\ name[mxproc[p][j]] # Null
        BY <1>2, <1>3, Zenon DEF LockTest, CvWait, UnlockTest
    <2>2. /\ pc' \in {[pc EXCEPT ![p] = "locked"], [pc EXCEPT ![p] = "unlocked"],
                      [pc EXCEPT ![p] = "wait"], [pc EXCEPT ![p] = "release"]}
          /\ arg' = [arg EXCEPT ![p] = j] /\ gid' = [gid EXCEPT ![p] = mxproc[p][j]]
          /\ holds' \in {holds, [holds EXCEPT ![p] = @ \ {mxproc[p][j]}]}
          /\ UNCHANGED <<name, lock, num_proc, mxproc, count>>
        BY <1>3, Zenon DEF LockTest, CvWait, UnlockTest, MxGoto, Local, mx
    <2>3. pc'[p] \in {"locked", "unlocked", "wait", "release"} /\ pc' \in [Proc -> MxPlaces]
          /\ \A q \in Proc : q # p => pc'[q] = pc[q]
        BY <1>1, <2>2 DEF MxPlaces
    <2>4. holds' \in [Proc -> SUBSET Index]
        BY <1>1, <2>2
    <2>5. MxTypeOK'
        BY <1>1, <2>1, <2>2, <2>3, <2>4, Zenon DEF MxTypeOK
    <2>8. KeepsEntries(p)
        BY <1>0, <1>1, <2>1, <2>2, <2>3, <2>5, Zenon DEF KeepsEntries, Creating, Named
    <2> QED BY <2>8, MxFrame, Zenon
<1>4. CASE LockSleep(p)
    <2>2. /\ pc[p] = "locked" /\ pc' = [pc EXCEPT ![p] = "asleep"]
          /\ UNCHANGED <<name, lock, num_proc, mxproc, arg, gid, count, holds>>
        BY <1>4 DEF LockSleep, MxGoto, mx
    <2>3. MxTypeOK'
        BY <1>1, <2>2 DEF MxTypeOK, MxPlaces
    <2>8. KeepsEntries(p)
        BY <1>0, <1>1, <2>2, <2>3 DEF KeepsEntries, Creating, Named
    <2> QED BY <2>8, MxFrame, Zenon
<1>8. CASE CvSleep(p)
    <2>2. /\ pc[p] = "wait" /\ pc' = [pc EXCEPT ![p] = "waiting"]
          /\ UNCHANGED <<name, lock, num_proc, mxproc, arg, gid, count, holds>>
        BY <1>8 DEF CvSleep, MxGoto, mx
    <2>3. MxTypeOK'
        BY <1>1, <2>2 DEF MxTypeOK, MxPlaces
    <2>8. KeepsEntries(p)
        BY <1>0, <1>1, <2>2, <2>3 DEF KeepsEntries, Creating, Named
    <2> QED BY <2>8, MxFrame, Zenon
<1>5. CASE LockSet(p) \/ UnlockClear(p)
    <2>1. arg[p] \in Index
        BY <1>5, Zenon DEF LockSet, UnlockClear, MxInv, Creating
    <2>2. /\ pc' = [pc EXCEPT ![p] = "user"] /\ arg' = [arg EXCEPT ![p] = 0] /\ gid' = [gid EXCEPT ![p] = 0]
          /\ lock' \in {[lock EXCEPT ![arg[p]] = 1], [lock EXCEPT ![gid[p]] = 0]}
          /\ holds' \in {holds, [holds EXCEPT ![p] = @ \cup {gid[p]}]}
          /\ UNCHANGED <<name, num_proc, mxproc, count>>
        BY <1>5 DEF LockSet, UnlockClear, MxReturn, MxGoto, Local
    <2>3. lock' \in [Index -> {0, 1}] /\ holds' \in [Proc -> SUBSET Index]
        <3>1. [lock EXCEPT ![arg[p]] = 1] \in [Index -> {0, 1}] /\ [lock EXCEPT ![gid[p]] = 0] \in [Index -> {0, 1}]
            BY <1>1, <2>1
        <3>2. [holds EXCEPT ![p] = @ \cup {gid[p]}] \in [Proc -> SUBSET Index]
            BY <1>1
        <3> QED BY <1>1, <2>2, <3>1, <3>2, Zenon
    <2>4. MxTypeOK'
        BY <1>1, <2>2, <2>3, Zenon DEF MxTypeOK, MxPlaces
    <2>8. KeepsEntries(p)
        BY <1>0, <1>1, <2>2, <2>4 DEF KeepsEntries, Creating, Named
    <2> QED BY <2>8, MxFrame, Zenon
<1>6. ASSUME NEW j \in Index, UnlockWake(p, j)
      PROVE  MxInv'
    <2>1. /\ pc' = [q \in Proc |-> IF pc[q] = "asleep" /\ gid[q] = mxproc[p][j] THEN "unlocked" ELSE pc[q]]
          /\ holds' = [holds EXCEPT ![p] = @ \ {mxproc[p][j]}]
          /\ UNCHANGED <<name, lock, num_proc, mxproc, arg, gid, count>>
        BY <1>6, Zenon DEF UnlockWake, mx
    <2>2. /\ pc' \in [Proc -> MxPlaces]
          /\ \A q \in Proc : \/ pc'[q] = pc[q]
                             \/ pc[q] = "asleep" /\ pc'[q] = "unlocked"
        BY <1>1, <2>1 DEF MxPlaces
    <2>3. MxTypeOK'
        BY <1>1, <2>1, <2>2 DEF MxTypeOK
    <2>4. ASSUME NEW q \in Proc PROVE MxOf(q)'
        <3>1. MxOf(q)
            BY DEF MxInv, MxOf
        <3> QED BY <2>1, <2>2, <3>1 DEF MxOf, Creating, Named
    <2>5. pc'[First] = "user"
        <3>1. pc[First] = "user"
            BY Zenon DEF MxInv
        <3> QED BY <1>1, <2>2, <3>1, Zenon
    <2> QED BY <2>1, <2>3, <2>4, <2>5, MxWakes, Zenon
<1>7. ASSUME NEW j \in Index, CvSignal(p, j)
      PROVE  MxInv'
    <2> DEFINE woken == {q \in Proc : pc[q] = "waiting" /\ gid[q] = mxproc[p][j]}
    <2>1. /\ pc' = [q \in Proc |-> IF q \in woken THEN "user" ELSE pc[q]]
          /\ arg' = [q \in Proc |-> IF q \in woken THEN 0 ELSE arg[q]]
          /\ gid' = [q \in Proc |-> IF q \in woken THEN 0 ELSE gid[q]]
          /\ UNCHANGED <<name, lock, num_proc, mxproc, count, holds>>
        BY <1>7, Zenon DEF CvSignal, mx
    <2> HIDE DEF woken
    <2>2. /\ pc' \in [Proc -> MxPlaces] /\ arg' \in [Proc -> Index \cup Name] /\ gid' \in [Proc -> Index]
          /\ \A q \in Proc : \/ pc'[q] = pc[q] /\ arg'[q] = arg[q] /\ gid'[q] = gid[q]
                             \/ pc'[q] = "user" /\ arg'[q] = 0 /\ gid'[q] = 0
        BY <1>1, <2>1 DEF MxPlaces
    <2>4. pc'[First] = "user"
        BY <1>1, <2>2, Zenon DEF MxInv
    <2>3. MxTypeOK'
        BY <1>1, <2>1, <2>2, Zenon DEF MxTypeOK
    <2>5. ASSUME NEW q \in Proc PROVE MxOf(q)'
        <3>1. MxOf(q)
            BY DEF MxInv, MxOf
        <3> QED BY <1>1, <2>1, <2>2, <3>1 DEF MxOf, Creating, Named
    <2> QED BY <2>1, <2>3, <2>4, <2>5, MxWakes, Zenon
<1> QED BY <1>3, <1>4, <1>5, <1>6, <1>7, <1>8 DEF Unlock

\* mxdelete() and exit().
LEMMA DeleteSteps ==
    ASSUME MxInv, NEW p \in Proc,
           \/ Exit(p) \/ ExitDelete(p) \/ Reuse(p)
           \/ \E j \in Index : Delete(p, j)
    PROVE  MxInv'
<1>1. /\ 0 \in Index /\ None \notin Index /\ First \in Proc
      /\ Null \notin Name /\ \A x \in Name : x \notin Index
      /\ name \in [Index -> Name \cup {Null}] /\ lock \in [Index -> {0, 1}]
      /\ num_proc \in [Index -> Nat] /\ mxproc \in [Proc -> [Index -> Index \cup {None}]]
      /\ pc \in [Proc -> MxPlaces] /\ arg \in [Proc -> Index \cup Name]
      /\ gid \in [Proc -> Index] /\ count \in [Proc -> Nat] /\ holds \in [Proc -> SUBSET Index]
      /\ \A i \in Index : name[i] # Null => num_proc[i] > 0
      /\ IF pc[p] \in Creating THEN arg[p] \in Name ELSE arg[p] \in Index
      /\ pc[p] = "name" => num_proc[gid[p]] > 0
      /\ pc[p] \in Named => name[gid[p]] # Null
      /\ \A j \in Index : mxproc[p][j] # None => name[mxproc[p][j]] # Null
    BY MxFacts
<1>0. p # First
    BY Zenon DEF MxInv, Exit, ExitDelete, Reuse, Delete, Calls
<1> HIDE DEF Index, None
<1>2. ASSUME NEW j, Mxdelete(p, j)
      PROVE  UNCHANGED <<name, lock, num_proc, mxproc>>
    <2>1. ~Usable(First, j)
        BY DEF Usable, Handles, MxInv
    <2> QED BY <1>2, <2>1 DEF Mxdelete, mx
<1>3. ASSUME NEW j \in Index, Delete(p, j)
      PROVE  MxInv'
    <2>1. UNCHANGED <<name, lock, num_proc, mxproc, pc, arg, gid, count, holds>>
        BY <1>2, <1>3 DEF Delete
    <2> QED BY <2>1 DEF MxInv, MxTypeOK
<1>4. CASE Exit(p)
    <2>2. /\ pc[p] = "user" /\ pc' = [pc EXCEPT ![p] = "exit"]
          /\ UNCHANGED <<name, lock, num_proc, mxproc, arg, gid, count, holds>>
        BY <1>4 DEF Exit, Calls, MxGoto, mx
    <2>3. MxTypeOK'
        BY <1>1, <2>2 DEF MxTypeOK, MxPlaces
    <2>8. KeepsEntries(p)
        BY <1>0, <1>1, <2>2, <2>3 DEF KeepsEntries, Creating, Named
    <2> QED BY <2>8, MxFrame, Zenon
<1>5. CASE ExitDelete(p)
    <2>1. UNCHANGED <<name, lock, num_proc, mxproc>>
        BY <1>2, <1>5 DEF ExitDelete, mx
    <2>2. /\ pc[p] = "exit"
          /\ arg' = [arg EXCEPT ![p] = IF @ + 1 \in Index THEN @ + 1 ELSE 0]
          /\ pc' = [pc EXCEPT ![p] = IF arg[p] + 1 \in Index THEN "exit" ELSE "gone"]
          /\ UNCHANGED <<gid, count, holds>>
        BY <1>5 DEF ExitDelete, MxGoto
    <2>3. arg'[p] \in Index /\ arg' \in [Proc -> Index \cup Name]
          /\ pc'[p] \in {"exit", "gone"} /\ pc' \in [Proc -> MxPlaces]
        BY <1>1, <2>2 DEF MxPlaces
    <2>4. MxTypeOK'
        BY <1>1, <2>1, <2>2, <2>3, Zenon DEF MxTypeOK
    <2>8. KeepsEntries(p)
        BY <1>0, <1>1, <2>1, <2>2, <2>3, <2>4, Zenon DEF KeepsEntries, Creating, Named
    <2> QED BY <2>8, MxFrame, Zenon
<1>6. CASE Reuse(p)
    <2>2. /\ pc[p] = "gone" /\ pc' = [pc EXCEPT ![p] = "user"]
          /\ mxproc' = [mxproc EXCEPT ![p] = [j \in Index |-> None]]
          /\ UNCHANGED <<name, lock, num_proc, arg, gid, count, holds>>
        BY <1>6 DEF Reuse, MxGoto, mx
    <2>3. MxTypeOK'
        BY <1>1, <2>2 DEF MxTypeOK, MxPlaces
    <2>8. KeepsEntries(p)
        BY <1>0, <1>1, <2>2, <2>3 DEF KeepsEntries, Creating, Named
    <2> QED BY <2>8, MxFrame, Zenon
<1> QED BY <1>3, <1>4, <1>5, <1>6

\* The invariant holds in every reachable state.
LEMMA MxInvariant == MxSpec => []MxInv
<1>1. MxInit => MxInv
    <2> SUFFICES ASSUME MxInit PROVE MxInv
        OBVIOUS
    <2>1. 0 \in Index /\ First \in Proc
        BY MaxAssumption, FirstAssumption DEF Index
    <2> HIDE DEF Index
    <2> QED BY <2>1 DEF MxInit, MxInv, MxTypeOK, MxPlaces, Creating, Named
<1>2. MxInv /\ [MxNext]_mxvars => MxInv'
    <2> SUFFICES ASSUME MxInv, [MxNext]_mxvars PROVE MxInv'
        OBVIOUS
    <2>1. CASE UNCHANGED mxvars
        BY <2>1 DEF mxvars, mx, MxInv, MxTypeOK
    <2>2. CASE MxNext
        BY <2>2, CreateSteps, UseSteps, DeleteSteps, Zenon DEF MxNext, MxKernel
    <2> QED BY <2>1, <2>2
<1> QED BY <1>1, <1>2, PTL DEF MxSpec

\* An entry of mxarray that a handle of some process, or a call under way, refers
\* to keeps its name and its count: mxdelete() takes away no mutex that is in use.
THEOREM MutexEntriesKept == MxSpec => []EntryKept
<1>1. MxInv => EntryKept
    <2> SUFFICES ASSUME MxInv PROVE EntryKept
        OBVIOUS
    <2>1. mxproc \in [Proc -> [Index -> Index \cup {None}]]
        BY DEF MxInv, MxTypeOK
    <2>2. ASSUME NEW p \in Proc, NEW j \in Handles(p)
          PROVE  name[mxproc[p][j]] # Null /\ num_proc[mxproc[p][j]] > 0
        <3>1. j \in Index /\ mxproc[p][j] # None
            BY <2>2 DEF Handles
        <3>2. mxproc[p][j] \in Index
            BY <2>1, <3>1
        <3> QED BY <3>1, <3>2, Zenon DEF MxInv
    <2> QED BY <2>2, Zenon DEF MxInv, EntryKept, Named
<1> QED BY <1>1, MxInvariant, PTL

\* The fields of mxarray, the handles and the locals of the calls have their types:
\* initmutex() never stores a handle outside mxarray, nor a name that is an index.
THEOREM MutexTypes == MxSpec => []MxTypeOK
<1>1. MxInv => MxTypeOK
    BY Zenon DEF MxInv
<1> QED BY <1>1, MxInvariant, PTL

-----------------------------------------------------------------------------
(* Pipe: who holds the lock, who sleeps, who may close *)

\* Where a process has p->lock, and where it uses each end of the pipe.
InPipe == {"read", "tosleep_r", "copy", "write", "tosleep_w"}
Reading == {"read", "tosleep_r", "asleep_r", "woken_r", "copy"}
Writing == {"write", "tosleep_w", "asleep_w", "woken_w"}

\* The types of what decides where a process may go.
UserTypes ==
    /\ open \in SUBSET PipeEnds
    /\ plock \in PipeUser \cup {NoUser}
    /\ fds \in [PipeEnds -> SUBSET PipeUser]
    /\ pkilled \in [PipeUser -> BOOLEAN]
    /\ pp \in [PipeUser -> PipePlaces]

\* p->lock is with the process that is between acquire() and release().
LockInv == \A p \in PipeUser : plock = p <=> pp[p] \in InPipe

\* A writer on its way to sleep still holds the lock it found the pipe full
\* under.
WriterInv ==
    /\ NoMissedWrite
    /\ \A p \in PipeUser : pp[p] = "tosleep_w" => PipeFull /\ "read" \in open

\* An end that some descriptor names is open, and so is one that its last
\* user is about to close; only users of an end are inside the pipe.
EndInv ==
    /\ \A e \in PipeEnds : fds[e] # {} => e \in open
    /\ \A p \in PipeUser : pp[p] \in Reading => p \in fds["read"]
    /\ \A p \in PipeUser : pp[p] \in Writing => p \in fds["write"]
    /\ \A p \in PipeUser : pp[p] = "close_r" => fds["read"] = {} /\ "read" \in open
    /\ \A p \in PipeUser : pp[p] = "close_w" => fds["write"] = {} /\ "write" \in open
    /\ \A p, q \in PipeUser : pp[p] = pp[q] /\ pp[p] \in {"close_r", "close_w"} => p = q
    /\ freed => open = {}

PipeInv == UserTypes /\ LockInv /\ WriterInv /\ EndInv

-----------------------------------------------------------------------------

\* Every step keeps the types.
LEMMA UserTypesStep == UserTypes /\ [PipeNext]_pipevars => UserTypes'
<1> SUFFICES ASSUME UserTypes, [PipeNext]_pipevars PROVE UserTypes'
    OBVIOUS
<1> USE PipeUserAssumption DEF UserTypes, PipeEnds, PipePlaces
<1>1. CASE UNCHANGED pipevars
    BY <1>1 DEF pipevars
<1>2. ASSUME NEW p \in PipeUser, PipeKernel(p) PROVE UserTypes'
    <2>1. CASE WriteFail(p) \/ ReadFail(p)
        BY <2>1, Zenon DEF WriteFail, ReadFail, PipeGoto, PipeRelease
    <2>2. CASE ReadEmpty(p) \/ ReadReady(p) \/ ReadByte(p)
        BY <2>2, Zenon DEF ReadEmpty, ReadReady, ReadByte, PipeGoto
    <2>3. CASE WriteFull(p)
        BY <2>3 DEF WriteFull, PipeWakeup
    <2>4. CASE WriteDone(p)
        BY <2>4 DEF WriteDone, PipeWakeup, PipeRelease
    <2>5. CASE ReadDone(p)
        BY <2>5 DEF ReadDone, PipeWakeup, PipeRelease
    <2>6. CASE \E b \in PipeByte : WriteByte(p, b)
        BY <2>6 DEF WriteByte
    <2>7. CASE Sleep(p)
        BY <2>7 DEF Sleep, PipeGoto, PipeRelease
    <2>8. CASE Reacquire(p)
        BY <2>8 DEF Reacquire, PipeGoto, PipeAcquire
    <2>9. CASE PipeClose(p)
        BY <2>9 DEF PipeClose, PipeWakeup
    <2> QED BY <1>2, <2>1, <2>2, <2>3, <2>4, <2>5, <2>6, <2>7, <2>8, <2>9 DEF PipeKernel
<1>3. ASSUME NEW p \in PipeUser, NEW k \in 0 .. MaxCount, WriteCall(p, k) \/ ReadCall(p, k)
      PROVE  UserTypes'
    <2>1. CASE WriteCall(p, k)
        BY <2>1 DEF WriteCall, PipeGoto, PipeAcquire
    <2>2. CASE ReadCall(p, k)
        BY <2>2 DEF ReadCall, PipeGoto, PipeAcquire
    <2> QED BY <1>3, <2>1, <2>2
<1>4. ASSUME NEW p \in PipeUser, KillUser(p) PROVE UserTypes'
    BY <1>4 DEF KillUser, PipeGoto
<1>5. ASSUME NEW p \in PipeUser, NEW q \in PipeUser, PipeFork(p, q) PROVE UserTypes'
    BY <1>5 DEF PipeFork
<1>6. ASSUME NEW p \in PipeUser, NEW e \in PipeEnds, CloseEnd(p, e) PROVE UserTypes'
    BY <1>6 DEF CloseEnd, PipeGoto
<1> HIDE DEF UserTypes
<1> QED BY <1>1, <1>2, <1>3, <1>4, <1>5, <1>6 DEF PipeNext

\* Every step keeps the lock with the process that took it.
LEMMA LockStep == UserTypes /\ LockInv /\ [PipeNext]_pipevars => LockInv'
<1> SUFFICES ASSUME UserTypes, LockInv, [PipeNext]_pipevars PROVE LockInv'
    OBVIOUS
<1>a. plock \in PipeUser \cup {NoUser} /\ pp \in [PipeUser -> PipePlaces] /\ NoUser \notin PipeUser
    BY PipeUserAssumption DEF UserTypes
<1> USE <1>a DEF LockInv, InPipe
<1>1. CASE UNCHANGED pipevars
    BY <1>1 DEF pipevars
<1>2. ASSUME NEW p \in PipeUser, PipeKernel(p) PROVE LockInv'
    <2>1. CASE WriteFail(p) \/ ReadFail(p) \/ ReadEmpty(p) \/ ReadReady(p) \/ ReadByte(p)
        BY <2>1 DEF WriteFail, ReadFail, ReadEmpty, ReadReady, ReadByte, PipeGoto, PipeRelease
    <2>2. CASE WriteFull(p) \/ WriteDone(p) \/ ReadDone(p)
        BY <2>2 DEF WriteFull, WriteDone, ReadDone, PipeWakeup, PipeRelease
    <2>3. CASE \E b \in PipeByte : WriteByte(p, b)
        BY <2>3 DEF WriteByte
    <2>4. CASE Sleep(p) \/ Reacquire(p)
        BY <2>4 DEF Sleep, Reacquire, PipeGoto, PipeRelease, PipeAcquire
    <2>5. CASE PipeClose(p)
        BY <2>5 DEF PipeClose, PipeWakeup
    <2> QED BY <1>2, <2>1, <2>2, <2>3, <2>4, <2>5 DEF PipeKernel
<1>3. ASSUME NEW p \in PipeUser, NEW k \in 0 .. MaxCount, WriteCall(p, k) \/ ReadCall(p, k)
      PROVE  LockInv'
    BY <1>3 DEF WriteCall, ReadCall, PipeGoto, PipeAcquire, PipeCalls
<1>4. ASSUME NEW p \in PipeUser, KillUser(p) PROVE LockInv'
    BY <1>4 DEF KillUser, PipeGoto
<1>5. ASSUME NEW p \in PipeUser, NEW q \in PipeUser, PipeFork(p, q) PROVE LockInv'
    BY <1>5 DEF PipeFork
<1>6. ASSUME NEW p \in PipeUser, NEW e \in PipeEnds, CloseEnd(p, e) PROVE LockInv'
    BY <1>6 DEF CloseEnd, PipeGoto
<1> HIDE DEF LockInv
<1> QED BY <1>1, <1>2, <1>3, <1>4, <1>5, <1>6 DEF PipeNext

\* Every step keeps WriterInv: a byte is stored only while no writer sleeps,
\* since the pipe is not full and its lock is not with a reader; a byte is
\* taken by a reader, which wakes the writers before it releases; and the last
\* reader to close wakes them too.
LEMMA WriterStep == UserTypes /\ LockInv /\ WriterInv /\ [PipeNext]_pipevars => WriterInv'
<1> SUFFICES ASSUME UserTypes, LockInv, WriterInv, [PipeNext]_pipevars PROVE WriterInv'
    OBVIOUS
<1>a. plock \in PipeUser \cup {NoUser} /\ pp \in [PipeUser -> PipePlaces] /\ NoUser \notin PipeUser
    BY PipeUserAssumption DEF UserTypes
<1>b. \A p \in PipeUser : plock = p <=> pp[p] \in {"read", "tosleep_r", "copy", "write", "tosleep_w"}
    BY DEF LockInv, InPipe
<1> USE <1>a, <1>b DEF WriterInv, NoMissedWrite
<1>1. CASE UNCHANGED pipevars
    BY <1>1 DEF pipevars, pipe, PipeFull
<1>2. ASSUME NEW p \in PipeUser, PipeKernel(p) PROVE WriterInv'
    <2>1. CASE WriteFail(p) \/ ReadFail(p) \/ ReadEmpty(p) \/ ReadReady(p)
        BY <2>1 DEF WriteFail, ReadFail, ReadEmpty, ReadReady, PipeGoto, PipeRelease, pipe, PipeFull
    <2>2. CASE ReadByte(p)
        BY <2>2 DEF ReadByte
    <2>3. CASE WriteFull(p) \/ WriteDone(p) \/ ReadDone(p)
        BY <2>3 DEF WriteFull, WriteDone, ReadDone, PipeWakeup, PipeRelease, pipe, PipeFull
    <2>4. CASE \E b \in PipeByte : WriteByte(p, b)
        BY <2>4 DEF WriteByte
    <2>5. CASE Sleep(p) \/ Reacquire(p)
        BY <2>5 DEF Sleep, Reacquire, PipeGoto, PipeRelease, PipeAcquire, pipe, PipeFull
    <2>6. CASE PipeClose(p)
        BY <2>6 DEF PipeClose, PipeWakeup, pipe, PipeFull
    <2> QED BY <1>2, <2>1, <2>2, <2>3, <2>4, <2>5, <2>6, Zenon DEF PipeKernel
<1>3. ASSUME NEW p \in PipeUser, NEW k \in 0 .. MaxCount, WriteCall(p, k) \/ ReadCall(p, k)
      PROVE  WriterInv'
    BY <1>3 DEF WriteCall, ReadCall, PipeGoto, PipeAcquire, PipeCalls, pipe, PipeFull
<1>4. ASSUME NEW p \in PipeUser, KillUser(p) PROVE WriterInv'
    BY <1>4 DEF KillUser, PipeGoto, pipe, PipeFull
<1>5. ASSUME NEW p \in PipeUser, NEW q \in PipeUser, PipeFork(p, q) PROVE WriterInv'
    BY <1>5 DEF PipeFork, pipe, PipeFull
<1>6. ASSUME NEW p \in PipeUser, NEW e \in PipeEnds, CloseEnd(p, e) PROVE WriterInv'
    BY <1>6 DEF CloseEnd, PipeGoto, pipe, PipeFull
<1> HIDE DEF WriterInv
<1> QED BY <1>1, <1>2, <1>3, <1>4, <1>5, <1>6 DEF PipeNext

\* Every step keeps EndInv: fork() copies a descriptor only from a process
\* that has it, so the count of an end, once zero, stays zero, and one process
\* alone closes the end.
LEMMA EndStep == UserTypes /\ EndInv /\ [PipeNext]_pipevars => EndInv'
<1> SUFFICES ASSUME UserTypes, EndInv, [PipeNext]_pipevars PROVE EndInv'
    OBVIOUS
<1>a. /\ open \in SUBSET PipeEnds /\ fds \in [PipeEnds -> SUBSET PipeUser]
      /\ pp \in [PipeUser -> PipePlaces]
    BY DEF UserTypes
<1> USE <1>a DEF EndInv, Reading, Writing, PipeEnds
<1>1. CASE UNCHANGED pipevars
    BY <1>1, Zenon DEF pipevars
<1>2. ASSUME NEW p \in PipeUser, PipeKernel(p) PROVE EndInv'
    <2>1. CASE WriteFail(p) \/ ReadFail(p) \/ ReadEmpty(p) \/ ReadReady(p) \/ ReadByte(p)
        BY <2>1 DEF WriteFail, ReadFail, ReadEmpty, ReadReady, ReadByte, PipeGoto
    <2>2. CASE WriteFull(p) \/ WriteDone(p) \/ ReadDone(p)
        BY <2>2 DEF WriteFull, WriteDone, ReadDone, PipeWakeup
    <2>3. CASE \E b \in PipeByte : WriteByte(p, b)
        BY <2>3 DEF WriteByte
    <2>4. CASE Sleep(p) \/ Reacquire(p)
        BY <2>4 DEF Sleep, Reacquire, PipeGoto
    <2>5. CASE PipeClose(p)
        <3>1. fds' = fds /\ (freed' => open' = {})
            BY <2>5, Zenon DEF PipeClose
        <3>2. CASE pp[p] = "close_r"
            <4>1. open' = open \ {"read"}
                BY <2>5, <3>2 DEF PipeClose
            <4>2. pp' = [q \in PipeUser |-> IF q = p THEN "user"
                                          ELSE IF pp[q] = "asleep_w" THEN "woken_w" ELSE pp[q]]
                BY <2>5, <3>2 DEF PipeClose, PipeWakeup
            <4> QED BY <3>1, <3>2, <4>1, <4>2
        <3>3. CASE pp[p] = "close_w"
            <4>1. open' = open \ {"write"}
                BY <2>5, <3>3 DEF PipeClose
            <4>2. pp' = [q \in PipeUser |-> IF q = p THEN "user"
                                          ELSE IF pp[q] = "asleep_r" THEN "woken_r" ELSE pp[q]]
                BY <2>5, <3>3 DEF PipeClose, PipeWakeup
            <4> QED BY <3>1, <3>3, <4>1, <4>2
        <3> QED BY <2>5, <3>2, <3>3 DEF PipeClose
    <2> QED BY <1>2, <2>1, <2>2, <2>3, <2>4, <2>5, Zenon DEF PipeKernel
<1>3. ASSUME NEW p \in PipeUser, NEW k \in 0 .. MaxCount, WriteCall(p, k) \/ ReadCall(p, k)
      PROVE  EndInv'
    BY <1>3 DEF WriteCall, ReadCall, PipeGoto
<1>4. ASSUME NEW p \in PipeUser, KillUser(p) PROVE EndInv'
    BY <1>4 DEF KillUser, PipeGoto
<1>5. ASSUME NEW p \in PipeUser, NEW q \in PipeUser, PipeFork(p, q) PROVE EndInv'
    BY <1>5 DEF PipeFork
<1>6. ASSUME NEW p \in PipeUser, NEW e \in PipeEnds, CloseEnd(p, e) PROVE EndInv'
    BY <1>6 DEF CloseEnd, PipeGoto
<1> HIDE DEF EndInv
<1> QED BY <1>1, <1>2, <1>3, <1>4, <1>5, <1>6 DEF PipeNext

\* pipealloc() makes a pipe that satisfies the invariant.
LEMMA PipeInitInv == PipeInit => PipeInv
BY PipeUserAssumption
DEF PipeInit, PipeInv, UserTypes, LockInv, WriterInv, EndInv, NoMissedWrite, InPipe, Reading,
    Writing, PipeEnds, PipePlaces

\* The invariant holds in every reachable state.
LEMMA PipeInductive == PipeSpec => []PipeInv
<1>1. PipeInv /\ [PipeNext]_pipevars => PipeInv'
    BY UserTypesStep, LockStep, WriterStep, EndStep DEF PipeInv
<1> QED BY PipeInitInv, <1>1, PTL DEF PipeSpec

\* pipewrite() misses no wakeup: a writer sleeps only on a full pipe that can
\* still be read, until the reader that changed this calls wakeup().
THEOREM WriterWakes == PipeSpec => []NoMissedWrite
<1>1. PipeInv => NoMissedWrite
    BY DEF PipeInv, WriterInv
<1> QED BY PipeInductive, <1>1, PTL

\* pipeclose() frees the page once: when it has, no process is in pipe.c,
\* asleep there or on its way to it, and no descriptor leads back.
THEOREM FreedIsUnused == PipeSpec => []NoUseAfterFree
<1>1. PipeInv => NoUseAfterFree
    BY DEF PipeInv, UserTypes, EndInv, NoUseAfterFree, PipePlaces, PipeEnds, Reading, Writing
<1> QED BY PipeInductive, <1>1, PTL

-----------------------------------------------------------------------------
(* Pipe: the ring is a queue *)

\* Division with remainder.
LEMMA DivMod ==
    ASSUME NEW x \in Int, NEW n \in Nat, n > 0
    PROVE  x = (n * (x \div n)) + (x % n) /\ x % n \in 0 .. n - 1 /\ x \div n \in Int
OBVIOUS

\* The remainder of a multiple and something smaller than n.
LEMMA ModOfMultiple ==
    ASSUME NEW t \in Int, NEW n \in Nat, n > 0, NEW r \in 0 .. n - 1
    PROVE  ((n * t) + r) % n = r
OBVIOUS

\* A multiple of n adds nothing modulo n.
LEMMA ModPlusMultiple ==
    ASSUME NEW t \in Int, NEW x \in Int, NEW n \in Nat, n > 0
    PROVE  (x + (n * t)) % n = x % n
<1> DEFINE q == x \div n
           r == x % n
<1>1. x = (n * q) + r /\ r \in 0 .. n - 1 /\ q \in Int
    BY DivMod
<1>2. x + (n * t) = (n * (q + t)) + r
   <2> HIDE DEF q, r
   <2> QED BY <1>1
<1>3. q + t \in Int BY <1>1
<1>4. ((n * (q + t)) + r) % n = r
   <2> HIDE DEF q, r
   <2> QED BY <1>1, <1>3, ModOfMultiple
<1> QED BY <1>2, <1>4

\* A counter that wraps at a multiple of n counts on modulo n.
LEMMA ModWrap ==
    ASSUME NEW x \in Int, NEW n \in Nat, n > 0, NEW m \in Nat, m % n = 0
    PROVE  (x + m) % n = x % n /\ (x - m) % n = x % n
<1>1. m = n * (m \div n) /\ m \div n \in Int BY DivMod
<1>2. x - m = x + (n * (-(m \div n))) /\ -(m \div n) \in Int BY <1>1
<1> DEFINE t == m \div n
<1> HIDE DEF t
<1>3. (x + (n * t)) % n = x % n BY <1>1, ModPlusMultiple DEF t
<1>4. (x + (n * (-t))) % n = x % n BY <1>2, ModPlusMultiple, Zenon DEF t
<1> QED BY <1>1, <1>2, <1>3, <1>4 DEF t

\* Numbers that are less than n apart differ modulo n.
LEMMA ModApart ==
    ASSUME NEW x \in Int, NEW y \in Int, x < y, NEW n \in Nat, n > 0, y - x < n
    PROVE  x % n # y % n
<1> DEFINE q == x \div n
           r == x % n
<1>1. x = (n * q) + r /\ r \in 0 .. n - 1 /\ q \in Int
    BY DivMod
<1> DEFINE k == y - x
<1>2. k \in 1 .. n - 1 OBVIOUS
<1> HIDE DEF q, r
<1>3. CASE r + k < n
   <2>1. y = (n * q) + (r + k) /\ r + k \in 0 .. n - 1 BY <1>1, <1>2, <1>3
   <2>2. y % n = r + k BY <2>1, <1>1, ModOfMultiple, Zenon
   <2> QED BY <2>2, <1>2, <1>1 DEF r
<1>4. CASE r + k >= n
   <2>1. y = (n * (q + 1)) + (r + k - n) /\ r + k - n \in 0 .. n - 1 /\ q + 1 \in Int BY <1>1, <1>2, <1>4
   <2>2. y % n = r + k - n BY <2>1, <1>1, ModOfMultiple, Zenon
   <2> QED BY <2>2, <1>2, <1>1 DEF r
<1> QED BY <1>3, <1>4, <1>1, <1>2

\* The distance of two words, without the modulus.
LEMMA ModDiff ==
    ASSUME NEW m \in Nat, NEW a \in 0 .. m - 1, NEW b \in 0 .. m - 1
    PROVE  (b - a) % m = IF a <= b THEN b - a ELSE (b - a) + m
OBVIOUS

\* The sum of a word and at most a whole turn.
LEMMA ModSum ==
    ASSUME NEW m \in Nat, NEW a \in 0 .. m - 1, NEW k \in 0 .. m
    PROVE  (a + k) % m = IF a + k < m THEN a + k ELSE (a + k) - m
OBVIOUS

\* The ring: its indices are words, and at most PIPESIZE bytes are in it.
RingInv ==
    /\ pdata \in [0 .. PIPESIZE - 1 -> PipeByte]
    /\ nread \in 0 .. Wrap - 1 /\ nwrite \in 0 .. Wrap - 1
    /\ Stored \in 0 .. PIPESIZE

\* The byte that comes k after nread is at the same place of the buffer whether
\* or not the counter wraps before it.
LEMMA RingPlace ==
    ASSUME NEW i \in 0 .. Wrap - 1, NEW k \in 0 .. Wrap
    PROVE  ((i + k) % Wrap) % PIPESIZE = (i + k) % PIPESIZE /\ (i + k) % PIPESIZE \in 0 .. PIPESIZE - 1
<1>1. (i + k) % Wrap = IF i + k < Wrap THEN i + k ELSE (i + k) - Wrap
    BY ModSum, PipeSizeAssumption, Zenon
<1>a. i + k \in Int /\ PIPESIZE \in Nat /\ PIPESIZE > 0 /\ Wrap \in Nat /\ Wrap % PIPESIZE = 0
    BY PipeSizeAssumption
<1>2. ((i + k) - Wrap) % PIPESIZE = (i + k) % PIPESIZE
    BY <1>a, ModWrap, Zenon
<1>3. (i + k) % PIPESIZE \in 0 .. PIPESIZE - 1
    BY DivMod, PipeSizeAssumption
<1> QED BY <1>1, <1>2, <1>3

\* pipewrite() puts a byte at the end of the queue.
LEMMA WriteByteStep ==
    ASSUME RingInv, NEW p \in PipeUser, NEW b \in PipeByte, WriteByte(p, b)
    PROVE  RingInv' /\ Stored < PIPESIZE /\ Contents' = Append(Contents, b)
<1> USE PipeSizeAssumption
<1>1. Stored = IF nread <= nwrite THEN nwrite - nread ELSE (nwrite - nread) + Wrap
    BY ModDiff DEF RingInv, Stored
<1>2. (nread + PIPESIZE) % Wrap = IF nread + PIPESIZE < Wrap THEN nread + PIPESIZE
                                                             ELSE (nread + PIPESIZE) - Wrap
    <2>1. nread \in 0 .. Wrap - 1 /\ PIPESIZE \in 0 .. Wrap /\ Wrap \in Nat
        BY DEF RingInv
    <2> QED BY <2>1, ModSum, Zenon
<1>3. Stored < PIPESIZE
    <2>1. nwrite # (nread + PIPESIZE) % Wrap
        BY DEF WriteByte, PipeFull
    <2>2. nread \in 0 .. Wrap - 1 /\ nwrite \in 0 .. Wrap - 1 /\ Stored \in 0 .. PIPESIZE
        BY DEF RingInv
    <2> QED BY <1>1, <1>2, <2>1, <2>2
<1>4. nwrite' = IF nwrite + 1 < Wrap THEN nwrite + 1 ELSE (nwrite + 1) - Wrap
    <2>1. nwrite \in 0 .. Wrap - 1 /\ 1 \in 0 .. Wrap /\ Wrap \in Nat
        BY DEF RingInv
    <2>2. nwrite' = (nwrite + 1) % Wrap
        BY DEF WriteByte
    <2> QED BY <2>1, <2>2, ModSum, Zenon
<1>5. nread' = nread /\ nwrite' \in 0 .. Wrap - 1
    BY <1>4 DEF RingInv, WriteByte
<1>6. Stored' = IF nread' <= nwrite' THEN nwrite' - nread' ELSE nwrite' - nread' + Wrap
    BY <1>5, ModDiff, Zenon DEF RingInv, Stored
<1>7. Stored' = Stored + 1
    BY <1>1, <1>3, <1>4, <1>5, <1>6 DEF RingInv
<1>8. nwrite % PIPESIZE = (nread + Stored) % PIPESIZE /\ nwrite % PIPESIZE \in 0 .. PIPESIZE - 1
    <2>1. nread \in 0 .. Wrap - 1 /\ Stored \in 0 .. Wrap /\ Wrap \in Nat /\ nwrite \in 0 .. Wrap - 1
        BY <1>3 DEF RingInv
    <2>2. (nread + Stored) % Wrap = IF nread + Stored < Wrap THEN nread + Stored ELSE (nread + Stored) - Wrap
        BY <2>1, ModSum, Zenon
    <2>3. nwrite = (nread + Stored) % Wrap
        BY <1>1, <2>1, <2>2
    <2> QED BY <2>1, <2>3, RingPlace, Zenon
<1>9. ASSUME NEW k \in 1 .. Stored PROVE pdata'[(nread + k - 1) % PIPESIZE] = pdata[(nread + k - 1) % PIPESIZE]
    <2>1. (nread + k - 1) % PIPESIZE # (nread + Stored) % PIPESIZE
        <3>1. /\ nread + k - 1 \in Int /\ nread + Stored \in Int /\ PIPESIZE \in Nat /\ PIPESIZE > 0
              /\ nread + k - 1 < nread + Stored /\ (nread + Stored) - (nread + k - 1) < PIPESIZE
            BY <1>3 DEF RingInv
        <3> QED BY <3>1, ModApart, Zenon
    <2>2. (nread + k - 1) % PIPESIZE \in 0 .. PIPESIZE - 1
        BY DivMod DEF RingInv
    <2> QED BY <2>1, <2>2, <1>8 DEF RingInv, WriteByte
<1>10. pdata'[(nread + Stored) % PIPESIZE] = b /\ pdata' \in [0 .. PIPESIZE - 1 -> PipeByte]
    BY <1>8 DEF RingInv, WriteByte
<1>11. RingInv'
    BY <1>3, <1>5, <1>7, <1>10 DEF RingInv
<1> DEFINE n == Stored
<1>12. n \in Nat
    BY DEF RingInv
<1>13. Contents' = [k \in 1 .. n + 1 |-> pdata'[(nread + k - 1) % PIPESIZE]]
    BY <1>5, <1>7 DEF Contents
<1>14. Append(Contents, b) = [k \in 1 .. n + 1 |-> IF k = n + 1 THEN b ELSE Contents[k]]
    BY <1>12 DEF Contents
<1>15. ASSUME NEW k \in 1 .. n + 1
       PROVE  pdata'[(nread + k - 1) % PIPESIZE] = IF k = n + 1 THEN b ELSE Contents[k]
    <2>1. CASE k = n + 1
        <3>1. nread + k - 1 = nread + n
            BY <2>1, <1>12 DEF RingInv
        <3> QED BY <3>1, <2>1, <1>10
    <2>2. CASE k \in 1 .. n
        <3>1. Contents[k] = pdata[(nread + k - 1) % PIPESIZE]
            BY <2>2 DEF Contents
        <3> QED BY <3>1, <2>2, <1>9, <1>12
    <2> QED BY <2>1, <2>2, <1>12
<1> HIDE DEF n
<1>16. Contents' = Append(Contents, b)
    BY <1>13, <1>14, <1>15
<1> QED BY <1>3, <1>11, <1>16

\* piperead() takes the byte at its head.
LEMMA ReadByteStep ==
    ASSUME RingInv, NEW p \in PipeUser, ReadByte(p)
    PROVE  RingInv' /\ Contents # <<>> /\ Contents' = Tail(Contents)
<1> USE PipeSizeAssumption
<1>1. Stored = IF nread <= nwrite THEN nwrite - nread ELSE (nwrite - nread) + Wrap
    BY ModDiff, Zenon DEF RingInv, Stored
<1>2. Stored > 0
    BY <1>1 DEF RingInv, ReadByte, PipeEmpty
<1>3. nread' = IF nread + 1 < Wrap THEN nread + 1 ELSE (nread + 1) - Wrap
    <2>1. nread \in 0 .. Wrap - 1 /\ 1 \in 0 .. Wrap /\ Wrap \in Nat
        BY DEF RingInv
    <2>2. nread' = (nread + 1) % Wrap
        BY DEF ReadByte
    <2> QED BY <2>1, <2>2, ModSum, Zenon
<1>4. nwrite' = nwrite /\ pdata' = pdata /\ nread' \in 0 .. Wrap - 1
    BY <1>3 DEF RingInv, ReadByte
<1>5. Stored' = IF nread' <= nwrite' THEN nwrite' - nread' ELSE nwrite' - nread' + Wrap
    BY <1>4, ModDiff, Zenon DEF RingInv, Stored
<1>6. Stored' = Stored - 1
    BY <1>1, <1>2, <1>3, <1>4, <1>5 DEF RingInv
<1>7. RingInv'
    BY <1>2, <1>4, <1>6 DEF RingInv
<1> DEFINE n == Stored
<1>8. n \in Nat \ {0}
    BY <1>2 DEF RingInv
<1>9. ASSUME NEW k \in 1 .. n - 1 PROVE (nread' + k - 1) % PIPESIZE = (nread + k) % PIPESIZE
    <2>1. nread' + k - 1 = nread + k \/ nread' + k - 1 = (nread + k) - Wrap
        BY <1>3, <1>8 DEF RingInv
    <2>2. ((nread + k) - Wrap) % PIPESIZE = (nread + k) % PIPESIZE
        <3>1. nread + k \in Int /\ PIPESIZE \in Nat /\ PIPESIZE > 0 /\ Wrap \in Nat /\ Wrap % PIPESIZE = 0
            BY <1>8 DEF RingInv
        <3> QED BY <3>1, ModWrap, Zenon
    <2> QED BY <2>1, <2>2
<1>10. Contents' = [k \in 1 .. n - 1 |-> pdata[(nread' + k - 1) % PIPESIZE]]
    BY <1>4, <1>6 DEF Contents
<1>11. Len(Contents) = n /\ Contents \in Seq(PipeByte)
    <2>1. \A k \in 1 .. n : (nread + k - 1) % PIPESIZE \in 0 .. PIPESIZE - 1
        BY DivMod, <1>8 DEF RingInv
    <2>2. \A k \in 1 .. n : pdata[(nread + k - 1) % PIPESIZE] \in PipeByte
        BY <2>1 DEF RingInv
    <2> QED BY <1>8, <2>2 DEF Contents
<1>12. Tail(Contents) = [k \in 1 .. n - 1 |-> Contents[k + 1]]
    <2> DEFINE t == [k \in 1 .. n - 1 |-> Contents[k + 1]]
    <2>1. Contents # <<>>
        BY <1>8, <1>11
    <2>2. /\ Tail(Contents) \in Seq(PipeByte) /\ Len(Tail(Contents)) = n - 1
          /\ \A k \in 1 .. n - 1 : Tail(Contents)[k] = Contents[k + 1]
        BY <1>11, <2>1, HeadTailProperties
    <2>3. \A k \in 1 .. n - 1 : Contents[k + 1] \in PipeByte
        BY <1>8, <1>11
    <2>4. t \in Seq(PipeByte) /\ Len(t) = n - 1
        BY <1>8, <2>3
    <2>5. \A k \in 1 .. n - 1 : t[k] = Contents[k + 1]
        OBVIOUS
    <2> HIDE DEF t
    <2> QED BY <2>2, <2>4, <2>5, SeqEqual, Zenon DEF t
<1>13. ASSUME NEW k \in 1 .. n - 1 PROVE Contents[k + 1] = pdata[(nread + k) % PIPESIZE]
    <2>1. k + 1 \in 1 .. n /\ nread + (k + 1) - 1 = nread + k
        BY <1>8 DEF RingInv
    <2> QED BY <2>1 DEF Contents
<1> HIDE DEF n
<1>14. Contents' = Tail(Contents)
    BY <1>9, <1>10, <1>12, <1>13
<1>15. Contents # <<>>
    BY <1>8, <1>11
<1> QED BY <1>7, <1>14, <1>15

\* Every other step leaves the ring alone.
LEMMA RingStep ==
    ASSUME RingInv, [PipeNext]_pipevars
    PROVE  RingInv' /\ [F!FNext]_Contents
<1>1. ASSUME NEW p \in PipeUser, NEW b \in PipeByte, WriteByte(p, b)
      PROVE  RingInv' /\ F!FNext
    <2>1. RingInv' /\ Stored < PIPESIZE /\ Contents' = Append(Contents, b)
        BY <1>1, WriteByteStep
    <2>2. Len(Contents) = Stored
        BY DEF Contents, RingInv
    <2>3. F!Put(b)
        BY <2>1, <2>2 DEF F!Put
    <2> QED BY <2>1, <2>3 DEF F!FNext
<1>2. ASSUME NEW p \in PipeUser, ReadByte(p) PROVE RingInv' /\ F!FNext
    <2>1. RingInv' /\ F!Get
        BY <1>2, ReadByteStep DEF F!Get
    <2> QED BY <2>1 DEF F!FNext
<1>3. ASSUME UNCHANGED pipe PROVE RingInv' /\ UNCHANGED Contents
    BY <1>3 DEF pipe, RingInv, Contents, Stored
<1>4. ASSUME NEW p \in PipeUser, PipeKernel(p), ~ReadByte(p), ~\E b \in PipeByte : WriteByte(p, b)
      PROVE  UNCHANGED pipe
    BY <1>4, Zenon DEF PipeKernel, WriteFail, WriteFull, WriteDone, ReadFail, ReadEmpty, ReadReady,
        ReadDone, Sleep, Reacquire, PipeClose
<1>5. ASSUME NEW p \in PipeUser, NEW k \in 0 .. MaxCount, WriteCall(p, k) \/ ReadCall(p, k)
      PROVE  UNCHANGED pipe
    BY <1>5 DEF WriteCall, ReadCall
<1>6. ASSUME NEW p \in PipeUser,
             KillUser(p) \/ (\E q \in PipeUser : PipeFork(p, q)) \/ (\E e \in PipeEnds : CloseEnd(p, e))
      PROVE  UNCHANGED pipe
    BY <1>6 DEF KillUser, PipeFork, CloseEnd
<1>7. CASE UNCHANGED pipevars
    BY <1>7, <1>3 DEF pipevars
<1> QED BY <1>1, <1>2, <1>3, <1>4, <1>5, <1>6, <1>7 DEF PipeNext

\* pipealloc() makes an empty queue.
LEMMA RingStarts == PipeInit => RingInv /\ F!FInit
<1> SUFFICES ASSUME PipeInit PROVE RingInv /\ F!FInit
    OBVIOUS
<1>1. Stored = 0
    BY PipeSizeAssumption, ModDiff DEF PipeInit, Stored
<1>2. Contents = <<>>
    BY <1>1 DEF Contents
<1> QED BY <1>1, <1>2, PipeSizeAssumption DEF PipeInit, RingInv, F!FInit

\* A pipe is a bounded queue: piperead() returns the bytes that pipewrite() put
\* in, each once and in order, whichever processes read and write and however
\* often the counters wrap.
THEOREM PipeIsFifo == PipeSpec => IsFifo
<1>1. PipeInit => RingInv /\ F!FInit
    BY RingStarts
<1>2. RingInv /\ [PipeNext]_pipevars => RingInv' /\ [F!FNext]_Contents
    BY RingStep
<1> QED BY <1>1, <1>2, PTL DEF PipeSpec, IsFifo, F!FSpec

\* The bytes that a call has still to move, and the page.
CallTypes == freed \in BOOLEAN /\ left \in [PipeUser -> 0 .. MaxCount]

\* Every step keeps them.
LEMMA CallTypesStep == CallTypes /\ [PipeNext]_pipevars => CallTypes'
<1> SUFFICES ASSUME CallTypes, [PipeNext]_pipevars PROVE CallTypes'
    OBVIOUS
<1> USE MaxCountAssumption DEF CallTypes
<1>1. CASE UNCHANGED pipevars
    BY <1>1 DEF pipevars
<1>2. ASSUME NEW p \in PipeUser, PipeKernel(p) PROVE CallTypes'
    <2>1. CASE WriteFail(p) \/ ReadFail(p)
        BY <2>1 DEF WriteFail, ReadFail
    <2>2. CASE ReadEmpty(p) \/ ReadReady(p) \/ WriteFull(p) \/ Sleep(p) \/ Reacquire(p)
        BY <2>2 DEF ReadEmpty, ReadReady, WriteFull, Sleep, Reacquire
    <2>3. CASE WriteDone(p) \/ ReadDone(p)
        BY <2>3 DEF WriteDone, ReadDone
    <2>4. CASE ReadByte(p)
        BY <2>4 DEF ReadByte
    <2>5. CASE \E b \in PipeByte : WriteByte(p, b)
        BY <2>5 DEF WriteByte
    <2>6. CASE PipeClose(p)
        BY <2>6 DEF PipeClose
    <2> QED BY <1>2, <2>1, <2>2, <2>3, <2>4, <2>5, <2>6, Zenon DEF PipeKernel
<1>3. ASSUME NEW p \in PipeUser, NEW k \in 0 .. MaxCount, WriteCall(p, k) \/ ReadCall(p, k)
      PROVE  CallTypes'
    BY <1>3 DEF WriteCall, ReadCall
<1>4. ASSUME NEW p \in PipeUser,
             KillUser(p) \/ (\E q \in PipeUser : PipeFork(p, q)) \/ (\E e \in PipeEnds : CloseEnd(p, e))
      PROVE  CallTypes'
    BY <1>4 DEF KillUser, PipeFork, CloseEnd
<1> HIDE DEF CallTypes
<1> QED BY <1>1, <1>2, <1>3, <1>4 DEF PipeNext

\* The fields of struct pipe and the locals of its callers have their types; a
\* call never moves more bytes than it was asked to.
THEOREM PipeTypes == PipeSpec => []PipeTypeOK
<1>1. PipeInit => CallTypes /\ RingInv
    <2>1. PipeInit => CallTypes
        <3>1. 0 \in 0 .. MaxCount
            BY MaxCountAssumption
        <3> QED BY <3>1, Zenon DEF PipeInit, CallTypes
    <2> QED BY <2>1, RingStarts
<1>2. CallTypes /\ RingInv /\ [PipeNext]_pipevars => CallTypes' /\ RingInv'
    BY CallTypesStep, RingStep
<1>3. CallTypes /\ RingInv /\ PipeInv => PipeTypeOK
    BY DEF CallTypes, RingInv, PipeInv, UserTypes, PipeTypeOK
<1> QED BY <1>1, <1>2, <1>3, PipeInductive, PTL DEF PipeSpec
=============================================================================
