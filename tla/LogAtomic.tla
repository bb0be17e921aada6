----------------------------- MODULE LogAtomic ------------------------------
(***************************************************************************)
(* The log implements AtomicDisk, for every number of processes, blocks    *)
(* and contents, as long as no transaction is longer than the log's area;  *)
(* and begin_op()'s reservation sees to that, for any number of calls at   *)
(* a time, if a call leaves one of its MAXOPBLOCKS unused.                 *)
(***************************************************************************)
EXTENDS LogSteps

-----------------------------------------------------------------------------
(* The steps of Log, mapped to those of AtomicDisk *)

\* Recovered, of disk contents d and a header h on it.
RecoveredOf(d, h) ==
    [b \in Home |-> IF b \in Logged(h)
                    THEN d[CHOOSE i \in 1 .. Len(h) : h[i] = b]
                    ELSE d[b]]

\* The blocks as the file system reads them.
Mem == IF boot = "up" THEN [b \in Home |-> cache[b]] ELSE Recovered

\* Recovery takes a block from the log if the header has it, ...
LEMMA RecoveredLogged ==
    ASSUME NEW d, NEW h, Distinct(h), NEW i \in 1 .. Len(h), h[i] \in Home
    PROVE  RecoveredOf(d, h)[h[i]] = d[i]
<1>1. h[i] \in Logged(h)
    BY DEF Logged
<1>2. (CHOOSE j \in 1 .. Len(h) : h[j] = h[i]) = i
    BY DEF Distinct
<1> QED BY <1>1, <1>2, Zenon DEF RecoveredOf

\* ... and leaves it as it is if not.
LEMMA RecoveredOther ==
    ASSUME NEW d, NEW h, NEW b \in Home, b \notin Logged(h)
    PROVE  RecoveredOf(d, h)[b] = d[b]
BY DEF RecoveredOf

\* With an empty header, recovery changes nothing.
LEMMA RecoveredEmpty == ASSUME NEW d PROVE RecoveredOf(d, <<>>) = [b \in Home |-> d[b]]
<1>1. Logged(<<>>) = {}
    BY EmptySeq DEF Logged
<1> QED BY <1>1 DEF RecoveredOf

\* A copy from the log to its home does not change what recovery yields.
LEMMA RecoveredInstall ==
    ASSUME NEW d \in [Addr -> Val], NEW h \in Seq(Home), Distinct(h), Len(h) <= NLog - 1,
           NEW k \in 1 .. Len(h), NEW v
    PROVE  RecoveredOf([d EXCEPT ![h[k]] = v], h) = RecoveredOf(d, h)
<1> DEFINE e == [d EXCEPT ![h[k]] = v]
<1>1. \A i \in 1 .. Len(h) : i \in Addr /\ i \notin Home /\ h[i] \in Home
    BY LogAddresses
<1>2. ASSUME NEW b \in Home PROVE RecoveredOf(e, h)[b] = RecoveredOf(d, h)[b]
    <2>1. CASE b \in Logged(h)
        <3>1. PICK i \in 1 .. Len(h) : h[i] = b
            BY <2>1 DEF Logged
        <3>2. e[i] = d[i]
            BY <1>1
        <3> HIDE DEF e
        <3> QED BY <1>1, <3>1, <3>2, RecoveredLogged
    <2>2. CASE b \notin Logged(h)
        <3>1. b # h[k] /\ b \in Addr
            BY <2>2, SizeAssumption DEF Logged, Home, Addr
        <3>2. e[b] = d[b]
            BY <3>1
        <3> HIDE DEF e
        <3> QED BY <2>2, <3>2, RecoveredOther
    <2> QED BY <2>1, <2>2
<1> HIDE DEF e
<1>3. RecoveredOf(e, h) = [b \in Home |-> RecoveredOf(e, h)[b]]
    BY DEF RecoveredOf
<1>4. RecoveredOf(d, h) = [b \in Home |-> RecoveredOf(d, h)[b]]
    BY DEF RecoveredOf
<1>5. RecoveredOf(e, h) = RecoveredOf(d, h)
    BY <1>2, <1>3, <1>4
<1> QED BY <1>5 DEF e

\* Where every block of the header has contents c, in the log, and every other
\* one has them at home, recovery yields c.
LEMMA RecoveredIs ==
    ASSUME NEW d, NEW c, NEW h \in Seq(Home), Distinct(h),
           \A i \in 1 .. Len(h) : d[i] = c[h[i]],
           \A b \in Home \ Logged(h) : d[b] = c[b]
    PROVE  RecoveredOf(d, h) = [b \in Home |-> c[b]]
<1>1. ASSUME NEW b \in Home PROVE RecoveredOf(d, h)[b] = c[b]
    <2>1. CASE b \in Logged(h)
        <3>1. PICK i \in 1 .. Len(h) : h[i] = b
            BY <2>1 DEF Logged
        <3> QED BY <3>1, RecoveredLogged
    <2>2. CASE b \notin Logged(h)
        BY <2>2, RecoveredOther
    <2> QED BY <2>1, <2>2
<1>2. RecoveredOf(d, h) = [b \in Home |-> RecoveredOf(d, h)[b]]
    BY DEF RecoveredOf
<1> QED BY <1>1, <1>2

-----------------------------------------------------------------------------

\* mkfs's disk and the cache after the first boot satisfy the invariant.
LEMMA LogInitInv == Init => LogInv
<1> SUFFICES ASSUME Init PROVE LogInv
    OBVIOUS
<1>a. <<>> \in Seq(Home) /\ Len(<<>>) = 0 /\ Logged(<<>>) = {} /\ Distinct(<<>>)
    BY EmptySeq DEF Logged, Distinct
<1>1. InCall = {}
    BY DEF Init, InCall
<1>2. CountInv
    BY <1>1, FS_EmptySet DEF Init, CountInv
<1>3. CtlInv
    BY <1>a, Zenon DEF Init, CtlInv, Places, Committing, SleeperHasWaker
<1>4. LoopInv
    BY <1>a, SizeAssumption DEF Init, LoopInv, Committing
<1>5. DataInv
    BY <1>a DEF Init, DataInv
<1> QED BY <1>2, <1>3, <1>4, <1>5 DEF LogInv

\* The initial states of Log are initial states of AtomicDisk.
LEMMA AtomicInit == Init => Abstract!AInit
<1> SUFFICES ASSUME Init PROVE Abstract!AInit
    OBVIOUS
<1>1. InCall = {} /\ head = <<>> /\ boot = "up" /\ cache = disk
    BY DEF Init, InCall
<1>2. Recovered = RecoveredOf(disk, head)
    BY DEF Recovered, RecoveredOf
<1>3. Recovered = [b \in Home |-> disk[b]]
    BY <1>1, <1>2, RecoveredEmpty
<1>4. \A b \in Home : disk[b] \in Val
    BY SizeAssumption DEF Init, Home, Addr
<1>5. [b \in Home |-> cache[b]] \in [Home -> Val]
    BY <1>1, <1>4
<1> QED BY <1>1, <1>3, <1>5 DEF Abstract!AInit

\* Every step of Log is a step of AtomicDisk or changes nothing there: the
\* transaction becomes durable when the header is written, and installing it,
\* clearing the header, recovery and eviction change nothing.
LEMMA AtomicStep == LogInv /\ InLogArea /\ [Next]_vars => [Abstract!ANext]_(Abstract!avars)
<1> SUFFICES ASSUME LogInv, InLogArea, [Next]_vars PROVE [Abstract!ANext]_(Abstract!avars)
    OBVIOUS
<1>a. CtlInv /\ CountInv /\ LoopInv /\ DataInv
    BY DEF LogInv
<1>b. pc \in [Proc -> Places] /\ cache \in [Addr -> Val] /\ disk \in [Addr -> Val]
    BY <1>a DEF CtlInv, DataInv
<1>h. lh \in Seq(Home) /\ Distinct(lh) /\ Len(lh) <= NLog - 1
    BY <1>a DEF CtlInv, LoopInv, InLogArea
<1>c. \A p \in Proc : pc[p] \in {"op", "append", "panic"} \cup Committing => boot = "up"
    BY <1>a, CountZero DEF InCall, CtlInv
<1>d. \A p \in Proc : pc[p] \in Committing => InCall = {}
    BY <1>a, CountZero DEF CtlInv
<1>e. Recovered = RecoveredOf(disk, head) /\ Recovered' = RecoveredOf(disk', head')
    BY DEF Recovered, RecoveredOf
<1>f. Home \subseteq Addr
    BY SizeAssumption DEF Home, Addr
<1>g. \A p \in Proc : pc[p] \in {"write_log", "write_head"} => head = <<>>
    BY <1>a, <1>c DEF CtlInv, LoopInv, Committing
<1>s. ASSUME Mem' = Mem, Recovered' = Recovered, InCall' = InCall
      PROVE  [Abstract!ANext]_(Abstract!avars)
    BY <1>s DEF Abstract!avars, Mem
<1> USE DEF Mem
<1>1. CASE UNCHANGED vars
    BY <1>b, <1>1, <1>e, <1>s DEF vars, InCall
<1>2. ASSUME NEW p \in Proc, BeginOp(p) PROVE Abstract!ABegin(p)
    <2>1. p \notin InCall /\ InCall' = InCall \cup {p}
        BY <1>b, <1>2 DEF BeginOp, Goto, InCall
    <2>2. Mem' = Mem /\ Recovered' = Recovered
        BY <1>2, <1>e DEF BeginOp
    <2> QED BY <2>1, <2>2 DEF Abstract!ABegin
<1>3. ASSUME NEW p \in Proc, BeginSleep(p) PROVE [Abstract!ANext]_(Abstract!avars)
    <2>1. Mem' = Mem /\ Recovered' = Recovered
        BY <1>3, <1>e DEF BeginSleep
    <2>2. InCall' = InCall
        BY <1>b, <1>3 DEF BeginSleep, Goto, InCall
    <2> QED BY <2>1, <2>2, <1>s
<1>4. ASSUME NEW p \in Proc, NEW b \in Home, LogWrite(p, b) \/ LogPanic(p, b)
      PROVE  [Abstract!ANext]_(Abstract!avars)
    <2>1. Mem' = Mem /\ Recovered' = Recovered
        BY <1>4, <1>e DEF LogWrite, LogPanic
    <2>2. InCall' = InCall
        BY <1>b, <1>4 DEF LogWrite, LogPanic, MayWrite, Goto, InCall
    <2> QED BY <2>1, <2>2, <1>s
<1>5. ASSUME NEW p \in Proc, NEW v \in Val, LogAppend(p, v)
      PROVE  held[p] \in Home /\ Abstract!AWrite(p, held[p], v)
    <2>1. held[p] \in Home
        BY <1>a, <1>5 DEF LogAppend, CtlInv
    <2>2. p \in InCall /\ InCall' = InCall
        BY <1>b, <1>5 DEF LogAppend, Goto, InCall
    <2>3. Recovered' = Recovered /\ boot = "up" /\ boot' = "up"
        BY <1>5, <1>c, <1>e DEF LogAppend
    <2>4. cache' = [cache EXCEPT ![held[p]] = v]
        BY <1>5 DEF LogAppend
    <2>5. [b \in Home |-> cache'[b]] = [[b \in Home |-> cache[b]] EXCEPT ![held[p]] = v]
        BY <1>b, <1>f, <2>1, <2>4, Zenon
    <2> QED BY <2>1, <2>2, <2>3, <2>5 DEF Abstract!AWrite
<1>6. ASSUME NEW p \in Proc, EndOp(p) \/ EndOpCommit(p) PROVE Abstract!AEnd(p)
    <2>1. p \in InCall
        BY <1>b, <1>6 DEF EndOp, EndOpCommit, InCall
    <2>2. InCall' = InCall \ {p}
        <3>1. CASE EndOp(p)
            BY <1>b, <3>1 DEF EndOp, WakeupAnd, InCall
        <3>2. CASE EndOpCommit(p)
            BY <1>b, <3>2 DEF EndOpCommit, Goto, InCall
        <3> QED BY <1>6, <3>1, <3>2
    <2>3. Mem' = Mem /\ Recovered' = Recovered
        BY <1>6, <1>e DEF EndOp, EndOpCommit
    <2> QED BY <2>1, <2>2, <2>3 DEF Abstract!AEnd
<1>7. ASSUME NEW p \in Proc, WriteLog(p) PROVE [Abstract!ANext]_(Abstract!avars)
    <2>1. head = <<>> /\ head' = <<>> /\ boot = "up" /\ boot' = "up"
        BY <1>7, <1>c, <1>g DEF WriteLog, Committing
    <2>2. tail \notin Home
        <3>1. lh # <<>> /\ Len(lh) \in Nat \ {0}
            BY <1>h, <1>a, <1>7, EmptySeq DEF WriteLog, LoopInv, Committing
        <3>2. tail \in 1 .. Len(lh)
            BY <1>h, <1>a, <3>1 DEF LoopInv
        <3> QED BY <1>h, <3>2, LogAddresses
    <2>3. \A b \in Home : cache'[b] = cache[b] /\ disk'[b] = disk[b]
        BY <1>b, <1>7, <1>f, <2>2 DEF WriteLog, Bwrite
    <2>4. Mem' = Mem
        BY <2>1, <2>3
    <2>5. Recovered' = Recovered
        BY <1>e, <2>1, <2>3, RecoveredEmpty
    <2>6. InCall' = InCall
        BY <1>b, <1>7 DEF WriteLog, Advance, Goto, InCall
    <2> QED BY <2>4, <2>5, <2>6, <1>s
<1>8. ASSUME NEW p \in Proc, WriteHead(p) PROVE Abstract!ACommit
    <2>1. InCall = {} /\ InCall' = InCall
        BY <1>b, <1>8, <1>d DEF WriteHead, Goto, InCall, Committing
    <2>2. boot = "up" /\ boot' = "up" /\ cache' = cache
        BY <1>8, <1>c DEF WriteHead, Committing
    <2>3. \A i \in 1 .. Len(lh) : disk[i] = cache[lh[i]]
        BY <1>a, <1>8 DEF WriteHead, DataInv
    <2>4. \A b \in Home \ Logged(lh) : disk[b] = cache[b]
        BY <1>a, <1>f DEF DataInv
    <2>5. RecoveredOf(disk, lh) = [b \in Home |-> cache[b]]
        BY <1>h, <2>3, <2>4, RecoveredIs
    <2>6. Recovered' = [b \in Home |-> cache[b]]
        BY <1>8, <1>e, <2>5 DEF WriteHead
    <2> QED BY <2>1, <2>2, <2>6 DEF Abstract!ACommit
<1>9. ASSUME NEW p \in Proc, InstallTrans(p) PROVE [Abstract!ANext]_(Abstract!avars)
    <2>1. /\ tail \in 1 .. Len(lh) /\ cache' = cache
          /\ disk' = [disk EXCEPT ![lh[tail]] = cache[lh[tail]]]
        BY <1>a, <1>9, InstallSame
    <2>2. head = lh /\ head' = lh /\ boot' = boot
        BY <1>a, <1>9 DEF InstallTrans, LoopInv
    <2>3. Recovered' = Recovered
        BY <1>b, <1>h, <1>e, <2>1, <2>2, RecoveredInstall, Zenon
    <2>4. Mem' = Mem
        BY <2>1, <2>2, <2>3
    <2>5. InCall' = InCall
        BY <1>b, <1>9 DEF InstallTrans, Advance, Goto, InCall
    <2> QED BY <2>3, <2>4, <2>5, <1>s
<1>10. ASSUME NEW p \in Proc, ClearHead(p) PROVE [Abstract!ANext]_(Abstract!avars)
    <2>1. head = lh /\ head' = <<>> /\ disk' = disk /\ cache' = cache /\ boot' = boot
        BY <1>a, <1>10 DEF ClearHead, LoopInv
    <2>2. \A b \in Home : cache[b] = disk[b]
        BY <1>a, <1>10, <1>f DEF ClearHead, DataInv
    <2>3. \A i \in 1 .. Len(lh) : lh[i] \in Home /\ disk[i] = cache[lh[i]]
        BY <1>h, <1>a, <1>10, ElementOfSeq DEF ClearHead, DataInv
    <2>4. RecoveredOf(disk, lh) = [b \in Home |-> disk[b]]
        BY <1>h, <2>2, <2>3, RecoveredIs
    <2>5. Recovered' = Recovered
        BY <1>e, <2>1, <2>4, RecoveredEmpty
    <2>6. Mem' = Mem
        BY <2>1, <2>5
    <2>7. InCall' = InCall
        BY <1>b, <1>10 DEF ClearHead, Goto, InCall
    <2> QED BY <2>5, <2>6, <2>7, <1>s
<1>11. ASSUME NEW p \in Proc, EndOpDone(p) PROVE [Abstract!ANext]_(Abstract!avars)
    <2>1. Mem' = Mem /\ Recovered' = Recovered
        BY <1>11, <1>e DEF EndOpDone
    <2>2. InCall' = InCall
        BY <1>b, <1>11 DEF EndOpDone, WakeupAnd, InCall
    <2> QED BY <2>1, <2>2, <1>s
<1>12. ASSUME NEW b \in Home, Evict(b) PROVE [Abstract!ANext]_(Abstract!avars)
    <2>1. cache' = cache
        BY <1>a, <1>12, EvictSame
    <2>2. Mem' = Mem /\ Recovered' = Recovered /\ InCall' = InCall
        BY <1>b, <1>12, <1>e, <2>1 DEF Evict, InCall
    <2> QED BY <2>2, <1>s
<1>13. CASE Crash
    <2>1. Recovered' = Recovered /\ Mem' = Recovered /\ InCall' = {}
        BY <1>b, <1>13, <1>e DEF Crash, InCall
    <2>2. Abstract!ACrash
        BY <2>1 DEF Abstract!ACrash
    <2> QED BY <2>2 DEF Abstract!ANext
<1>14. CASE ReadHead
    <2>1. Recovered' = Recovered /\ Mem' = Mem /\ InCall' = InCall
        BY <1>b, <1>14, <1>e DEF ReadHead, InCall
    <2> QED BY <2>1, <1>s
<1>15. CASE Recover
    <2>1. tail \in 1 .. Len(lh) /\ head = lh /\ head' = lh /\ boot # "up" /\ boot' # "up"
        BY <1>h, <1>a, <1>15, EmptySeq DEF Recover, LoopInv
    <2>2. disk' = [disk EXCEPT ![lh[tail]] = cache[tail]]
        BY <1>15 DEF Recover, Bwrite
    <2>3. Recovered' = Recovered
        BY <1>b, <1>h, <1>e, <2>1, <2>2, RecoveredInstall, Zenon
    <2>4. Mem' = Mem /\ InCall' = InCall
        BY <1>b, <1>15, <2>1, <2>3 DEF Recover, InCall
    <2> QED BY <2>3, <2>4, <1>s
<1>16. CASE RecoverClear
    <2>1. head = lh /\ head' = <<>> /\ disk' = disk /\ cache' = cache /\ boot = "clear" /\ boot' = "up"
        BY <1>a, <1>16 DEF RecoverClear, LoopInv
    <2>2. \A b \in Home : cache[b] = disk[b]
        BY <1>b, <1>a, <1>f, <2>1 DEF DataInv
    <2>3. \A i \in 1 .. Len(lh) : disk[i] = disk[lh[i]]
        BY <1>a, <2>1 DEF DataInv
    <2>4. RecoveredOf(disk, lh) = [b \in Home |-> disk[b]]
        BY <1>h, <2>3, RecoveredIs
    <2>5. Recovered' = Recovered /\ Recovered = [b \in Home |-> disk[b]]
        BY <1>e, <2>1, <2>4, RecoveredEmpty
    <2>6. Mem' = Mem
        BY <2>1, <2>2, <2>5
    <2>7. InCall' = InCall
        BY <1>b, <1>16 DEF RecoverClear, InCall
    <2> QED BY <2>5, <2>6, <2>7, <1>s
<1> QED BY <1>1, <1>2, <1>3, <1>4, <1>5, <1>6, <1>7, <1>8, <1>9, <1>10, <1>11, <1>12, <1>13, <1>14,
           <1>15, <1>16 DEF Next, Commit, Abstract!ANext

-----------------------------------------------------------------------------

\* The invariant holds as long as the log is not overrun.
LEMMA LogInductive == Spec /\ []InLogArea => []LogInv
<1>1. LogInv /\ InLogArea /\ [Next]_vars => LogInv'
    BY CountStep, CtlStep, LoopStep, DataStep DEF LogInv
<1> QED BY LogInitInv, <1>1, PTL DEF Spec

\* begin_op() never sleeps with nobody to wake it, whatever is written and
\* whenever the machine crashes.
THEOREM BeginOpWoken == Spec => []SleeperHasWaker
<1>1. Init => CtlInv /\ CountInv
    BY LogInitInv DEF LogInv
<1>2. CtlInv /\ CountInv /\ [Next]_vars => CtlInv' /\ CountInv'
    BY CountStep, CtlStep
<1>3. CtlInv => SleeperHasWaker
    BY DEF CtlInv
<1> QED BY <1>1, <1>2, <1>3, PTL DEF Spec

\* log.c is all or nothing across crashes, at any point of a commit and of
\* recovery, as long as no transaction overruns the log's area.
THEOREM LogIsAtomic == Spec /\ []InLogArea => AtomicCommit
<1>1. LogInv /\ InLogArea /\ [Next]_vars => [Abstract!ANext]_(Abstract!avars)
    BY AtomicStep
<1> QED BY LogInductive, AtomicInit, <1>1, PTL DEF Spec, AtomicCommit, Abstract!ASpec

-----------------------------------------------------------------------------
(* begin_op()'s reservation *)

\* The blocks logged by the active system calls, each with the call.
Writes == {x \in InCall \X Home : x[2] \in wrote[x[1]]}

\* What is logged and what is reserved fit into the log together, where a
\* call's own blocks count as part of its reservation.
RoomInv ==
    /\ wrote \in [Proc -> SUBSET Home]
    /\ \A p \in Proc : pc[p] \notin {"op", "append", "panic"} => wrote[p] = {}
    /\ \A p \in Proc : wrote[p] \subseteq Logged(lh)
    /\ \A p \in Proc : Cardinality(wrote[p]) <= OpWrites
    /\ \A p \in Proc : pc[p] = "append" => held[p] \in wrote[p] \/ Cardinality(wrote[p]) < OpWrites
    /\ boot = "up" => Len(lh) + outstanding * MAXOPBLOCKS <= LOGSIZE + Cardinality(Writes)

-----------------------------------------------------------------------------

\* There are finitely many blocks.
LEMMA HomeFinite == IsFiniteSet(Home) /\ \A S \in SUBSET Home : IsFiniteSet(S) /\ Cardinality(S) \in Nat
<1>1. IsFiniteSet(Home)
    BY FS_Interval, SizeAssumption DEF Home
<1> QED BY <1>1, FS_Subset, FS_CardinalityType

\* ... and finitely many logged ones.
LEMMA WritesFinite == ASSUME CountInv PROVE IsFiniteSet(Writes) /\ Cardinality(Writes) \in Nat
<1>1. IsFiniteSet(InCall \X Home)
    BY HomeFinite, FS_Product DEF CountInv
<1>2. Writes \in SUBSET (InCall \X Home)
    BY DEF Writes
<1> QED BY <1>1, <1>2, FS_Subset, FS_CardinalityType

\* The active calls together log at most OpWrites blocks each.
LEMMA WritesBound ==
    ASSUME CountInv, RoomInv
    PROVE  Cardinality(Writes) <= outstanding * OpWrites
<1> DEFINE T == 1 .. OpWrites
           F(p) == CHOOSE f \in [wrote[p] -> T] : \A a, b \in wrote[p] : f[a] = f[b] => a = b
           G == [x \in Writes |-> <<x[1], F(x[1])[x[2]]>>]
<1>1. IsFiniteSet(T) /\ Cardinality(T) = OpWrites
    BY FS_Interval, SizeAssumption
<1>2. ASSUME NEW p \in Proc
      PROVE  /\ F(p) \in [wrote[p] -> T]
             /\ \A a, b \in wrote[p] : F(p)[a] = F(p)[b] => a = b
    <2> DEFINE n == Cardinality(wrote[p])
    <2>1. IsFiniteSet(wrote[p]) /\ n \in Nat /\ n <= OpWrites
        BY HomeFinite DEF RoomInv
    <2>2. IsFiniteSet(1 .. n) /\ Cardinality(1 .. n) = n
        BY <2>1, FS_Interval
    <2>3. ExistsBijection(wrote[p], 1 .. n)
        BY <2>1, <2>2, FS_SameCardinalityBij
    <2>4. PICK f \in [wrote[p] -> 1 .. n] : \A a, b \in wrote[p] : f[a] = f[b] => a = b
        BY <2>3 DEF ExistsBijection, Bijection, Injection, IsInjective
    <2>5. f \in [wrote[p] -> T]
        BY <2>1, SizeAssumption
    <2> HIDE DEF T
    <2> QED BY <2>4, <2>5
<1>3. InCall \subseteq Proc
    BY DEF InCall
<1> HIDE DEF T, F
<1>4. G \in [Writes -> InCall \X T]
    BY <1>2, <1>3 DEF Writes
<1>5. \A x, y \in Writes : G[x] = G[y] => x = y
    <2> SUFFICES ASSUME NEW x \in Writes, NEW y \in Writes, G[x] = G[y] PROVE x = y
        OBVIOUS
    <2>1. /\ x = <<x[1], x[2]>> /\ x[1] \in InCall /\ x[2] \in wrote[x[1]]
          /\ y = <<y[1], y[2]>> /\ y[1] \in InCall /\ y[2] \in wrote[y[1]]
        BY DEF Writes
    <2>2. x[1] = y[1] /\ F(x[1])[x[2]] = F(y[1])[y[2]]
        OBVIOUS
    <2>3. x[2] = y[2]
        BY <1>2, <1>3, <2>1, <2>2
    <2> QED BY <2>1, <2>2, <2>3
<1>6. G \in Injection(Writes, InCall \X T)
    BY <1>4, <1>5 DEF Injection, IsInjective
<1>7. IsFiniteSet(InCall \X T) /\ Cardinality(InCall \X T) = outstanding * OpWrites
    BY <1>1, FS_Product DEF CountInv
<1> HIDE DEF G
<1> QED BY <1>6, <1>7, FS_Injection

\* While calls are active, the log has room.
LEMMA RoomIsEnough ==
    ASSUME OpWrites < MAXOPBLOCKS, LOGSIZE <= NLog,
           CtlInv, CountInv, RoomInv, boot = "up", outstanding > 0
    PROVE  InLogArea
<1>1. outstanding \in Nat /\ Len(lh) \in Nat
    BY LenProperties DEF CtlInv
<1>2. Cardinality(Writes) \in Nat /\ Cardinality(Writes) <= outstanding * OpWrites
    BY WritesFinite, WritesBound
<1>3. OpWrites \in Nat /\ MAXOPBLOCKS \in Nat /\ LOGSIZE \in Nat /\ NLog \in Nat
    BY SizeAssumption
<1>4. Len(lh) + outstanding * MAXOPBLOCKS <= LOGSIZE + Cardinality(Writes)
    BY DEF RoomInv
<1>5. outstanding * (OpWrites + 1) <= outstanding * MAXOPBLOCKS
    BY <1>1, <1>3
<1>6. outstanding * (OpWrites + 1) = outstanding * OpWrites + outstanding
    BY <1>1, <1>3
<1>7. outstanding * OpWrites \in Nat /\ outstanding * MAXOPBLOCKS \in Nat
    BY <1>1, <1>3
<1>8. Len(lh) + outstanding <= LOGSIZE
    BY <1>1, <1>2, <1>3, <1>4, <1>5, <1>6, <1>7
<1> QED BY <1>1, <1>3, <1>8 DEF InLogArea

\* A call that ends gives back its reservation, and its blocks with it.
LEMMA EndRoom ==
    ASSUME CtlInv, CountInv, RoomInv, OpWrites < MAXOPBLOCKS,
           NEW p \in Proc, EndOp(p) \/ EndOpCommit(p)
    PROVE  RoomInv'
<1> DEFINE own == {p} \X wrote[p]
<1>a. /\ pc \in [Proc -> Places] /\ outstanding \in Nat /\ boot = "up" /\ Len(lh) \in Nat
      /\ OpWrites \in Nat /\ MAXOPBLOCKS \in Nat /\ LOGSIZE \in Nat
    BY CountZero, LenProperties, SizeAssumption DEF CtlInv, EndOp, EndOpCommit, InCall
<1>b. /\ wrote \in [Proc -> SUBSET Home]
      /\ Len(lh) + outstanding * MAXOPBLOCKS <= LOGSIZE + Cardinality(Writes)
    BY <1>a DEF RoomInv
<1>1. /\ outstanding > 0 /\ outstanding' = outstanding - 1
      /\ wrote' = [wrote EXCEPT ![p] = {}]
      /\ lh' = lh /\ held' = held /\ boot' = boot
    BY <1>a DEF EndOp, EndOpCommit
<1>2. InCall' = InCall \ {p}
    <2>1. CASE EndOp(p)
        BY <1>a, <2>1 DEF EndOp, WakeupAnd, InCall
    <2>2. CASE EndOpCommit(p)
        BY <1>a, <2>2 DEF EndOpCommit, Goto, InCall
    <2> QED BY <2>1, <2>2
<1>3. Writes' = Writes \ own
    <2>1. InCall \subseteq Proc
        BY DEF InCall
    <2>2. \A x \in Proc \X Home : x \in Writes' <=> x \in Writes \ own
        <3> SUFFICES ASSUME NEW q \in Proc, NEW a \in Home
                     PROVE  <<q, a>> \in Writes' <=> <<q, a>> \in Writes \ own
            OBVIOUS
        <3>1. <<q, a>> \in Writes <=> q \in InCall /\ a \in wrote[q]
            BY DEF Writes
        <3>2. <<q, a>> \in Writes' <=> q \in InCall' /\ a \in wrote'[q]
            BY DEF Writes
        <3> QED BY <1>a, <1>b, <1>1, <1>2, <3>1, <3>2
    <2>3. Writes' \subseteq Proc \X Home /\ (Writes \ own) \subseteq Proc \X Home
        BY <1>a, <1>2, <2>1 DEF Writes
    <2> QED BY <2>2, <2>3
<1>4. IsFiniteSet(own) /\ Cardinality(own) = Cardinality(wrote[p]) /\ Cardinality(own) \in Nat
    <2>1. IsFiniteSet(wrote[p]) /\ Cardinality(wrote[p]) \in Nat
        BY <1>b, HomeFinite
    <2>2. IsFiniteSet({p}) /\ Cardinality({p}) = 1
        BY FS_Singleton, Zenon
    <2>3. IsFiniteSet(own) /\ Cardinality(own) = Cardinality({p}) * Cardinality(wrote[p])
        BY <2>1, <2>2, FS_Product
    <2> HIDE DEF own
    <2> QED BY <2>1, <2>2, <2>3
<1>5. Cardinality(wrote[p]) <= OpWrites
    BY DEF RoomInv
<1>6. Cardinality(Writes') >= Cardinality(Writes) - OpWrites /\ Cardinality(Writes') \in Nat
    <2> HIDE DEF own
    <2>1. IsFiniteSet(Writes) /\ Cardinality(Writes) \in Nat
        BY WritesFinite
    <2>2. /\ IsFiniteSet(Writes \ own)
          /\ Cardinality(Writes \ own) = Cardinality(Writes) - Cardinality(Writes \cap own)
        BY <2>1, FS_Difference, Zenon
    <2>3. Cardinality(Writes \cap own) <= Cardinality(own) /\ IsFiniteSet(Writes \cap own)
        BY <1>4, FS_Intersection
    <2>4. Cardinality(Writes \cap own) \in Nat /\ Cardinality(Writes \ own) \in Nat
        BY <2>2, <2>3, FS_CardinalityType
    <2> QED BY <1>a, <1>3, <1>4, <1>5, <2>1, <2>2, <2>3, <2>4
<1>7. (outstanding - 1) * MAXOPBLOCKS = outstanding * MAXOPBLOCKS - MAXOPBLOCKS
    BY <1>a
<1>8. Len(lh') + outstanding' * MAXOPBLOCKS <= LOGSIZE + Cardinality(Writes')
    <2>1. Cardinality(Writes) \in Nat /\ outstanding * MAXOPBLOCKS \in Int
        BY <1>a, WritesFinite
    <2> QED BY <1>a, <1>b, <1>1, <1>6, <1>7, <2>1
<1>9. \A q \in Proc : /\ pc'[q] \in {"op", "append", "panic"} <=> q # p /\ pc[q] \in {"op", "append", "panic"}
                      /\ pc'[q] = "append" => q # p /\ pc[q] = "append"
    <2>1. CASE EndOp(p)
        BY <1>a, <2>1 DEF EndOp, WakeupAnd
    <2>2. CASE EndOpCommit(p)
        BY <1>a, <2>2 DEF EndOpCommit, Goto
    <2> QED BY <2>1, <2>2
<1>10. Cardinality({}) = 0
    BY FS_EmptySet
<1>11. /\ wrote' \in [Proc -> SUBSET Home]
       /\ \A q \in Proc : wrote'[q] = IF q = p THEN {} ELSE wrote[q]
    BY <1>b, <1>1
<1> QED BY <1>a, <1>1, <1>8, <1>9, <1>10, <1>11 DEF RoomInv

\* A call that logs a block uses up one of its own.
LEMMA AppendRoom ==
    ASSUME CtlInv, CountInv, RoomInv, NEW p \in Proc, NEW v \in Val, LogAppend(p, v)
    PROVE  RoomInv'
<1> DEFINE b == held[p]
<1>a. /\ pc \in [Proc -> Places] /\ outstanding \in Nat /\ boot = "up"
      /\ lh \in Seq(Home) /\ Len(lh) \in Nat /\ b \in Home /\ p \in InCall
      /\ OpWrites \in Nat /\ MAXOPBLOCKS \in Nat /\ LOGSIZE \in Nat
    BY CountZero, LenProperties, SizeAssumption DEF CtlInv, LogAppend, InCall
<1>b. wrote \in [Proc -> SUBSET Home] /\ held \in [Proc -> Home \cup {NoBlock}]
    BY DEF RoomInv, CtlInv
<1>1. /\ lh' = IF b \in Logged(lh) THEN lh ELSE Append(lh, b)
      /\ wrote' = [wrote EXCEPT ![p] = @ \cup {b}]
      /\ held' = [held EXCEPT ![p] = NoBlock]
      /\ pc' = [pc EXCEPT ![p] = "op"] /\ pc[p] = "append"
      /\ outstanding' = outstanding /\ boot' = boot
    BY DEF LogAppend, Goto
<1>2. InCall' = InCall
    BY <1>a, <1>1 DEF InCall
<1>3. Writes' = Writes \cup {<<p, b>>}
    <2>1. InCall \subseteq Proc
        BY DEF InCall
    <2>2. \A x \in Proc \X Home : x \in Writes' <=> x \in Writes \cup {<<p, b>>}
        <3> SUFFICES ASSUME NEW q \in Proc, NEW a \in Home
                     PROVE  <<q, a>> \in Writes' <=> <<q, a>> \in Writes \cup {<<p, b>>}
            OBVIOUS
        <3>1. <<q, a>> \in Writes <=> q \in InCall /\ a \in wrote[q]
            BY DEF Writes
        <3>2. <<q, a>> \in Writes' <=> q \in InCall' /\ a \in wrote'[q]
            BY DEF Writes
        <3> QED BY <1>a, <1>b, <1>1, <1>2, <3>1, <3>2
    <2>3. Writes' \subseteq Proc \X Home /\ (Writes \cup {<<p, b>>}) \subseteq Proc \X Home
        BY <1>a, <1>2, <2>1 DEF Writes
    <2> QED BY <2>2, <2>3
<1>4. /\ Cardinality(Writes) \in Nat
      /\ Cardinality(Writes') = IF <<p, b>> \in Writes THEN Cardinality(Writes) ELSE Cardinality(Writes) + 1
    BY <1>3, WritesFinite, FS_AddElement, Zenon
<1>5. b \notin Logged(lh) => <<p, b>> \notin Writes
    BY DEF Writes, RoomInv
<1>6. /\ Logged(lh) \cup {b} \subseteq Logged(lh')
      /\ Len(lh') = IF b \in Logged(lh) THEN Len(lh) ELSE Len(lh) + 1
    <2>1. CASE b \in Logged(lh)
        BY <1>1, <2>1
    <2>2. CASE b \notin Logged(lh)
        <3>1. /\ Len(lh') = Len(lh) + 1
              /\ \A i \in 1 .. Len(lh) : lh'[i] = lh[i]
              /\ lh'[Len(lh) + 1] = b
            BY <1>a, <1>1, <2>2, AppendProperties
        <3> QED BY <1>a, <2>2, <3>1 DEF Logged
    <2> QED BY <2>1, <2>2
<1>7. Len(lh') + outstanding * MAXOPBLOCKS <= LOGSIZE + Cardinality(Writes')
    <2>1. Len(lh) + outstanding * MAXOPBLOCKS <= LOGSIZE + Cardinality(Writes)
        BY <1>a DEF RoomInv
    <2> DEFINE m == outstanding * MAXOPBLOCKS
    <2>2. m \in Int
        BY <1>a
    <2> HIDE DEF m, b
    <2>3. CASE b \in Logged(lh)
        BY <1>a, <1>4, <1>6, <2>1, <2>2, <2>3 DEF m
    <2>4. CASE b \notin Logged(lh)
        BY <1>a, <1>4, <1>5, <1>6, <2>1, <2>2, <2>4 DEF m
    <2> QED BY <2>3, <2>4
<1>8. Cardinality(wrote[p] \cup {b}) <= OpWrites
    <2>1. IsFiniteSet(wrote[p]) /\ Cardinality(wrote[p]) \in Nat
        BY <1>b, HomeFinite
    <2>2. Cardinality(wrote[p] \cup {b}) = IF b \in wrote[p] THEN Cardinality(wrote[p]) ELSE Cardinality(wrote[p]) + 1
        BY <2>1, FS_AddElement, Zenon
    <2>3. Cardinality(wrote[p]) <= OpWrites /\ (b \in wrote[p] \/ Cardinality(wrote[p]) < OpWrites)
        BY <1>1 DEF RoomInv
    <2> QED BY <1>a, <2>1, <2>2, <2>3
<1> HIDE DEF b
<1>9. \A q \in Proc : /\ wrote'[q] = IF q = p THEN wrote[p] \cup {b} ELSE wrote[q]
                      /\ q # p => pc'[q] = pc[q] /\ held'[q] = held[q]
                      /\ pc'[p] = "op"
    BY <1>a, <1>b, <1>1
<1>10. wrote' \in [Proc -> SUBSET Home]
    BY <1>a, <1>b, <1>1
<1> QED BY <1>1, <1>6, <1>7, <1>8, <1>9, <1>10 DEF RoomInv

\* Every step keeps RoomInv.
LEMMA RoomStep ==
    ASSUME OpWrites < MAXOPBLOCKS
    PROVE  CtlInv /\ CountInv /\ RoomInv /\ [Next]_vars => RoomInv'
<1> SUFFICES ASSUME CtlInv, CountInv, RoomInv, [Next]_vars PROVE RoomInv'
    OBVIOUS
<1>a. /\ pc \in [Proc -> Places] /\ outstanding \in Nat
      /\ LOGSIZE \in Nat /\ OpWrites \in Nat /\ MAXOPBLOCKS \in Nat
      /\ Cardinality(Writes) \in Nat
      /\ \A p \in Proc : pc[p] \in Committing => outstanding = 0
      /\ boot # "up" => outstanding = 0
    BY SizeAssumption, WritesFinite DEF CtlInv
<1>b. outstanding = 0 => \A p \in Proc : pc[p] \notin {"op", "append", "panic"} /\ wrote[p] = {}
    BY CountZero DEF InCall, RoomInv
<1>c. ASSUME InCall' = InCall, wrote' = wrote PROVE Writes' = Writes
    BY <1>c DEF Writes
<1>d. Len(<<>>) = 0 /\ Cardinality({}) = 0
    BY EmptySeq, FS_EmptySet
<1> USE <1>a DEF RoomInv
<1>1. CASE UNCHANGED vars
    <2>1. Writes' = Writes
        BY <1>1, <1>c DEF vars, InCall
    <2> QED BY <1>1, <2>1 DEF vars
<1>2. ASSUME NEW p \in Proc, BeginOp(p) PROVE RoomInv'
    <2>1. Writes' = Writes
        <3>1. InCall' = InCall \cup {p} /\ wrote' = wrote /\ wrote[p] = {} /\ p \notin InCall
            BY <1>2 DEF BeginOp, Goto, InCall
        <3>2. \A x \in InCall' \X Home : x[2] \in wrote[x[1]] => x[1] \in InCall
            BY <3>1
        <3> QED BY <3>1, <3>2 DEF Writes
    <2>2. Len(lh) + (outstanding + 1) * MAXOPBLOCKS <= LOGSIZE /\ Len(lh) \in Nat
        BY <1>2, LenProperties DEF BeginOp, HasRoom, CtlInv
    <2>3. Len(lh') + outstanding' * MAXOPBLOCKS <= LOGSIZE + Cardinality(Writes')
        <3> DEFINE m == (outstanding + 1) * MAXOPBLOCKS
        <3>1. m \in Int
            OBVIOUS
        <3>2. lh' = lh /\ outstanding' * MAXOPBLOCKS = m
            BY <1>2 DEF BeginOp
        <3> HIDE DEF m
        <3> QED BY <2>1, <2>2, <3>1, <3>2 DEF m
    <2> QED BY <1>2, <2>3 DEF BeginOp, Goto
<1>3. ASSUME NEW p \in Proc, BeginSleep(p) PROVE RoomInv'
    <2>1. Writes' = Writes
        BY <1>3, <1>c DEF BeginSleep, Goto, InCall
    <2> QED BY <1>3, <2>1 DEF BeginSleep, Goto
<1>4. ASSUME NEW p \in Proc, NEW b \in Home, LogWrite(p, b) \/ LogPanic(p, b) PROVE RoomInv'
    <2>1. Writes' = Writes
        BY <1>4, <1>c DEF LogWrite, LogPanic, MayWrite, Goto, InCall
    <2>2. held \in [Proc -> Home \cup {NoBlock}]
        BY DEF CtlInv
    <2> QED BY <1>4, <2>1, <2>2 DEF LogWrite, LogPanic, MayWrite, Goto
<1>5. ASSUME NEW p \in Proc, Commit(p) PROVE RoomInv'
    <2>a. /\ outstanding = 0 /\ outstanding' = 0 /\ wrote' = wrote /\ held' = held /\ boot' = boot
          /\ pc[p] \in Committing /\ (lh' = lh \/ lh' = <<>>)
        BY <1>5 DEF Commit, WriteLog, WriteHead, InstallTrans, ClearHead, EndOpDone, Committing
    <2>b. \A q \in Proc : pc'[q] \notin {"op", "append", "panic"}
        <3>1. CASE WriteLog(p) \/ InstallTrans(p)
            BY <1>b, <2>a, <3>1 DEF WriteLog, InstallTrans, Advance, Goto
        <3>2. CASE WriteHead(p) \/ ClearHead(p)
            BY <1>b, <2>a, <3>2 DEF WriteHead, ClearHead, Goto
        <3>3. CASE EndOpDone(p)
            BY <1>b, <2>a, <3>3 DEF EndOpDone, WakeupAnd
        <3> QED BY <1>5, <3>1, <3>2, <3>3, Zenon DEF Commit
    <2>c. Writes' = Writes
        <3>1. InCall' = InCall
            BY <1>b, <2>a, <2>b DEF InCall
        <3> QED BY <1>c, <2>a, <3>1
    <2>d. outstanding * MAXOPBLOCKS = 0 /\ outstanding' * MAXOPBLOCKS = 0
        BY <2>a
    <2>e. boot' = "up" => Len(lh') + outstanding' * MAXOPBLOCKS <= LOGSIZE + Cardinality(Writes')
        BY <1>d, <2>a, <2>c, <2>d
    <2> QED BY <1>b, <2>a, <2>b, <2>e
<1>6. ASSUME NEW b \in Home, Evict(b) PROVE RoomInv'
    <2>1. Writes' = Writes
        BY <1>6, <1>c DEF Evict, InCall
    <2> QED BY <1>6, <2>1 DEF Evict
<1>7. CASE Crash
    BY <1>d, <1>7 DEF Crash
<1>8. CASE ReadHead \/ Recover
    BY <1>b, <1>8 DEF ReadHead, Recover
<1>9. CASE RecoverClear
    <2>1. Writes' = Writes
        BY <1>9, <1>c DEF RecoverClear, InCall
    <2>2. outstanding' * MAXOPBLOCKS = 0
        BY <1>9 DEF RecoverClear
    <2> QED BY <1>b, <1>d, <1>9, <2>1, <2>2 DEF RecoverClear
<1> HIDE DEF RoomInv
<1> QED BY <1>1, <1>2, <1>3, <1>4, <1>5, <1>6, <1>7, <1>8, <1>9, AppendRoom, EndRoom DEF Next

\* The transaction is inside the log, for the calls that are active or since
\* it was when the last of them ended.
AreaInv == (boot = "up" /\ outstanding > 0) \/ InLogArea

\* System calls are active only after recovery.
LEMMA ActiveUp == ASSUME CtlInv, outstanding # 0 PROVE boot = "up"
BY DEF CtlInv

\* Every step keeps the transaction inside the log.
LEMMA AreaStep == LogInv /\ InLogArea /\ [Next]_vars => AreaInv'
<1> SUFFICES ASSUME LogInv, InLogArea, [Next]_vars PROVE AreaInv'
    OBVIOUS
<1>1. Len(<<>>) <= NLog - 1 /\ Len(head) <= NLog - 1
    BY EmptySeq, SizeAssumption DEF LogInv, LoopInv
<1>2. CASE lh' \in {lh, <<>>, head}
    BY <1>1, <1>2 DEF AreaInv, InLogArea
<1>3. ASSUME NEW p \in Proc, NEW v \in Val, LogAppend(p, v) PROVE AreaInv'
    <2>1. outstanding \in Nat /\ outstanding # 0
        BY <1>3, CountZero DEF LogInv, LogAppend, InCall
    <2>2. boot = "up"
        BY <2>1, ActiveUp, Zenon DEF LogInv
    <2> QED BY <1>3, <2>1, <2>2 DEF LogAppend, AreaInv
<1>4. \/ lh' \in {lh, <<>>, head}
      \/ \E p \in Proc, v \in Val : LogAppend(p, v)
    BY Zenon DEF Next, Commit, vars, BeginOp, BeginSleep, LogWrite, LogPanic, EndOp, EndOpCommit, WriteLog,
           WriteHead, InstallTrans, ClearHead, EndOpDone, Evict, Crash, ReadHead, Recover, RecoverClear
<1> QED BY <1>2, <1>3, <1>4

-----------------------------------------------------------------------------

\* Where no system call logs as many blocks as begin_op() reserves for it, no
\* transaction runs past the log into the blocks that follow it.
THEOREM ReservationIsEnough ==
    ASSUME OpWrites < MAXOPBLOCKS, LOGSIZE <= NLog
    PROVE  Spec => []InLogArea
<1>1. Init => LogInv /\ RoomInv /\ AreaInv
    <2> SUFFICES ASSUME Init PROVE RoomInv /\ AreaInv
        BY LogInitInv
    <2>1. /\ Len(<<>>) = 0 /\ Cardinality({}) = 0 /\ Cardinality(Writes) \in Nat
          /\ LOGSIZE \in Nat /\ MAXOPBLOCKS \in Nat /\ OpWrites \in Nat /\ NLog \in Nat \ {0}
        BY EmptySeq, FS_EmptySet, LogInitInv, WritesFinite, SizeAssumption DEF LogInv
    <2>2. 0 * MAXOPBLOCKS = 0
        BY <2>1
    <2> QED BY <2>1, <2>2 DEF Init, RoomInv, AreaInv, InLogArea
<1>2. LogInv /\ RoomInv /\ AreaInv => InLogArea
    BY RoomIsEnough DEF LogInv, AreaInv
<1>3. LogInv /\ RoomInv /\ AreaInv /\ [Next]_vars => LogInv' /\ RoomInv' /\ AreaInv'
    BY <1>2, CountStep, CtlStep, LoopStep, DataStep, RoomStep, AreaStep DEF LogInv
<1> QED BY <1>1, <1>2, <1>3, PTL DEF Spec

\* ... and the log is all or nothing, whatever crashes, without further
\* condition.
THEOREM ReservedLogIsAtomic ==
    ASSUME OpWrites < MAXOPBLOCKS, LOGSIZE <= NLog
    PROVE  Spec => AtomicCommit
BY ReservationIsEnough, LogIsAtomic, PTL
=============================================================================
