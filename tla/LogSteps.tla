------------------------------ MODULE LogSteps ------------------------------
(***************************************************************************)
(* What log.c keeps at every step, for every number of processes and       *)
(* every size of the log: system calls are counted by log.outstanding, a   *)
(* commit runs alone, nobody sleeps in begin_op() for ever; and what the   *)
(* disk, the cache and the log hold at each point of a commit and of       *)
(* recovery, as long as no transaction is longer than the log's area.      *)
(***************************************************************************)
EXTENDS Log, FiniteSetTheorems, SequenceTheorems, TLAPS

-----------------------------------------------------------------------------
(* Who is where *)

\* commit(), and the end of end_op() after it.
Committing == {"write_log", "write_head", "install_trans", "clear", "done"}

\* log.outstanding counts the system calls between begin_op() and end_op().
CountInv == IsFiniteSet(InCall) /\ outstanding = Cardinality(InCall)

\* One process at a time commits, while no system call is active, and neither
\* happens before recovery is done.  With nobody active, nothing is logged.
CtlInv ==
    /\ pc \in [Proc -> Places]
    /\ outstanding \in Nat
    /\ committing \in BOOLEAN
    /\ boot \in {"up", "read_head", "install_trans", "clear"}
    /\ lh \in Seq(Home) /\ head \in Seq(Home)
    /\ held \in [Proc -> Home \cup {NoBlock}]
    /\ \A p \in Proc : pc[p] \in {"append", "panic"} <=> held[p] # NoBlock
    /\ \A p \in Proc : pc[p] \in Committing => committing
    /\ \A p, q \in Proc : pc[p] \in Committing /\ pc[q] \in Committing => p = q
    /\ committing => outstanding = 0
    /\ boot # "up" => outstanding = 0 /\ ~committing
    /\ \A p \in Proc : pc[p] = "done" => lh = <<>>
    /\ boot = "up" /\ outstanding = 0 /\ ~committing => lh = <<>>
    /\ SleeperHasWaker

Distinct(s) == \A i, j \in 1 .. Len(s) : s[i] = s[j] => i = j

\* What the loops over log.lh.block[] go through: no block twice, as log_write()
\* absorbs, and not past its end.  The header on disk is empty but between
\* write_head() and the clearing of it, when it is the one in memory.
LoopInv ==
    /\ tail \in Nat \ {0}
    /\ Distinct(lh) /\ Distinct(head)
    /\ \A p \in Proc : pc[p] \in Committing \ {"done"} => lh # <<>>
    /\ boot = "install_trans" => lh # <<>>
    /\ tail = 1 \/ tail <= Len(lh)
    /\ tail = 1 \/ boot = "install_trans" \/ \E p \in Proc : pc[p] \in {"write_log", "install_trans"}
    /\ \A p \in Proc : pc[p] \in {"install_trans", "clear"} => head = lh
    /\ boot = "up" => head = <<>> \/ \E p \in Proc : pc[p] \in {"install_trans", "clear"}
    /\ boot \in {"install_trans", "clear"} => head = lh
    /\ Len(head) <= NLog - 1

-----------------------------------------------------------------------------

\* Nobody is in a system call when the count is zero, and somebody when not.
LEMMA CountZero ==
    ASSUME CountInv
    PROVE  outstanding \in Nat /\ (outstanding = 0 <=> InCall = {})
BY FS_EmptySet, FS_CardinalityType DEF CountInv

\* Every step keeps the count.
LEMMA CountStep == CtlInv /\ CountInv /\ [Next]_vars => CountInv'
<1> SUFFICES ASSUME CtlInv, CountInv, [Next]_vars PROVE CountInv'
    OBVIOUS
<1>a. pc \in [Proc -> Places]
    BY DEF CtlInv
<1>b. InCall' = InCall /\ outstanding' = outstanding => CountInv'
    BY DEF CountInv
<1> USE <1>a
<1>1. CASE UNCHANGED vars
    BY <1>1, <1>b DEF vars, InCall
<1>2. ASSUME NEW p \in Proc, BeginOp(p) PROVE CountInv'
    <2>1. p \notin InCall /\ InCall' = InCall \cup {p} /\ outstanding' = outstanding + 1
        BY <1>2 DEF BeginOp, Goto, InCall
    <2> QED BY <2>1, FS_AddElement DEF CountInv
<1>3. ASSUME NEW p \in Proc, EndOp(p) \/ EndOpCommit(p) PROVE CountInv'
    <2>1. p \in InCall
        BY <1>3 DEF EndOp, EndOpCommit, InCall
    <2>2. InCall' = InCall \ {p}
        <3>1. CASE EndOp(p)
            BY <3>1 DEF EndOp, WakeupAnd, InCall
        <3>2. CASE EndOpCommit(p)
            BY <3>2 DEF EndOpCommit, Goto, InCall
        <3> QED BY <1>3, <3>1, <3>2
    <2>3. outstanding' = outstanding - 1
        BY <1>3 DEF EndOp, EndOpCommit
    <2> QED BY <2>1, <2>2, <2>3, FS_RemoveElement DEF CountInv
<1>4. ASSUME NEW p \in Proc, BeginSleep(p) PROVE CountInv'
    BY <1>4, <1>b DEF BeginSleep, Goto, InCall
<1>5. ASSUME NEW p \in Proc, NEW b \in Home, LogWrite(p, b) \/ LogPanic(p, b) PROVE CountInv'
    BY <1>5, <1>b DEF LogWrite, LogPanic, MayWrite, Goto, InCall
<1>6. ASSUME NEW p \in Proc, NEW v \in Val, LogAppend(p, v) PROVE CountInv'
    BY <1>6, <1>b DEF LogAppend, Goto, InCall
<1>7. ASSUME NEW p \in Proc, Commit(p) PROVE CountInv'
    <2>1. CASE WriteLog(p)
        BY <2>1, <1>b DEF WriteLog, Advance, Goto, InCall
    <2>2. CASE WriteHead(p)
        BY <2>2, <1>b DEF WriteHead, Goto, InCall
    <2>3. CASE InstallTrans(p)
        BY <2>3, <1>b DEF InstallTrans, Advance, Goto, InCall
    <2>4. CASE ClearHead(p)
        BY <2>4, <1>b DEF ClearHead, Goto, InCall
    <2>5. CASE EndOpDone(p)
        BY <2>5, <1>b DEF EndOpDone, WakeupAnd, InCall
    <2> QED BY <1>7, <2>1, <2>2, <2>3, <2>4, <2>5 DEF Commit
<1>8. ASSUME NEW b \in Home, Evict(b) PROVE CountInv'
    BY <1>8, <1>b DEF Evict, InCall
<1>9. CASE Crash
    <2>1. InCall' = {} /\ outstanding' = 0
        BY <1>9 DEF Crash, InCall
    <2> QED BY <2>1, FS_EmptySet DEF CountInv
<1>10. CASE ReadHead \/ Recover \/ RecoverClear
    BY <1>10, <1>b DEF ReadHead, Recover, RecoverClear, InCall
<1> QED BY <1>1, <1>2, <1>3, <1>4, <1>5, <1>6, <1>7, <1>8, <1>9, <1>10 DEF Next

\* Every step keeps CtlInv.  begin_op() finds room when nothing is logged and
\* nobody is active, so it sleeps only while somebody is.
LEMMA CtlStep == CtlInv /\ CountInv /\ [Next]_vars => CtlInv'
<1> SUFFICES ASSUME CtlInv, CountInv, [Next]_vars PROVE CtlInv'
    OBVIOUS
<1>a. \A p \in Proc : pc[p] \in {"op", "append", "panic"} => outstanding # 0
    BY CountZero DEF InCall
<1>b. <<>> \in Seq(Home) /\ Len(<<>>) = 0
    BY EmptySeq
<1> USE <1>a DEF CtlInv, Committing, SleeperHasWaker, Places
<1>1. CASE UNCHANGED vars
    BY <1>1 DEF vars
<1>2. ASSUME NEW p \in Proc, BeginOp(p) PROVE CtlInv'
    BY <1>2 DEF BeginOp, Goto
<1>3. ASSUME NEW p \in Proc, BeginSleep(p) PROVE CtlInv'
    <2>1. committing \/ outstanding > 0
        <3>1. SUFFICES ASSUME ~committing, outstanding = 0 PROVE FALSE
            OBVIOUS
        <3>2. lh = <<>> /\ ~HasRoom
            BY <1>3, <3>1 DEF BeginSleep
        <3>3. Len(lh) + (outstanding + 1) * MAXOPBLOCKS <= LOGSIZE
            BY <1>b, <3>1, <3>2, SizeAssumption
        <3> QED BY <3>2, <3>3 DEF HasRoom
    <2> QED BY <1>3, <2>1 DEF BeginSleep, Goto
<1>4. ASSUME NEW p \in Proc, NEW b \in Home, LogWrite(p, b) \/ LogPanic(p, b) PROVE CtlInv'
    <2>1. b # NoBlock
        BY SizeAssumption DEF Home, NoBlock
    <2> QED BY <1>4, <2>1 DEF LogWrite, LogPanic, MayWrite, Goto
<1>5. ASSUME NEW p \in Proc, NEW v \in Val, LogAppend(p, v) PROVE CtlInv'
    <2>1. held[p] \in Home
        BY <1>5 DEF LogAppend
    <2>2. lh' \in Seq(Home)
        BY <1>5, <2>1, AppendProperties DEF LogAppend
    <2> QED BY <1>5, <2>2 DEF LogAppend, Goto
<1>6. ASSUME NEW p \in Proc, EndOp(p) PROVE CtlInv'
    BY <1>6 DEF EndOp, WakeupAnd
<1>7. ASSUME NEW p \in Proc, EndOpCommit(p) PROVE CtlInv'
    <2>1. ~committing
        BY <1>7 DEF EndOpCommit
    <2> QED BY <1>7, <2>1 DEF EndOpCommit, Goto
<1>8. ASSUME NEW p \in Proc, Commit(p) PROVE CtlInv'
    <2>1. CASE WriteLog(p)
        BY <2>1 DEF WriteLog, Advance, Goto
    <2>2. CASE WriteHead(p)
        BY <2>2 DEF WriteHead, Goto
    <2>3. CASE InstallTrans(p)
        BY <2>3 DEF InstallTrans, Advance, Goto
    <2>4. CASE ClearHead(p)
        BY <1>b, <2>4 DEF ClearHead, Goto
    <2>5. CASE EndOpDone(p)
        BY <2>5, Zenon DEF EndOpDone, WakeupAnd
    <2> QED BY <1>8, <2>1, <2>2, <2>3, <2>4, <2>5 DEF Commit
<1>9. ASSUME NEW b \in Home, Evict(b) PROVE CtlInv'
    BY <1>9 DEF Evict
<1>10. CASE Crash
    BY <1>10, <1>b, Zenon DEF Crash
<1>11. CASE ReadHead
    BY <1>11 DEF ReadHead
<1>12. CASE Recover
    BY <1>12 DEF Recover
<1>13. CASE RecoverClear
    BY <1>13, <1>b DEF RecoverClear
<1> HIDE DEF CtlInv
<1> QED BY <1>1, <1>2, <1>3, <1>4, <1>5, <1>6, <1>7, <1>8, <1>9, <1>10, <1>11, <1>12, <1>13 DEF Next

\* Every step keeps LoopInv, as long as the log is not overrun.
LEMMA LoopStep == CtlInv /\ CountInv /\ LoopInv /\ InLogArea /\ [Next]_vars => LoopInv'
<1> SUFFICES ASSUME CtlInv, CountInv, LoopInv, InLogArea, [Next]_vars PROVE LoopInv'
    OBVIOUS
<1>a. \A p, q \in Proc : pc[p] \in {"op", "append", "panic"} => pc[q] \notin Committing
    BY CountZero DEF InCall, CtlInv
<1>b. /\ pc \in [Proc -> Places]
      /\ lh \in Seq(Home) /\ head \in Seq(Home)
      /\ \A p, q \in Proc : pc[p] \in Committing /\ pc[q] \in Committing => p = q
      /\ \A p \in Proc : pc[p] \in {"op", "append", "panic"} \cup Committing => boot = "up"
    BY CountZero DEF InCall, CtlInv
<1>c. \A s \in Seq(Home) : Len(s) \in Nat /\ (s # <<>> => Len(s) > 0)
    BY EmptySeq, LenProperties
<1>d. Distinct(<<>>) /\ Len(<<>>) = 0
    BY EmptySeq DEF Distinct
<1>e. 0 <= NLog - 1
    BY SizeAssumption
<1> USE <1>a, <1>b, <1>c, <1>d DEF LoopInv, Committing
<1>1. CASE UNCHANGED vars
    BY <1>1 DEF vars
<1>2. ASSUME NEW p \in Proc, BeginOp(p) \/ BeginSleep(p) PROVE LoopInv'
    BY <1>2 DEF BeginOp, BeginSleep, Goto
<1>3. ASSUME NEW p \in Proc, NEW b \in Home, LogWrite(p, b) \/ LogPanic(p, b) PROVE LoopInv'
    BY <1>3 DEF LogWrite, LogPanic, MayWrite, Goto
<1>4. ASSUME NEW p \in Proc, NEW v \in Val, LogAppend(p, v) PROVE LoopInv'
    <2>1. held[p] \in Home
        BY <1>4 DEF LogAppend, CtlInv
    <2>2. Distinct(lh') /\ Len(lh') \in Nat /\ Len(lh') >= Len(lh)
        <3>1. CASE held[p] \in Logged(lh)
            BY <1>4, <3>1 DEF LogAppend
        <3>2. CASE held[p] \notin Logged(lh)
            <4>1. lh' = Append(lh, held[p])
                BY <1>4, <3>2 DEF LogAppend
            <4>2. /\ Len(lh') = Len(lh) + 1
                  /\ \A i \in 1 .. Len(lh) : lh'[i] = lh[i]
                  /\ lh'[Len(lh) + 1] = held[p]
                BY <2>1, <4>1, AppendProperties
            <4>3. \A i \in 1 .. Len(lh) : lh[i] # held[p]
                BY <3>2 DEF Logged
            <4>4. \A i, j \in 1 .. Len(lh) + 1 : lh'[i] = lh'[j] => i = j
                <5> SUFFICES ASSUME NEW i \in 1 .. Len(lh) + 1, NEW j \in 1 .. Len(lh) + 1,
                                    lh'[i] = lh'[j]
                             PROVE  i = j
                    OBVIOUS
                <5>1. CASE i \in 1 .. Len(lh) /\ j \in 1 .. Len(lh)
                    BY <4>2, <5>1 DEF Distinct
                <5>2. CASE i = Len(lh) + 1 \/ j = Len(lh) + 1
                    BY <4>2, <4>3, <5>2
                <5> QED BY <5>1, <5>2
            <4> QED BY <4>2, <4>4 DEF Distinct
        <3> QED BY <3>1, <3>2
    <2>3. \A q \in Proc : pc[q] \notin Committing /\ pc'[q] \notin Committing
        BY <1>4 DEF LogAppend, Goto
    <2>4. tail' = tail /\ head' = head /\ boot' = boot /\ boot = "up"
        BY <1>4 DEF LogAppend
    <2> QED BY <2>2, <2>3, <2>4
<1>5. ASSUME NEW p \in Proc, EndOp(p) PROVE LoopInv'
    BY <1>5 DEF EndOp, WakeupAnd
<1>6. ASSUME NEW p \in Proc, EndOpCommit(p) PROVE LoopInv'
    BY <1>6 DEF EndOpCommit, Goto
<1>7. ASSUME NEW p \in Proc, Commit(p) PROVE LoopInv'
    <2>1. CASE WriteLog(p)
        BY <2>1 DEF WriteLog, Advance, Goto
    <2>2. CASE WriteHead(p)
        BY <2>2 DEF WriteHead, Goto, InLogArea
    <2>3. CASE InstallTrans(p)
        BY <2>3 DEF InstallTrans, Advance, Goto
    <2>4. CASE ClearHead(p)
        BY <1>e, <2>4 DEF ClearHead, Goto
    <2>5. CASE EndOpDone(p)
        BY <2>5 DEF EndOpDone, WakeupAnd
    <2> QED BY <1>7, <2>1, <2>2, <2>3, <2>4, <2>5 DEF Commit
<1>8. ASSUME NEW b \in Home, Evict(b) PROVE LoopInv'
    BY <1>8 DEF Evict
<1>9. CASE Crash
    BY <1>9 DEF Crash
<1>10. CASE ReadHead
    BY <1>10 DEF ReadHead
<1>11. CASE Recover
    BY <1>11 DEF Recover
<1>12. CASE RecoverClear
    BY <1>e, <1>12 DEF RecoverClear
<1> HIDE DEF LoopInv
<1> QED BY <1>1, <1>2, <1>3, <1>4, <1>5, <1>6, <1>7, <1>8, <1>9, <1>10, <1>11, <1>12 DEF Next

-----------------------------------------------------------------------------
(* What is where *)

\* What is where.  A buffer that is not dirty is as on disk, and the dirty ones
\* are logged.  write_log() and install_trans() have copied the blocks before
\* tail, and so has recovery.
DataInv ==
    /\ cache \in [Addr -> Val] /\ disk \in [Addr -> Val]
    /\ dirty \subseteq Logged(lh)
    /\ boot # "up" => dirty = {}
    /\ \A a \in Addr \ dirty : cache[a] = disk[a]
    /\ \A p \in Proc : pc[p] = "write_log" =>
        \A i \in 1 .. Len(lh) : i < tail => disk[i] = cache[lh[i]]
    /\ \A p \in Proc : pc[p] \in {"write_head", "install_trans", "clear"} =>
        \A i \in 1 .. Len(lh) : disk[i] = cache[lh[i]]
    /\ \A p \in Proc : pc[p] = "install_trans" =>
        \A i \in 1 .. Len(lh) : i < tail => lh[i] \notin dirty
    /\ \A p \in Proc : pc[p] = "clear" => dirty = {}
    /\ boot = "install_trans" => \A i \in 1 .. Len(lh) : i < tail => disk[lh[i]] = disk[i]
    /\ boot = "clear" => \A i \in 1 .. Len(lh) : disk[lh[i]] = disk[i]

LogInv == CtlInv /\ CountInv /\ LoopInv /\ DataInv

-----------------------------------------------------------------------------

\* The log's blocks and the blocks they are copies of are different blocks.
LEMMA LogAddresses ==
    ASSUME NEW s \in Seq(Home), Len(s) <= NLog - 1, NEW i \in 1 .. Len(s)
    PROVE  i \in Addr /\ i \notin Home /\ s[i] \in Home /\ s[i] \in Addr
<1>1. Len(s) \in Nat /\ s[i] \in Home
    BY LenProperties, ElementOfSeq
<1> QED BY <1>1, SizeAssumption DEF Home, Addr

\* An eviction of a clean buffer does not change what bread() returns.
LEMMA EvictSame == ASSUME DataInv, NEW b \in Home, Evict(b) PROVE cache' = cache
BY SizeAssumption DEF DataInv, Evict, Home, Addr

\* install_trans() copies what the cache has already.
LEMMA InstallSame ==
    ASSUME CtlInv, LoopInv, DataInv, InLogArea, NEW p \in Proc, InstallTrans(p)
    PROVE  /\ tail \in 1 .. Len(lh)
           /\ cache' = cache
           /\ disk' = [disk EXCEPT ![lh[tail]] = cache[lh[tail]]]
           /\ dirty' = dirty \ {lh[tail]}
<1>1. lh \in Seq(Home) /\ Len(lh) \in Nat /\ lh # <<>> /\ Len(lh) > 0
    BY EmptySeq, LenProperties DEF CtlInv, LoopInv, InstallTrans, Committing
<1>2. tail \in 1 .. Len(lh)
    BY <1>1 DEF LoopInv
<1>3. tail \in Addr /\ tail \notin Home /\ lh[tail] \in Home /\ lh[tail] \in Addr
    BY <1>1, <1>2, LogAddresses DEF InLogArea
<1>4. tail \notin dirty
    <2>1. \A i \in 1 .. Len(lh) : lh[i] \in Home
        BY <1>1, ElementOfSeq
    <2> QED BY <1>3, <2>1 DEF DataInv, Logged
<1>5. cache[tail] = cache[lh[tail]]
    BY <1>2, <1>3, <1>4 DEF DataInv, InstallTrans
<1>6. cache \in [Addr -> Val]
    BY DEF DataInv
<1> QED BY <1>2, <1>3, <1>5, <1>6 DEF InstallTrans, Bwrite

\* Every step keeps DataInv, as long as the log is not overrun.
LEMMA DataStep == LogInv /\ InLogArea /\ [Next]_vars => DataInv'
<1> SUFFICES ASSUME LogInv, InLogArea, [Next]_vars PROVE DataInv'
    OBVIOUS
<1>a. CtlInv /\ CountInv /\ LoopInv /\ DataInv
    BY DEF LogInv
<1>b. /\ pc \in [Proc -> Places]
      /\ lh \in Seq(Home) /\ Len(lh) \in Nat
      /\ tail \in Nat \ {0}
      /\ cache \in [Addr -> Val] /\ disk \in [Addr -> Val]
      /\ \A p, q \in Proc : pc[p] \in Committing /\ pc[q] \in Committing => p = q
      /\ \A p \in Proc : pc[p] \in Committing => boot = "up"
      /\ \A p, q \in Proc : pc[p] \in {"op", "append", "panic"} => pc[q] \notin Committing /\ boot = "up"
    BY <1>a, CountZero, LenProperties DEF InCall, CtlInv, LoopInv, DataInv
<1>c. \A i \in 1 .. Len(lh) : i \in Addr /\ i \notin Home /\ lh[i] \in Home /\ lh[i] \in Addr
    BY <1>b, LogAddresses DEF InLogArea
<1>d. Logged(<<>>) = {} /\ Len(<<>>) = 0
    BY EmptySeq DEF Logged
<1>e. \A i, j \in 1 .. Len(lh) : lh[i] = lh[j] => i = j
    BY <1>a DEF LoopInv, Distinct
<1>f. dirty \subseteq Home
    BY <1>a, <1>c DEF DataInv, Logged
<1>g. \A p \in Proc : pc[p] \in Committing \ {"done"} => Len(lh) > 0 /\ tail <= Len(lh)
    BY <1>a, <1>b, EmptySeq DEF LoopInv
<1> USE <1>b DEF DataInv, Committing
<1>1. CASE UNCHANGED vars
    BY <1>a, <1>1 DEF vars
<1>2. ASSUME NEW p \in Proc, BeginOp(p) \/ BeginSleep(p) PROVE DataInv'
    BY <1>a, <1>2 DEF BeginOp, BeginSleep, Goto
<1>3. ASSUME NEW p \in Proc, NEW b \in Home, LogWrite(p, b) \/ LogPanic(p, b) PROVE DataInv'
    BY <1>a, <1>3 DEF LogWrite, LogPanic, MayWrite, Goto
<1>4. ASSUME NEW p \in Proc, NEW v \in Val, LogAppend(p, v) PROVE DataInv'
    <2>1. held[p] \in Home /\ held[p] \in Addr
        BY <1>a, <1>4, SizeAssumption DEF LogAppend, CtlInv, Home, Addr
    <2>2. Logged(lh) \cup {held[p]} \subseteq Logged(lh')
        <3>1. CASE held[p] \in Logged(lh)
            BY <1>4, <3>1 DEF LogAppend
        <3>2. CASE held[p] \notin Logged(lh)
            <4>1. lh' = Append(lh, held[p])
                BY <1>4, <3>2 DEF LogAppend
            <4>2. /\ Len(lh') = Len(lh) + 1
                  /\ \A i \in 1 .. Len(lh) : lh'[i] = lh[i]
                  /\ lh'[Len(lh) + 1] = held[p]
                BY <2>1, <4>1, AppendProperties
            <4> QED BY <4>2 DEF Logged
        <3> QED BY <3>1, <3>2
    <2>3. /\ cache' = [cache EXCEPT ![held[p]] = v] /\ disk' = disk
          /\ dirty' = dirty \cup {held[p]} /\ boot' = boot /\ boot = "up"
          /\ \A q \in Proc : pc'[q] \notin Committing
        BY <1>4 DEF LogAppend, Goto
    <2> QED BY <1>a, <2>1, <2>2, <2>3
<1>5. ASSUME NEW p \in Proc, EndOp(p) PROVE DataInv'
    BY <1>a, <1>5 DEF EndOp, WakeupAnd
<1>6. ASSUME NEW p \in Proc, EndOpCommit(p) PROVE DataInv'
    <2>1. tail = 1
        BY <1>a, <1>6 DEF EndOpCommit, LoopInv
    <2> QED BY <1>a, <1>6, <2>1 DEF EndOpCommit, Goto
<1>7. ASSUME NEW p \in Proc, WriteLog(p) PROVE DataInv'
    <2>1. tail \in 1 .. Len(lh) /\ tail \in Addr /\ tail \notin Home /\ lh[tail] \in Home /\ lh[tail] \in Addr
        BY <1>7, <1>c, <1>g DEF WriteLog
    <2>2. /\ cache' = [cache EXCEPT ![tail] = cache[lh[tail]]]
          /\ disk' = [disk EXCEPT ![tail] = cache[lh[tail]]]
          /\ dirty' = dirty /\ lh' = lh /\ boot' = boot /\ boot = "up"
        BY <1>7, <1>f, <2>1 DEF WriteLog, Bwrite
    <2>3. \A i \in 1 .. Len(lh) : cache'[lh[i]] = cache[lh[i]]
        BY <1>c, <2>1, <2>2
    <2>4. \A i \in 1 .. Len(lh) : i <= tail => disk'[i] = cache'[lh[i]]
        BY <1>a, <1>7, <1>c, <2>1, <2>2, <2>3 DEF WriteLog
    <2>5. /\ \A q \in Proc : pc'[q] = "write_log" => tail' = tail + 1
          /\ \A q \in Proc : pc'[q] = "write_head" => tail = Len(lh)
          /\ \A q \in Proc : pc'[q] \notin {"install_trans", "clear"}
        BY <1>7, <2>1 DEF WriteLog, Advance, Goto
    <2>6. \A a \in Addr \ dirty : cache'[a] = disk'[a]
        BY <1>a, <2>1, <2>2
    <2>7. cache' \in [Addr -> Val] /\ disk' \in [Addr -> Val]
        BY <2>1, <2>2, Zenon
    <2> QED BY <1>a, <2>1, <2>2, <2>4, <2>5, <2>6, <2>7
<1>8. ASSUME NEW p \in Proc, WriteHead(p) PROVE DataInv'
    <2>1. tail = 1
        BY <1>a, <1>8 DEF WriteHead, LoopInv
    <2> QED BY <1>a, <1>8, <2>1 DEF WriteHead, Goto
<1>9. ASSUME NEW p \in Proc, InstallTrans(p) PROVE DataInv'
    <2>1. /\ tail \in 1 .. Len(lh)
          /\ cache' = cache /\ disk' = [disk EXCEPT ![lh[tail]] = cache[lh[tail]]]
          /\ dirty' = dirty \ {lh[tail]}
        BY <1>a, <1>9, InstallSame
    <2>2. lh' = lh /\ boot' = boot /\ boot = "up" /\ pc[p] = "install_trans"
        BY <1>9 DEF InstallTrans
    <2>3. \A i \in 1 .. Len(lh) : disk'[i] = cache'[lh[i]]
        BY <1>a, <1>c, <2>1, <2>2
    <2>4. \A i \in 1 .. Len(lh) : i <= tail => lh[i] \notin dirty'
        BY <1>a, <2>1, <2>2
    <2>5. /\ \A q \in Proc : pc'[q] = "install_trans" => tail' = tail + 1
          /\ \A q \in Proc : pc'[q] = "clear" => tail = Len(lh)
          /\ \A q \in Proc : pc'[q] # "write_log"
        BY <1>9, <2>1 DEF InstallTrans, Advance, Goto
    <2>6. tail = Len(lh) => dirty' = {}
        BY <1>a, <2>1, <2>4 DEF Logged
    <2>7. disk' \in [Addr -> Val] /\ \A a \in Addr \ dirty' : cache'[a] = disk'[a]
        BY <1>a, <1>c, <2>1
    <2> QED BY <1>a, <2>1, <2>2, <2>3, <2>4, <2>5, <2>6, <2>7
<1>10. ASSUME NEW p \in Proc, ClearHead(p) PROVE DataInv'
    BY <1>a, <1>d, <1>10 DEF ClearHead, Goto
<1>11. ASSUME NEW p \in Proc, EndOpDone(p) PROVE DataInv'
    BY <1>a, <1>11 DEF EndOpDone, WakeupAnd
<1>12. ASSUME NEW b \in Home, Evict(b) PROVE DataInv'
    <2>1. cache' = cache
        BY <1>a, <1>12, EvictSame
    <2>2. UNCHANGED <<pc, lh, tail, dirty, disk, boot>>
        BY <1>12 DEF Evict
    <2> QED BY <1>a, <2>1, <2>2
<1>13. CASE Crash
    BY <1>a, <1>d, <1>13 DEF Crash
<1>14. CASE ReadHead
    <2>1. tail = 1 /\ \A q \in Proc : pc[q] \notin Committing
        BY <1>a, <1>14 DEF ReadHead, LoopInv
    <2>2. head = <<>> => Len(head) = 0
        BY <1>d
    <2> QED BY <1>a, <1>14, <2>1, <2>2 DEF ReadHead
<1>15. CASE Recover
    <2>1. tail \in 1 .. Len(lh) /\ boot = "install_trans" /\ lh' = lh /\ pc' = pc
        BY <1>a, <1>15, EmptySeq DEF Recover, LoopInv
    <2>2. dirty = {} /\ \A a \in Addr : cache[a] = disk[a]
        BY <1>a, <2>1
    <2>3. /\ cache' = [cache EXCEPT ![lh[tail]] = disk[tail]]
          /\ disk' = [disk EXCEPT ![lh[tail]] = disk[tail]]
          /\ dirty' = {}
        BY <1>c, <1>15, <2>1, <2>2, Zenon DEF Recover, Bwrite
    <2>4. \A i \in 1 .. Len(lh) : i <= tail => disk'[lh[i]] = disk'[i]
        BY <1>a, <1>c, <1>e, <2>1, <2>3
    <2>5. \/ boot' = "install_trans" /\ tail' = tail + 1
          \/ boot' = "clear" /\ tail = Len(lh)
        BY <1>15, <2>1 DEF Recover
    <2>6. cache' \in [Addr -> Val] /\ disk' \in [Addr -> Val] /\ \A a \in Addr : cache'[a] = disk'[a]
        BY <1>c, <2>1, <2>2, <2>3
    <2>7. \A q \in Proc : pc[q] \notin Committing
        BY <2>1
    <2> QED BY <2>1, <2>3, <2>4, <2>5, <2>6, <2>7
<1>16. CASE RecoverClear
    <2>1. \A q \in Proc : pc[q] \notin Committing
        BY <1>16 DEF RecoverClear
    <2> QED BY <1>a, <1>d, <1>16, <2>1 DEF RecoverClear
<1> HIDE DEF DataInv
<1> QED BY <1>1, <1>2, <1>3, <1>4, <1>5, <1>6, <1>7, <1>8, <1>9, <1>10, <1>11, <1>12, <1>13, <1>14,
           <1>15, <1>16 DEF Next, Commit
=============================================================================
