----------------------------- MODULE SpinProofs -----------------------------
(***************************************************************************)
(* The discipline of Spinlock, proved for every number of CPUs and locks,  *)
(* with an interrupt at every step where it can come.                      *)
(***************************************************************************)
EXTENDS Spinlock, FiniteSetTheorems, SequenceTheorems, TLAPS

\* The places of a frame, and frames.
SpPlaces == {"out", "cli", "xchg", "own", "unlock", "pop"}
Frames == [at : SpPlaces, lk : SpinLock, eflags : BOOLEAN, held : SUBSET SpinLock]

\* A frame has the lock's word set: it holds the lock, or it is between the
\* two words of the lock in acquire() or release().
Owns(f, l) == l \in f.held \/ (f.at \in {"own", "unlock"} /\ f.lk = l)

\* What pushcli() has counted for a frame.
Pushed(f) == Cardinality(f.held) + IF f.at \in {"xchg", "own", "unlock", "pop"} THEN 1 ELSE 0

\* A CPU with n frames, low the first and top the last, that has counted nc
\* calls of pushcli(), has interrupts on or off, and has noted on or off.  Only
\* a thread with nothing counted can have been interrupted.
CpuOk(n, low, top, nc, on, noted) ==
    /\ top.at \in {"own", "unlock"} => top.lk \notin top.held
    /\ top.at \in {"cli", "xchg", "own"} => \A h \in top.held : h < top.lk
    /\ nc = Pushed(top)
    /\ on <=> nc = 0 /\ n = 1
    /\ nc > 0 => (noted <=> n = 1)
    /\ top.at = "cli" /\ nc = 0 => (top.eflags <=> n = 1)
    /\ n = 2 => low.held = {} /\ (low.at = "cli" => low.eflags) /\ low.at \in {"out", "cli"}

\* The types, with what each CPU has counted.
SpTypes ==
    /\ locked \in [SpinLock -> BOOLEAN] /\ lkcpu \in [SpinLock -> Cpu \cup {0}]
    /\ intr \in [Cpu -> BOOLEAN] /\ ncli \in [Cpu -> Nat] /\ intena \in [Cpu -> BOOLEAN]
    /\ frame \in [Cpu -> Seq(Frames)] /\ \A c \in Cpu : Len(frame[c]) \in 1 .. 2

\* The two words of every lock agree with the frames on top.
WordsOk ==
    /\ \A c \in Cpu, l \in SpinLock : lkcpu[l] = c <=> l \in Top(c).held
    /\ \A l \in SpinLock : locked[l] <=> \E c \in Cpu : Owns(Top(c), l)
    /\ \A c, d \in Cpu, l \in SpinLock : Owns(Top(c), l) /\ Owns(Top(d), l) => c = d

\* The inductive invariant.
SpInv ==
    /\ SpTypes /\ ~spinpanic /\ WordsOk
    /\ \A c \in Cpu : CpuOk(Len(frame[c]), frame[c][1], Top(c), ncli[c], intr[c], intena[c])


\* What the steps use of a frame's locks: they are finitely many.
LEMMA HeldCount ==
    ASSUME NEW H \in SUBSET SpinLock
    PROVE  /\ Cardinality(H) \in Nat /\ (Cardinality(H) = 0 <=> H = {})
           /\ \A l \in SpinLock : l \notin H => Cardinality(H \cup {l}) = Cardinality(H) + 1
           /\ \A l \in H : Cardinality(H \ {l}) = Cardinality(H) - 1
<1>1. IsFiniteSet(SpinLock)
    BY SpinAssumption, FS_Interval DEF SpinLock
<1>2. IsFiniteSet(H)
    BY <1>1, FS_Subset
<1> QED BY <1>2, FS_CardinalityType, FS_EmptySet, FS_AddElement, FS_RemoveElement

\* SpSet() replaces the frame on top of c's and no other.
LEMMA TopSet ==
    ASSUME SpTypes, NEW c \in Cpu, NEW f \in Frames, SpSet(c, f)
    PROVE  /\ frame' \in [Cpu -> Seq(Frames)] /\ \A d \in Cpu : Len(frame'[d]) = Len(frame[d])
           /\ \A d \in Cpu : d # c => frame'[d] = frame[d] /\ Top(d)' = Top(d)
           /\ Top(c)' = f /\ Top(c) \in Frames
           /\ Len(frame[c]) = 2 => frame'[c][1] = frame[c][1]
<1> DEFINE s == frame[c]
           n == Len(frame[c])
           t == [s EXCEPT ![n] = f]
<1>1. s \in Seq(Frames) /\ n \in 1 .. 2 /\ n = Len(s)
    BY DEF SpTypes
<1>2. frame' = [frame EXCEPT ![c] = t]
    BY DEF SpSet
<1>3. t \in Seq(Frames) /\ Len(t) = n /\ t[n] = f /\ (n = 2 => t[1] = s[1]) /\ s[n] \in Frames
    <2> HIDE DEF s, n
    <2>1. n \in 1 .. Len(s)
        BY <1>1
    <2>2. t \in Seq(Frames) /\ Len(t) = Len(s) /\ \A i \in 1 .. Len(s) : t[i] = IF i = n THEN f ELSE s[i]
        BY <1>1, <2>1, ExceptSeq
    <2> QED BY <1>1, <2>1, <2>2
<1> HIDE DEF t
<1>4. frame' \in [Cpu -> Seq(Frames)] /\ frame'[c] = t /\ \A d \in Cpu : d # c => frame'[d] = frame[d]
    BY <1>2, <1>3 DEF SpTypes
<1> QED BY <1>3, <1>4 DEF Top

\* A step of c that is good for c and for the locks keeps SpInv.
LEMMA SpFrame ==
    ASSUME SpInv, NEW c \in Cpu, SpTypes', ~spinpanic', WordsOk',
           \A d \in Cpu : d # c => /\ frame'[d] = frame[d] /\ Top(d)' = Top(d)
                                   /\ ncli'[d] = ncli[d] /\ intr'[d] = intr[d] /\ intena'[d] = intena[d],
           CpuOk(Len(frame'[c]), frame'[c][1], Top(c)', ncli'[c], intr'[c], intena'[c])
    PROVE  SpInv'
<1>1. ASSUME NEW d \in Cpu, d # c
      PROVE  CpuOk(Len(frame'[d]), frame'[d][1], Top(d)', ncli'[d], intr'[d], intena'[d])
    BY <1>1 DEF SpInv
<1> QED BY <1>1, Zenon DEF SpInv

\* A step that changes no word and no owner.
LEMMA SameWords ==
    ASSUME WordsOk, UNCHANGED <<locked, lkcpu>>,
           \A d \in Cpu : /\ Top(d)'.held = Top(d).held
                          /\ \A l \in SpinLock : Owns(Top(d)', l) <=> Owns(Top(d), l)
    PROVE  WordsOk'
BY DEF WordsOk

\* The facts about c that its steps start from.
LEMMA CpuFacts ==
    ASSUME SpInv, NEW c \in Cpu
    PROVE  /\ CpuOk(Len(frame[c]), frame[c][1], Top(c), ncli[c], intr[c], intena[c])
           /\ Top(c) \in Frames /\ frame[c] \in Seq(Frames) /\ Len(frame[c]) \in 1 .. 2
           /\ Cardinality(Top(c).held) \in Nat /\ (Cardinality(Top(c).held) = 0 <=> Top(c).held = {})
           /\ SpTypes /\ WordsOk /\ ~spinpanic /\ ncli[c] \in Nat
           /\ Top(c).held \subseteq SpinLock /\ Top(c).lk \in SpinLock /\ SpinLock \subseteq Nat
<1>1. frame[c] \in Seq(Frames) /\ Len(frame[c]) \in 1 .. 2
    BY DEF SpInv, SpTypes
<1>2. Top(c) \in Frames
    <2>1. \A n \in 1 .. 2 : n \in 1 .. n
        OBVIOUS
    <2>2. Len(frame[c]) \in 1 .. Len(frame[c])
        BY <1>1, <2>1, Zenon
    <2> QED BY <1>1, <2>2, ElementOfSeq, Zenon DEF Top
<1>3. Top(c).held \in SUBSET SpinLock /\ Top(c).lk \in SpinLock
    BY <1>2 DEF Frames
<1>4. SpinLock \subseteq Nat
    BY DEF SpinLock
<1> QED BY <1>1, <1>2, <1>3, <1>4, HeldCount, Zenon DEF SpInv, SpTypes

\* acquire() is called.
LEMMA SpAcquireStep ==
    ASSUME SpInv, NEW c \in Cpu, SpAcquire(c)
    PROVE  SpInv'
<1> DEFINE top == Top(c)
<1>1. /\ CpuOk(Len(frame[c]), frame[c][1], top, ncli[c], intr[c], intena[c])
      /\ top \in Frames /\ SpTypes /\ WordsOk /\ ~spinpanic /\ Len(frame[c]) \in 1 .. 2
    BY CpuFacts
<1>2. PICK l \in SpinLock :
        /\ \A f \in 1 .. Len(frame[c]) : \A h \in frame[c][f].held : h < l
        /\ SpSet(c, [top EXCEPT !.at = "cli", !.lk = l, !.eflags = intr[c]])
    BY Zenon DEF SpAcquire
<1>3. top.at = "out" /\ UNCHANGED <<locked, lkcpu, intr, ncli, intena, spinpanic>>
    BY DEF SpAcquire, SpAt
<1>4. \A h \in top.held : h < l
    BY <1>1, <1>2 DEF Top
<1> DEFINE new == [top EXCEPT !.at = "cli", !.lk = l, !.eflags = intr[c]]
<1> HIDE DEF top
<1>5. /\ new \in Frames /\ new.at = "cli" /\ new.lk = l /\ new.held = top.held /\ new.eflags = intr[c]
    BY <1>1, Zenon DEF Frames, SpPlaces, SpTypes
<1> HIDE DEF new
<1>6. /\ frame' \in [Cpu -> Seq(Frames)] /\ \A d \in Cpu : Len(frame'[d]) = Len(frame[d])
      /\ \A d \in Cpu : d # c => frame'[d] = frame[d] /\ Top(d)' = Top(d)
      /\ Top(c)' = new
      /\ Len(frame[c]) = 2 => frame'[c][1] = frame[c][1]
    BY <1>1, <1>2, <1>5, TopSet DEF new
<1>7. SpTypes'
    BY <1>1, <1>3, <1>6 DEF SpTypes
<1>8. WordsOk'
    BY <1>1, <1>3, <1>5, <1>6, SameWords DEF Owns, top
<1>9. CpuOk(Len(frame'[c]), frame'[c][1], Top(c)', ncli'[c], intr'[c], intena'[c])
    <2>1. Pushed(new) = Pushed(top)
        BY <1>3, <1>5 DEF Pushed
    <2> QED BY <1>1, <1>3, <1>4, <1>5, <1>6, <2>1 DEF CpuOk
<1> QED BY <1>1, <1>3, <1>6, <1>7, <1>8, <1>9, SpFrame


\* pushcli() notes the flags once, and holding() cannot fail.
LEMMA PushCliStep ==
    ASSUME SpInv, NEW c \in Cpu, PushCli(c)
    PROVE  SpInv'
<1> DEFINE top == Top(c)
<1>1. /\ CpuOk(Len(frame[c]), frame[c][1], top, ncli[c], intr[c], intena[c])
      /\ top \in Frames /\ SpTypes /\ WordsOk /\ ~spinpanic /\ Len(frame[c]) \in 1 .. 2
      /\ Cardinality(top.held) \in Nat /\ (Cardinality(top.held) = 0 <=> top.held = {})
      /\ top.held \subseteq SpinLock /\ top.lk \in SpinLock /\ SpinLock \subseteq Nat /\ ncli[c] \in Nat
    BY CpuFacts
<1>3. /\ top.at = "cli" /\ intr' = [intr EXCEPT ![c] = FALSE]
      /\ intena' = Noted(c) /\ ncli' = [ncli EXCEPT ![c] = @ + 1]
      /\ spinpanic' = Holding(c, top.lk)
      /\ SpSet(c, [top EXCEPT !.at = "xchg"])
      /\ UNCHANGED <<locked, lkcpu>>
    BY DEF PushCli, SpAt, SpGoto
<1> DEFINE new == [top EXCEPT !.at = "xchg"]
<1> HIDE DEF top
<1>5. new \in Frames /\ new.at = "xchg" /\ new.lk = top.lk /\ new.held = top.held
    BY <1>1, <1>3 DEF Frames, SpPlaces
<1> HIDE DEF new
<1>6. /\ frame' \in [Cpu -> Seq(Frames)] /\ \A d \in Cpu : Len(frame'[d]) = Len(frame[d])
      /\ \A d \in Cpu : d # c => frame'[d] = frame[d] /\ Top(d)' = Top(d)
      /\ Top(c)' = new
      /\ Len(frame[c]) = 2 => frame'[c][1] = frame[c][1]
    BY <1>1, <1>3, <1>5, TopSet DEF new
<1>7. SpTypes'
    <2>1. top.eflags \in BOOLEAN
        BY <1>1 DEF Frames
    <2>2. intena' \in [Cpu -> BOOLEAN]
        BY <1>1, <1>3, <2>1 DEF SpTypes, Noted, top
    <2>3. intr' \in [Cpu -> BOOLEAN] /\ ncli' \in [Cpu -> Nat]
        BY <1>1, <1>3 DEF SpTypes
    <2> QED BY <1>1, <1>3, <1>6, <2>2, <2>3, Zenon DEF SpTypes
<1>8. WordsOk'
    BY <1>1, <1>3, <1>5, <1>6, SameWords DEF Owns, top
<1>9. CpuOk(Len(frame'[c]), frame'[c][1], Top(c)', ncli'[c], intr'[c], intena'[c])
    <2>1. Pushed(new) = Pushed(top) + 1
        BY <1>1, <1>3, <1>5 DEF Pushed
    <2>2. ncli'[c] = ncli[c] + 1 /\ ~intr'[c] /\ intena'[c] = IF ncli[c] = 0 THEN top.eflags ELSE intena[c]
        BY <1>1, <1>3 DEF Noted, SpTypes, top
    <2> QED BY <1>1, <1>3, <1>5, <1>6, <2>1, <2>2 DEF CpuOk
<1>10. ~spinpanic'
    <2>1. top.lk \notin top.held
        BY <1>1, <1>3 DEF CpuOk
    <2> QED BY <1>1, <1>3, <2>1, Zenon DEF Holding, WordsOk, top
<1>11. \A d \in Cpu : d # c => ncli'[d] = ncli[d] /\ intr'[d] = intr[d] /\ intena'[d] = intena[d]
    BY <1>1, <1>3 DEF SpTypes, Noted
<1> QED BY <1>6, <1>7, <1>8, <1>9, <1>10, <1>11, SpFrame, Zenon

\* xchg() takes a lock that nobody owns.
LEMMA XchgStep ==
    ASSUME SpInv, NEW c \in Cpu, Xchg(c)
    PROVE  SpInv'
<1> DEFINE top == Top(c)
<1>1. /\ CpuOk(Len(frame[c]), frame[c][1], top, ncli[c], intr[c], intena[c])
      /\ top \in Frames /\ SpTypes /\ WordsOk /\ ~spinpanic /\ Len(frame[c]) \in 1 .. 2
      /\ Cardinality(top.held) \in Nat /\ (Cardinality(top.held) = 0 <=> top.held = {})
      /\ top.held \subseteq SpinLock /\ top.lk \in SpinLock /\ SpinLock \subseteq Nat /\ ncli[c] \in Nat
    BY CpuFacts
<1>3. /\ top.at = "xchg" /\ ~locked[top.lk] /\ locked' = [locked EXCEPT ![top.lk] = TRUE]
      /\ SpSet(c, [top EXCEPT !.at = "own"])
      /\ UNCHANGED <<lkcpu, intr, ncli, intena, spinpanic>>
    BY DEF Xchg, SpAt, SpGoto
<1> DEFINE new == [top EXCEPT !.at = "own"]
<1> HIDE DEF top
<1>5. new \in Frames /\ new.at = "own" /\ new.lk = top.lk /\ new.held = top.held
    BY <1>1, <1>3 DEF Frames, SpPlaces
<1> HIDE DEF new
<1>6. /\ frame' \in [Cpu -> Seq(Frames)] /\ \A d \in Cpu : Len(frame'[d]) = Len(frame[d])
      /\ \A d \in Cpu : d # c => frame'[d] = frame[d] /\ Top(d)' = Top(d)
      /\ Top(c)' = new
      /\ Len(frame[c]) = 2 => frame'[c][1] = frame[c][1]
    BY <1>1, <1>3, <1>5, TopSet DEF new
<1>7. SpTypes'
    BY <1>1, <1>3, <1>6 DEF SpTypes
<1>8. WordsOk'
    <2>1. \A d \in Cpu, l \in SpinLock : Owns(Top(d)', l) <=> Owns(Top(d), l) \/ (d = c /\ l = top.lk)
        BY <1>3, <1>5, <1>6 DEF Owns, top
    <2>2. \A d \in Cpu : ~Owns(Top(d), top.lk)
        BY <1>1, <1>3 DEF WordsOk
    <2>3. \A l \in SpinLock : locked'[l] <=> locked[l] \/ l = top.lk
        BY <1>1, <1>3 DEF SpTypes
    <2>4. \A d \in Cpu : Top(d)'.held = Top(d).held
        BY <1>5, <1>6 DEF top
    <2> QED BY <1>1, <1>3, <2>1, <2>2, <2>3, <2>4 DEF WordsOk
<1>9. CpuOk(Len(frame'[c]), frame'[c][1], Top(c)', ncli'[c], intr'[c], intena'[c])
    <2>1. Pushed(new) = Pushed(top)
        BY <1>1, <1>3, <1>5 DEF Pushed
    <2> QED BY <1>1, <1>3, <1>5, <1>6, <2>1 DEF CpuOk
<1> QED BY <1>1, <1>3, <1>6, <1>7, <1>8, <1>9, SpFrame, Zenon DEF SpTypes

\* lk->cpu is set, and the lock is held.
LEMMA OwnStep ==
    ASSUME SpInv, NEW c \in Cpu, Own(c)
    PROVE  SpInv'
<1> DEFINE top == Top(c)
<1>1. /\ CpuOk(Len(frame[c]), frame[c][1], top, ncli[c], intr[c], intena[c])
      /\ top \in Frames /\ SpTypes /\ WordsOk /\ ~spinpanic /\ Len(frame[c]) \in 1 .. 2
      /\ Cardinality(top.held) \in Nat /\ (Cardinality(top.held) = 0 <=> top.held = {})
      /\ top.held \subseteq SpinLock /\ top.lk \in SpinLock /\ SpinLock \subseteq Nat /\ ncli[c] \in Nat
    BY CpuFacts
<1>3. /\ top.at = "own" /\ lkcpu' = [lkcpu EXCEPT ![top.lk] = c]
      /\ SpSet(c, [top EXCEPT !.at = "out", !.held = @ \cup {top.lk}])
      /\ UNCHANGED <<locked, intr, ncli, intena, spinpanic>>
    BY DEF Own, SpAt
<1> DEFINE new == [top EXCEPT !.at = "out", !.held = @ \cup {top.lk}]
<1> HIDE DEF top
<1>5. new \in Frames /\ new.at = "out" /\ new.held = top.held \cup {top.lk}
    BY <1>1, <1>3, Zenon DEF Frames, SpPlaces
<1> HIDE DEF new
<1>6. /\ frame' \in [Cpu -> Seq(Frames)] /\ \A d \in Cpu : Len(frame'[d]) = Len(frame[d])
      /\ \A d \in Cpu : d # c => frame'[d] = frame[d] /\ Top(d)' = Top(d)
      /\ Top(c)' = new
      /\ Len(frame[c]) = 2 => frame'[c][1] = frame[c][1]
    BY <1>1, <1>3, <1>5, TopSet DEF new
<1>7. SpTypes'
    BY <1>1, <1>3, <1>6 DEF SpTypes
<1>8. WordsOk'
    <2>1. \A d \in Cpu, l \in SpinLock : Owns(Top(d)', l) <=> Owns(Top(d), l)
        BY <1>3, <1>5, <1>6 DEF Owns, top
    <2>2. Owns(top, top.lk)
        BY <1>3 DEF Owns
    <2>3. \A d \in Cpu : d # c => top.lk \notin Top(d).held
        BY <1>1, <2>2, Zenon DEF WordsOk, Owns, top
    <2>4. \A d \in Cpu, l \in SpinLock : l \in Top(d)'.held <=> l \in Top(d).held \/ (d = c /\ l = top.lk)
        BY <1>5, <1>6 DEF top
    <2>5. \A l \in SpinLock : lkcpu'[l] = IF l = top.lk THEN c ELSE lkcpu[l]
        BY <1>1, <1>3 DEF SpTypes
    <2> QED BY <1>1, <1>3, <2>1, <2>3, <2>4, <2>5 DEF WordsOk
<1>9. CpuOk(Len(frame'[c]), frame'[c][1], Top(c)', ncli'[c], intr'[c], intena'[c])
    <2>1. top.lk \notin top.held
        BY <1>1, <1>3 DEF CpuOk
    <2>2. Cardinality(new.held) = Cardinality(top.held) + 1
        BY <1>1, <1>5, <2>1, HeldCount, Zenon
    <2>3. Pushed(new) = Pushed(top)
        BY <1>1, <1>3, <1>5, <2>2 DEF Pushed
    <2> QED BY <1>1, <1>3, <1>5, <1>6, <2>3 DEF CpuOk
<1> QED BY <1>1, <1>3, <1>6, <1>7, <1>8, <1>9, SpFrame, Zenon DEF SpTypes


\* release(): holding() holds, and the first of the two words is cleared.
LEMMA SpReleaseStep ==
    ASSUME SpInv, NEW c \in Cpu, SpRelease(c)
    PROVE  SpInv'
<1> DEFINE top == Top(c)
<1>1. /\ CpuOk(Len(frame[c]), frame[c][1], top, ncli[c], intr[c], intena[c])
      /\ top \in Frames /\ SpTypes /\ WordsOk /\ ~spinpanic /\ Len(frame[c]) \in 1 .. 2
      /\ Cardinality(top.held) \in Nat /\ (Cardinality(top.held) = 0 <=> top.held = {})
      /\ top.held \subseteq SpinLock /\ top.lk \in SpinLock /\ SpinLock \subseteq Nat /\ ncli[c] \in Nat
    BY CpuFacts
<1>2. PICK l \in top.held :
        /\ spinpanic' = ~Holding(c, l) /\ ReleaseWrite(l, 1)
        /\ SpSet(c, [top EXCEPT !.at = "unlock", !.lk = l, !.held = @ \ {l}])
    BY Zenon DEF SpRelease
<1>3. /\ top.at = "out" /\ spinpanic' = ~Holding(c, l) /\ lkcpu' = [lkcpu EXCEPT ![l] = 0]
      /\ SpSet(c, [top EXCEPT !.at = "unlock", !.lk = l, !.held = @ \ {l}])
      /\ UNCHANGED <<locked, intr, ncli, intena>>
    BY <1>2 DEF SpRelease, SpAt, ReleaseWrite, ClearsCpu
<1> DEFINE new == [top EXCEPT !.at = "unlock", !.lk = l, !.held = @ \ {l}]
<1> HIDE DEF top
<1>5. new \in Frames /\ new.at = "unlock" /\ new.lk = l /\ new.held = top.held \ {l}
    BY <1>1, <1>3, Zenon DEF Frames, SpPlaces
<1> HIDE DEF new
<1>6. /\ frame' \in [Cpu -> Seq(Frames)] /\ \A d \in Cpu : Len(frame'[d]) = Len(frame[d])
      /\ \A d \in Cpu : d # c => frame'[d] = frame[d] /\ Top(d)' = Top(d)
      /\ Top(c)' = new
      /\ Len(frame[c]) = 2 => frame'[c][1] = frame[c][1]
    BY <1>1, <1>3, <1>5, TopSet DEF new
<1>7. SpTypes'
    BY <1>1, <1>3, <1>6 DEF SpTypes
<1>8. WordsOk'
    <2>1. \A d \in Cpu, k \in SpinLock : Owns(Top(d)', k) <=> Owns(Top(d), k)
        BY <1>2, <1>3, <1>5, <1>6 DEF Owns, top
    <2>4. \A d \in Cpu, k \in SpinLock : k \in Top(d)'.held <=> k \in Top(d).held /\ ~(d = c /\ k = l)
        BY <1>5, <1>6 DEF top
    <2>5. \A k \in SpinLock : lkcpu'[k] = IF k = l THEN 0 ELSE lkcpu[k]
        BY <1>1, <1>2, <1>3 DEF SpTypes
    <2>6. lkcpu[l] = c /\ 0 \notin Cpu /\ l \in SpinLock
        BY <1>1, <1>2, SpinAssumption DEF WordsOk, top
    <2> QED BY <1>1, <1>3, <2>1, <2>4, <2>5, <2>6 DEF WordsOk
<1>9. CpuOk(Len(frame'[c]), frame'[c][1], Top(c)', ncli'[c], intr'[c], intena'[c])
    <2>2. Cardinality(new.held) = Cardinality(top.held) - 1 /\ Cardinality(new.held) \in Nat
        <3>1. top.held \in SUBSET SpinLock /\ new.held \in SUBSET SpinLock
            BY <1>1, <1>5
        <3> QED BY <1>2, <1>5, <3>1, HeldCount
    <2>3. Pushed(new) = Pushed(top)
        BY <1>1, <1>3, <1>5, <2>2 DEF Pushed
    <2> QED BY <1>1, <1>3, <1>5, <1>6, <2>3 DEF CpuOk
<1>10. ~spinpanic'
    <2>1. Owns(top, l) /\ l \in SpinLock
        BY <1>1, <1>2 DEF Owns
    <2> QED BY <1>1, <1>2, <1>3, <2>1, Zenon DEF Holding, WordsOk, top
<1> QED BY <1>1, <1>3, <1>6, <1>7, <1>8, <1>9, <1>10, SpFrame, Zenon DEF SpTypes

\* The second word is cleared.
LEMMA UnlockStep ==
    ASSUME SpInv, NEW c \in Cpu, ReleaseUnlock(c)
    PROVE  SpInv'
<1> DEFINE top == Top(c)
<1>1. /\ CpuOk(Len(frame[c]), frame[c][1], top, ncli[c], intr[c], intena[c])
      /\ top \in Frames /\ SpTypes /\ WordsOk /\ ~spinpanic /\ Len(frame[c]) \in 1 .. 2
      /\ Cardinality(top.held) \in Nat /\ (Cardinality(top.held) = 0 <=> top.held = {})
      /\ top.held \subseteq SpinLock /\ top.lk \in SpinLock /\ SpinLock \subseteq Nat /\ ncli[c] \in Nat
    BY CpuFacts
<1>3. /\ top.at = "unlock" /\ locked' = [locked EXCEPT ![top.lk] = FALSE]
      /\ SpSet(c, [top EXCEPT !.at = "pop"])
      /\ UNCHANGED <<lkcpu, intr, ncli, intena, spinpanic>>
    BY DEF ReleaseUnlock, SpAt, SpGoto, ReleaseWrite, ClearsWord
<1> DEFINE new == [top EXCEPT !.at = "pop"]
<1> HIDE DEF top
<1>5. new \in Frames /\ new.at = "pop" /\ new.lk = top.lk /\ new.held = top.held
    BY <1>1, <1>3 DEF Frames, SpPlaces
<1> HIDE DEF new
<1>6. /\ frame' \in [Cpu -> Seq(Frames)] /\ \A d \in Cpu : Len(frame'[d]) = Len(frame[d])
      /\ \A d \in Cpu : d # c => frame'[d] = frame[d] /\ Top(d)' = Top(d)
      /\ Top(c)' = new
      /\ Len(frame[c]) = 2 => frame'[c][1] = frame[c][1]
    BY <1>1, <1>3, <1>5, TopSet DEF new
<1>7. SpTypes'
    BY <1>1, <1>3, <1>6 DEF SpTypes
<1>8. WordsOk'
    <2>0. top.lk \notin top.held /\ Owns(top, top.lk)
        BY <1>1, <1>3 DEF CpuOk, Owns
    <2>1. \A d \in Cpu, l \in SpinLock : Owns(Top(d)', l) <=> Owns(Top(d), l) /\ ~(d = c /\ l = top.lk)
        BY <1>3, <1>5, <1>6, <2>0 DEF Owns, top
    <2>2. \A d \in Cpu : Owns(Top(d), top.lk) => d = c
        BY <1>1, <2>0, Zenon DEF WordsOk, top
    <2>3. \A l \in SpinLock : locked'[l] <=> locked[l] /\ l # top.lk
        BY <1>1, <1>3 DEF SpTypes
    <2>4. \A d \in Cpu : Top(d)'.held = Top(d).held
        BY <1>5, <1>6 DEF top
    <2> QED BY <1>1, <1>3, <2>1, <2>2, <2>3, <2>4 DEF WordsOk
<1>9. CpuOk(Len(frame'[c]), frame'[c][1], Top(c)', ncli'[c], intr'[c], intena'[c])
    <2>1. Pushed(new) = Pushed(top)
        BY <1>1, <1>3, <1>5 DEF Pushed
    <2> QED BY <1>1, <1>3, <1>5, <1>6, <2>1 DEF CpuOk
<1> QED BY <1>1, <1>3, <1>6, <1>7, <1>8, <1>9, SpFrame, Zenon DEF SpTypes

\* popcli() does not count below zero, and turns interrupts on after the last.
LEMMA PopCliStep ==
    ASSUME SpInv, NEW c \in Cpu, PopCli(c)
    PROVE  SpInv'
<1> DEFINE top == Top(c)
<1>1. /\ CpuOk(Len(frame[c]), frame[c][1], top, ncli[c], intr[c], intena[c])
      /\ top \in Frames /\ SpTypes /\ WordsOk /\ ~spinpanic /\ Len(frame[c]) \in 1 .. 2
      /\ Cardinality(top.held) \in Nat /\ (Cardinality(top.held) = 0 <=> top.held = {})
      /\ top.held \subseteq SpinLock /\ top.lk \in SpinLock /\ SpinLock \subseteq Nat /\ ncli[c] \in Nat
    BY CpuFacts
<1>3. /\ top.at = "pop" /\ spinpanic' = (intr[c] \/ ncli[c] = 0) /\ ncli' = [ncli EXCEPT ![c] = @ - 1]
      /\ intr' = IF ncli[c] = 1 /\ intena[c] THEN [intr EXCEPT ![c] = TRUE] ELSE intr
      /\ SpSet(c, [top EXCEPT !.at = "out"])
      /\ UNCHANGED <<locked, lkcpu, intena>>
    BY DEF PopCli, SpAt, SpGoto
<1>4. ncli[c] > 0
    BY <1>1, <1>3 DEF CpuOk, Pushed
<1>10. ~intr[c] /\ ~spinpanic'
    <2>1. ~intr[c] /\ ncli[c] # 0
        BY <1>1, <1>4 DEF CpuOk
    <2> QED BY <1>3, <2>1, Zenon
<1> DEFINE new == [top EXCEPT !.at = "out"]
<1> HIDE DEF top
<1>5. new \in Frames /\ new.at = "out" /\ new.lk = top.lk /\ new.held = top.held
    BY <1>1, <1>3 DEF Frames, SpPlaces
<1> HIDE DEF new
<1>6. /\ frame' \in [Cpu -> Seq(Frames)] /\ \A d \in Cpu : Len(frame'[d]) = Len(frame[d])
      /\ \A d \in Cpu : d # c => frame'[d] = frame[d] /\ Top(d)' = Top(d)
      /\ Top(c)' = new
      /\ Len(frame[c]) = 2 => frame'[c][1] = frame[c][1]
    BY <1>1, <1>3, <1>5, TopSet DEF new
<1>7. SpTypes'
    <2>1. ncli' \in [Cpu -> Nat]
        BY <1>1, <1>3, <1>4 DEF SpTypes
    <2>2. intr' \in [Cpu -> BOOLEAN]
        BY <1>1, <1>3, Zenon DEF SpTypes
    <2> QED BY <1>1, <1>3, <1>6, <2>1, <2>2, Zenon DEF SpTypes
<1>8. WordsOk'
    BY <1>1, <1>3, <1>5, <1>6, SameWords DEF Owns, top
<1>9. CpuOk(Len(frame'[c]), frame'[c][1], Top(c)', ncli'[c], intr'[c], intena'[c])
    <2>1. Pushed(top) = Pushed(new) + 1 /\ Pushed(new) \in Nat
        BY <1>1, <1>3, <1>5 DEF Pushed
    <2>2. ncli'[c] = Pushed(new)
        BY <1>1, <1>3, <2>1 DEF SpTypes, CpuOk
    <2>3. intr'[c] <=> ncli[c] = 1 /\ intena[c]
        <3>1. CASE ncli[c] = 1 /\ intena[c]
            BY <1>1, <1>3, <3>1, Zenon DEF SpTypes
        <3>2. CASE ~(ncli[c] = 1 /\ intena[c])
            BY <1>3, <1>10, <3>2, Zenon
        <3> QED BY <3>1, <3>2
    <2>4. ncli[c] = Pushed(new) + 1 /\ (intena[c] <=> Len(frame[c]) = 1) /\ (Len(frame[c]) = 2 => frame[c][1].held = {}
             /\ (frame[c][1].at = "cli" => frame[c][1].eflags) /\ frame[c][1].at \in {"out", "cli"})
        BY <1>1, <1>4, <2>1 DEF CpuOk
    <2> QED BY <1>3, <1>5, <1>6, <2>1, <2>2, <2>3, <2>4 DEF CpuOk
<1>11. \A d \in Cpu : d # c => ncli'[d] = ncli[d] /\ intr'[d] = intr[d] /\ intena'[d] = intena[d]
    BY <1>1, <1>3 DEF SpTypes
<1> QED BY <1>6, <1>7, <1>8, <1>9, <1>10, <1>11, SpFrame, Zenon

\* The handler starts with interrupts off and nothing counted.
LEMMA SpInterruptStep ==
    ASSUME SpInv, NEW c \in Cpu, SpInterrupt(c)
    PROVE  SpInv'
<1> DEFINE top == Top(c)
<1>1. /\ CpuOk(Len(frame[c]), frame[c][1], top, ncli[c], intr[c], intena[c])
      /\ top \in Frames /\ SpTypes /\ WordsOk /\ ~spinpanic /\ Len(frame[c]) \in 1 .. 2
      /\ Cardinality(top.held) \in Nat /\ (Cardinality(top.held) = 0 <=> top.held = {})
      /\ top.held \subseteq SpinLock /\ top.lk \in SpinLock /\ SpinLock \subseteq Nat /\ ncli[c] \in Nat
    BY CpuFacts
<1>2. /\ intr[c] /\ Len(frame[c]) = 1 /\ intr' = [intr EXCEPT ![c] = FALSE]
      /\ frame' = [frame EXCEPT ![c] = Append(@, Frame)]
      /\ UNCHANGED <<locked, lkcpu, ncli, intena, spinpanic>>
    BY DEF SpInterrupt
<1> DEFINE s == frame[c]
           t == Append(frame[c], Frame)
<1>3. Frame \in Frames /\ Frame.at = "out" /\ Frame.held = {} /\ Cardinality({}) = 0
    BY SpinAssumption, FS_EmptySet DEF Frame, Frames, SpPlaces, SpinLock
<1>4. t \in Seq(Frames) /\ Len(t) = 2 /\ t[1] = s[1] /\ t[2] = Frame /\ top = s[1]
    <2>1. s \in Seq(Frames) /\ Len(s) = 1 /\ top = s[1]
        BY <1>1, <1>2 DEF SpTypes, Top
    <2> HIDE DEF s, top
    <2>2. Append(s, Frame) \in Seq(Frames) /\ Len(Append(s, Frame)) = Len(s) + 1
          /\ (\A i \in 1 .. Len(s) : Append(s, Frame)[i] = s[i]) /\ Append(s, Frame)[Len(s) + 1] = Frame
        <3> DEFINE new == Frame
        <3>1. new \in Frames /\ s \in Seq(Frames)
            BY <1>3, <2>1
        <3> HIDE DEF new
        <3>2. Append(s, new) \in Seq(Frames) /\ Len(Append(s, new)) = Len(s) + 1
              /\ (\A i \in 1 .. Len(s) : Append(s, new)[i] = s[i]) /\ Append(s, new)[Len(s) + 1] = new
            BY <3>1, AppendProperties
        <3> QED BY <3>2 DEF new
    <2> QED BY <2>1, <2>2 DEF s
<1> HIDE DEF t, s
<1>5. frame' \in [Cpu -> Seq(Frames)] /\ frame'[c] = t /\ \A d \in Cpu : d # c => frame'[d] = frame[d]
    BY <1>1, <1>2, <1>4 DEF SpTypes, t
<1>6. Top(c)' = Frame /\ \A d \in Cpu : d # c => Top(d)' = Top(d)
    BY <1>4, <1>5, Zenon DEF Top
<1>7. SpTypes'
    <2>1. \A d \in Cpu : Len(frame'[d]) \in 1 .. 2
        <3>1. 2 \in 1 .. 2 /\ Len(frame'[c]) = 2
            BY <1>4, <1>5
        <3>2. \A d \in Cpu : d # c => Len(frame'[d]) = Len(frame[d])
            BY <1>5
        <3> QED BY <1>1, <3>1, <3>2, Zenon DEF SpTypes
    <2>2. intr' \in [Cpu -> BOOLEAN]
        BY <1>1, <1>2 DEF SpTypes
    <2> QED BY <1>1, <1>2, <1>5, <2>1, <2>2, Zenon DEF SpTypes
<1>8. top.held = {} /\ top.at \in {"out", "cli"} /\ (top.at = "cli" => top.eflags) /\ ncli[c] = 0
    <2>1. Pushed(top) = 0 /\ ncli[c] = 0
        BY <1>1, <1>2 DEF CpuOk
    <2>2. top.held = {} /\ top.at \notin {"xchg", "own", "unlock", "pop"}
        BY <1>1, <2>1 DEF Pushed
    <2> QED BY <1>1, <1>2, <2>1, <2>2 DEF CpuOk, Frames, SpPlaces
<1>9. WordsOk'
    BY <1>1, <1>2, <1>3, <1>6, <1>8, SameWords, Zenon DEF Owns
<1>10. CpuOk(Len(frame'[c]), frame'[c][1], Top(c)', ncli'[c], intr'[c], intena'[c])
    <2>1. Pushed(Frame) = 0
        BY <1>3 DEF Pushed
    <2>2. ~intr'[c] /\ ncli'[c] = 0
        BY <1>1, <1>2, <1>8 DEF SpTypes
    <2> HIDE DEF top
    <2>3. frame'[c][1] = top
        BY <1>4, <1>5
    <2>4. Len(frame'[c]) = 2 /\ Len(frame'[c]) # 1 /\ ~(ncli'[c] > 0)
        BY <1>4, <1>5, <2>2
    <2>5. Top(c)' = Frame /\ Frame.at \notin {"own", "unlock", "cli", "xchg"}
        BY <1>3, <1>6
    <2> QED BY <1>3, <1>8, <2>1, <2>2, <2>3, <2>4, <2>5 DEF CpuOk
<1>11. \A d \in Cpu : d # c => intr'[d] = intr[d]
    BY <1>1, <1>2 DEF SpTypes
<1> QED BY <1>1, <1>2, <1>5, <1>6, <1>7, <1>9, <1>10, <1>11, SpFrame, Zenon

\* The thread that was interrupted had interrupts on and nothing counted.
LEMMA IretStep ==
    ASSUME SpInv, NEW c \in Cpu, Iret(c)
    PROVE  SpInv'
<1> DEFINE top == Top(c)
<1>1. /\ CpuOk(Len(frame[c]), frame[c][1], top, ncli[c], intr[c], intena[c])
      /\ top \in Frames /\ SpTypes /\ WordsOk /\ ~spinpanic /\ Len(frame[c]) \in 1 .. 2
      /\ Cardinality(top.held) \in Nat /\ (Cardinality(top.held) = 0 <=> top.held = {})
      /\ top.held \subseteq SpinLock /\ top.lk \in SpinLock /\ SpinLock \subseteq Nat /\ ncli[c] \in Nat
    BY CpuFacts
<1>2. /\ Len(frame[c]) = 2 /\ top.at = "out" /\ top.held = {}
      /\ intr' = [intr EXCEPT ![c] = TRUE] /\ frame' = [frame EXCEPT ![c] = <<frame[c][1]>>]
      /\ UNCHANGED <<locked, lkcpu, ncli, intena, spinpanic>>
    BY DEF Iret, SpAt
<1> DEFINE low == frame[c][1]
           t == <<low>>
<1>3. low \in Frames
    <2>1. frame[c] \in Seq(Frames) /\ 1 \in 1 .. Len(frame[c])
        BY <1>1, <1>2 DEF SpTypes
    <2> QED BY <2>1, ElementOfSeq, Zenon
<1>4. t \in Seq(Frames) /\ Len(t) = 1 /\ t[1] = low
    <2> HIDE DEF low
    <2> QED BY <1>3
<1>5. frame' \in [Cpu -> Seq(Frames)] /\ frame'[c] = t /\ \A d \in Cpu : d # c => frame'[d] = frame[d]
    BY <1>1, <1>2, <1>4 DEF SpTypes
<1> HIDE DEF t
<1>6. Top(c)' = low /\ \A d \in Cpu : d # c => Top(d)' = Top(d)
    BY <1>4, <1>5, Zenon DEF Top
<1>7. SpTypes'
    BY <1>1, <1>2, <1>4, <1>5 DEF SpTypes
<1>8. /\ low.held = {} /\ low.at \in {"out", "cli"} /\ (low.at = "cli" => low.eflags)
      /\ ncli[c] = 0 /\ Cardinality({}) = 0
    <2>1. Cardinality({}) = 0
        BY FS_EmptySet
    <2>2. Pushed(top) = 0
        BY <1>2, <2>1 DEF Pushed
    <2> QED BY <1>1, <1>2, <2>1, <2>2 DEF CpuOk
<1> HIDE DEF low
<1>9. WordsOk'
    BY <1>1, <1>2, <1>6, <1>8, SameWords, Zenon DEF Owns
<1>10. CpuOk(Len(frame'[c]), frame'[c][1], Top(c)', ncli'[c], intr'[c], intena'[c])
    <2>1. Pushed(low) = 0
        BY <1>8 DEF Pushed
    <2>2. intr'[c] /\ ncli'[c] = 0
        BY <1>1, <1>2, <1>8 DEF SpTypes
    <2> QED BY <1>4, <1>5, <1>6, <1>8, <2>1, <2>2 DEF CpuOk
<1> QED BY <1>1, <1>2, <1>5, <1>6, <1>7, <1>9, <1>10, SpFrame, Zenon DEF SpTypes

\* The invariant holds in every reachable state.
LEMMA SpInvariant == SpSpec => []SpInv
<1>1. SpInit => SpInv
    <2> SUFFICES ASSUME SpInit PROVE SpInv
        OBVIOUS
    <2>1. Frame \in Frames /\ Frame.at = "out" /\ Frame.held = {} /\ Cardinality({}) = 0 /\ 0 \notin Cpu
        BY SpinAssumption, FS_EmptySet DEF Frame, Frames, SpPlaces, SpinLock
    <2>2. <<Frame>> \in Seq(Frames) /\ Len(<<Frame>>) = 1 /\ <<Frame>>[1] = Frame
        BY <2>1
    <2>3. SpTypes
        BY <2>2 DEF SpInit, SpTypes
    <2>4. \A c \in Cpu : Len(frame[c]) = 1 /\ frame[c][1] = Frame /\ Top(c) = Frame
        BY <2>2 DEF SpInit, Top
    <2>5. WordsOk
        BY <2>1, <2>4 DEF SpInit, WordsOk, Owns
    <2>6. Pushed(Frame) = 0
        BY <2>1 DEF Pushed
    <2>7. \A c \in Cpu : CpuOk(Len(frame[c]), frame[c][1], Top(c), ncli[c], intr[c], intena[c])
        BY <2>1, <2>4, <2>6 DEF SpInit, CpuOk
    <2> QED BY <2>3, <2>5, <2>7, Zenon DEF SpInv, SpInit
<1>2. SpInv /\ [SpNext]_spvars => SpInv'
    <2> SUFFICES ASSUME SpInv, [SpNext]_spvars PROVE SpInv'
        OBVIOUS
    <2>1. CASE UNCHANGED spvars
        BY <2>1 DEF spvars, SpInv, SpTypes, WordsOk, Top
    <2>2. CASE SpNext
        BY <2>2, SpAcquireStep, PushCliStep, XchgStep, OwnStep, SpReleaseStep, UnlockStep, PopCliStep,
           SpInterruptStep, IretStep, Zenon DEF SpNext, SpStep
    <2> QED BY <2>1, <2>2
<1> QED BY <1>1, <1>2, PTL DEF SpSpec

\* spinlock.c keeps its own discipline on any number of CPUs and locks: a lock is
\* held on one CPU, by one frame; no check of acquire(), release() or popcli() fails;
\* interrupts are off while a lock is held, so that no handler waits for the thread
\* under it, and come back as they were when the last lock is released.
THEOREM SpinlocksDisciplined == SpSpec => []SpinDiscipline
<1>1. SpInv => SpinDiscipline
    <2> SUFFICES ASSUME SpInv PROVE SpinDiscipline
        OBVIOUS
    <2>1. ASSUME NEW c \in Cpu, NEW f \in 1 .. 2, f <= Len(frame[c]), NEW l \in frame[c][f].held
          PROVE  ~intr[c] /\ lkcpu[l] = c /\ \A d \in Cpu : d # c => l \notin Top(d).held
        <3>1. /\ CpuOk(Len(frame[c]), frame[c][1], Top(c), ncli[c], intr[c], intena[c])
              /\ Cardinality(Top(c).held) \in Nat /\ (Cardinality(Top(c).held) = 0 <=> Top(c).held = {})
              /\ WordsOk /\ Top(c).held \subseteq SpinLock /\ Len(frame[c]) \in 1 .. 2
            BY CpuFacts
        <3>2. l \in Top(c).held
            <4>1. f = Len(frame[c]) \/ (f = 1 /\ Len(frame[c]) = 2)
                <5>1. \A m \in 1 .. 2 : f <= m => f = m \/ (f = 1 /\ m = 2)
                    OBVIOUS
                <5> QED BY <2>1, <3>1, <5>1, Zenon
            <4>2. Len(frame[c]) = 2 => frame[c][1].held = {}
                BY <3>1 DEF CpuOk
            <4> QED BY <4>1, <4>2, Zenon DEF Top
        <3>3. Pushed(Top(c)) > 0
            BY <3>1, <3>2 DEF Pushed
        <3> QED BY <3>1, <3>2, <3>3 DEF CpuOk, WordsOk
    <2>2. ASSUME NEW c \in Cpu, SpAt(c, "out"), Top(c).held = {}
          PROVE  ncli[c] = 0 /\ (intr[c] <=> Len(frame[c]) = 1)
        <3>1. CpuOk(Len(frame[c]), frame[c][1], Top(c), ncli[c], intr[c], intena[c])
            BY CpuFacts
        <3>2. Pushed(Top(c)) = 0
            BY <2>2, FS_EmptySet DEF Pushed, SpAt
        <3> QED BY <3>1, <3>2 DEF CpuOk
    <2> QED BY <2>1, <2>2, Zenon DEF SpinDiscipline, SpInv
<1> QED BY <1>1, SpInvariant, PTL
=============================================================================
