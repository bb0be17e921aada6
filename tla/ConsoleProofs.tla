--------------------------- MODULE ConsoleProofs ----------------------------
(***************************************************************************)
(* The safety of Console, proved for every number of readers, size of the  *)
(* ring, width of its indices and screen: the ring is the line editor of   *)
(* Tty, no reader misses input, and the cursor stays on the screen.        *)
(***************************************************************************)
EXTENDS Console, SequenceTheorems, TLAPS

\* Division with remainder.
LEMMA DivMod ==
    ASSUME NEW x \in Int, NEW n \in Nat, n > 0
    PROVE  x = (n * (x \div n)) + (x % n) /\ x % n \in 0 .. n - 1 /\ x \div n \in Int
OBVIOUS

\* The remainder of a multiple and something smaller than n.
LEMMA ModOfMultiple ==
    ASSUME NEW t \in Int, NEW n \in Nat, n > 0, NEW r \in 0 .. n - 1
    PROVE  ((n * t) + r) % n = r
OBVIOUS

\* A multiple of n adds nothing modulo n.
LEMMA ModPlusMultiple ==
    ASSUME NEW t \in Int, NEW x \in Int, NEW n \in Nat, n > 0
    PROVE  (x + (n * t)) % n = x % n
<1> DEFINE q == x \div n
           r == x % n
<1>1. x = (n * q) + r /\ r \in 0 .. n - 1 /\ q \in Int
   BY DivMod
<1>2. x + (n * t) = (n * (q + t)) + r
   <2> HIDE DEF q, r
   <2> QED BY <1>1
<1>3. q + t \in Int BY <1>1
<1>4. ((n * (q + t)) + r) % n = r
   <2> HIDE DEF q, r
   <2> QED BY <1>1, <1>3, ModOfMultiple
<1> QED BY <1>2, <1>4

\* A counter that wraps at a multiple of n counts on modulo n.
LEMMA ModWrap ==
    ASSUME NEW x \in Int, NEW n \in Nat, n > 0, NEW m \in Nat, m % n = 0
    PROVE  (x + m) % n = x % n /\ (x - m) % n = x % n
<1>1. m = n * (m \div n) /\ m \div n \in Int BY DivMod
<1>2. x - m = x + (n * (-(m \div n))) /\ -(m \div n) \in Int BY <1>1
<1> DEFINE t == m \div n
<1> HIDE DEF t
<1>3. (x + (n * t)) % n = x % n BY <1>1, ModPlusMultiple DEF t
<1>4. (x + (n * (-t))) % n = x % n BY <1>2, ModPlusMultiple, Zenon DEF t
<1> QED BY <1>1, <1>2, <1>3, <1>4 DEF t

\* Numbers that are less than n apart differ modulo n.
LEMMA ModApart ==
    ASSUME NEW x \in Int, NEW y \in Int, x < y, NEW n \in Nat, n > 0, y - x < n
    PROVE  x % n # y % n
<1> DEFINE q == x \div n
           r == x % n
<1>1. x = (n * q) + r /\ r \in 0 .. n - 1 /\ q \in Int
   BY DivMod
<1> DEFINE k == y - x
<1>2. k \in 1 .. n - 1 OBVIOUS
<1> HIDE DEF q, r
<1>3. CASE r + k < n
   <2>1. y = (n * q) + (r + k) /\ r + k \in 0 .. n - 1 BY <1>1, <1>2, <1>3
   <2>2. y % n = r + k BY <2>1, <1>1, ModOfMultiple, Zenon
   <2> QED BY <2>2, <1>2, <1>1 DEF r
<1>4. CASE r + k >= n
   <2>1. y = (n * (q + 1)) + (r + k - n) /\ r + k - n \in 0 .. n - 1 /\ q + 1 \in Int BY <1>1, <1>2, <1>4
   <2>2. y % n = r + k - n BY <2>1, <1>1, ModOfMultiple, Zenon
   <2> QED BY <2>2, <1>2, <1>1 DEF r
<1> QED BY <1>3, <1>4, <1>1, <1>2

\* The distance of two words, without the modulus.
LEMMA ModDiff ==
    ASSUME NEW m \in Nat, NEW a \in 0 .. m - 1, NEW b \in 0 .. m - 1
    PROVE  (b - a) % m = IF a <= b THEN b - a ELSE (b - a) + m
OBVIOUS

\* The sum of a word and at most a whole turn.
LEMMA ModSum ==
    ASSUME NEW m \in Nat, NEW a \in 0 .. m - 1, NEW k \in 0 .. m
    PROVE  (a + k) % m = IF a + k < m THEN a + k ELSE (a + k) - m
OBVIOUS

\* A word less a smaller one.
LEMMA ModBack ==
    ASSUME NEW m \in Nat, NEW a \in 0 .. m - 1, NEW k \in 0 .. m - 1
    PROVE  (a + (-k)) % m = IF k <= a THEN a - k ELSE (a - k) + m
OBVIOUS

\* What consoleintr() stores.
Char == Chars \cup {"nl", "eof"}

\* How much of the ring is complete input, how much the line being typed.
Ready == (wi - ri) % UintValues
Typed == (ei - wi) % UintValues

\* The character that comes t after index r.
CellAt(rg, r, t) == rg[(r + t) % INPUT_BUF]
Cell(t) == CellAt(ring, ri, t)

\* The ring: three indices in their order, no more than INPUT_BUF apart, and no
\* newline in the line that is being typed.
InputInv ==
    /\ ring \in [0 .. INPUT_BUF - 1 -> Char]
    /\ ri \in 0 .. UintValues - 1 /\ wi \in 0 .. UintValues - 1 /\ ei \in 0 .. UintValues - 1
    /\ Ready + Typed <= INPUT_BUF
    /\ \A t \in Ready .. (Ready + Typed) - 1 : Cell(t) # "nl"

\* An index that is k after i is at the same place of the ring whether or not
\* it wraps around the machine word.
LEMMA InputPlace ==
    ASSUME NEW i \in 0 .. UintValues - 1, NEW k \in 0 .. UintValues
    PROVE  ((i + k) % UintValues) % INPUT_BUF = (i + k) % INPUT_BUF
<1>1. /\ i + k \in Int /\ INPUT_BUF \in Nat /\ INPUT_BUF > 0 /\ UintValues \in Nat
      /\ UintValues % INPUT_BUF = 0
    BY ConsAssumption
<1>2. (i + k) % UintValues = IF i + k < UintValues THEN i + k ELSE (i + k) - UintValues
    BY <1>1, ModSum, Zenon
<1>3. ((i + k) - UintValues) % INPUT_BUF = (i + k) % INPUT_BUF
    BY <1>1, ModWrap, Zenon
<1> QED BY <1>2, <1>3

\* Ready and Typed without the modulus.
Indices == ri \in 0 .. UintValues - 1 /\ wi \in 0 .. UintValues - 1 /\ ei \in 0 .. UintValues - 1
Apart ==
    /\ Ready = IF ri <= wi THEN wi - ri ELSE (wi - ri) + UintValues
    /\ Typed = IF wi <= ei THEN ei - wi ELSE (ei - wi) + UintValues
    /\ (ei - ri) % UintValues = IF ri <= ei THEN ei - ri ELSE (ei - ri) + UintValues
    /\ Ready \in Nat /\ Typed \in Nat

\* The indices are that far apart.
LEMMA Distances == Indices => Apart
<1> SUFFICES ASSUME Indices PROVE Apart
    OBVIOUS
<1>1. UintValues \in Nat
    BY ConsAssumption
<1>2. /\ Ready = IF ri <= wi THEN wi - ri ELSE (wi - ri) + UintValues
      /\ Typed = IF wi <= ei THEN ei - wi ELSE (ei - wi) + UintValues
      /\ (ei - ri) % UintValues = IF ri <= ei THEN ei - ri ELSE (ei - ri) + UintValues
    BY <1>1, ModDiff, Zenon DEF Ready, Typed, Indices
<1> QED BY <1>1, <1>2 DEF Indices, Apart

\* The same after a step.
LEMMA DistancesNext == Indices' => Apart'
BY Distances, PTL

\* The two parts of the ring that the readers see, by the distance from input.r.
Segments ==
    /\ Part(ri, wi) = [k \in 1 .. Ready |-> Cell(k - 1)]
    /\ Part(wi, ei) = [k \in 1 .. Typed |-> Cell(Ready + (k - 1))]

\* The parts are those segments.
LEMMA Parts == InputInv => Segments
<1> SUFFICES ASSUME InputInv PROVE Segments
    OBVIOUS
<1>1. /\ ri \in 0 .. UintValues - 1 /\ wi \in 0 .. UintValues - 1 /\ ei \in 0 .. UintValues - 1
      /\ UintValues \in Nat /\ INPUT_BUF \in Nat /\ INPUT_BUF < UintValues /\ Ready + Typed <= INPUT_BUF
    BY ConsAssumption DEF InputInv
<1>2. /\ Ready = IF ri <= wi THEN wi - ri ELSE (wi - ri) + UintValues
      /\ Ready \in Nat /\ Typed \in Nat
    BY <1>1, Distances DEF Indices, Apart
<1>3. ASSUME NEW k \in 1 .. Ready PROVE InputAt(Add(ri, k - 1)) = Cell(k - 1)
    <2>1. k - 1 \in 0 .. UintValues
        BY <1>1, <1>2
    <2> QED BY <1>1, <2>1, InputPlace, Zenon DEF InputAt, Add, Cell, CellAt
<1>4. ASSUME NEW k \in 1 .. Typed PROVE InputAt(Add(wi, k - 1)) = Cell(Ready + (k - 1))
    <2>1. k - 1 \in 0 .. UintValues /\ Ready + (k - 1) \in 0 .. UintValues
        BY <1>1, <1>2
    <2>2. /\ ((wi + (k - 1)) % UintValues) % INPUT_BUF = (wi + (k - 1)) % INPUT_BUF
          /\ ((ri + (Ready + (k - 1))) % UintValues) % INPUT_BUF = (ri + (Ready + (k - 1))) % INPUT_BUF
        BY <1>1, <2>1, InputPlace, Zenon
    <2>3. /\ ri + (Ready + (k - 1)) = wi + (k - 1) \/ ri + (Ready + (k - 1)) = (wi + (k - 1)) + UintValues
          /\ wi + (k - 1) \in Int
        BY <1>1, <1>2
    <2>4. INPUT_BUF > 0 /\ UintValues % INPUT_BUF = 0
        BY ConsAssumption
    <2>5. ((wi + (k - 1)) + UintValues) % INPUT_BUF = (wi + (k - 1)) % INPUT_BUF
        BY <1>1, <2>3, <2>4, ModWrap, Zenon
    <2>6. (ri + (Ready + (k - 1))) % INPUT_BUF = (wi + (k - 1)) % INPUT_BUF
        BY <2>3, <2>5
    <2> QED BY <2>2, <2>6 DEF InputAt, Add, Cell, CellAt
<1> QED BY <1>3, <1>4 DEF Part, Ready, Typed, Segments

\* The same after a step.
LEMMA PartsNext == InputInv' => Segments'
BY Parts, PTL

\* The facts about numbers that the steps use.
LEMMA InputFacts ==
    ASSUME InputInv
    PROVE  /\ Indices /\ Apart
           /\ UintValues \in Nat /\ INPUT_BUF \in Nat /\ INPUT_BUF > 0 /\ INPUT_BUF < UintValues
           /\ Ready + Typed <= INPUT_BUF
           /\ (ei - ri) % UintValues = Ready + Typed
<1>1. Indices /\ Apart
    BY Distances DEF InputInv, Indices
<1>2. /\ UintValues \in Nat /\ INPUT_BUF \in Nat /\ INPUT_BUF > 0 /\ INPUT_BUF < UintValues
      /\ Ready + Typed <= INPUT_BUF
    BY ConsAssumption DEF InputInv
<1> QED BY <1>1, <1>2 DEF Indices, Apart

\* A character that is typed goes to the cell after the last.
LEMMA TypeCells ==
    ASSUME InputInv, NEW c \in Char, TypeKey(c)
    PROVE  LET e == Ready + Typed IN
           /\ e < INPUT_BUF /\ ri' = ri /\ Indices'
           /\ ring' \in [0 .. INPUT_BUF - 1 -> Char]
           /\ CellAt(ring', ri', e) = c
           /\ \A t \in 0 .. e - 1 : CellAt(ring', ri', t) = Cell(t)
           /\ IF c \in {"nl", "eof"} \/ e + 1 = INPUT_BUF THEN Ready' = e + 1 /\ Typed' = 0
              ELSE Ready' = Ready /\ Typed' = Typed + 1
<1> DEFINE e == Ready + Typed
<1>1. /\ Indices /\ Apart
      /\ UintValues \in Nat /\ INPUT_BUF \in Nat /\ INPUT_BUF > 0 /\ INPUT_BUF < UintValues
      /\ e <= INPUT_BUF
      /\ (ei - ri) % UintValues = e
    BY InputFacts
<1>2. e < INPUT_BUF /\ e \in Nat
    BY <1>1 DEF TypeKey, InputFull, Apart
<1>3. ei' = IF ei + 1 < UintValues THEN ei + 1 ELSE (ei + 1) - UintValues
    <2>1. ei \in 0 .. UintValues - 1 /\ 1 \in 0 .. UintValues
        BY <1>1 DEF Indices
    <2>2. ei' = (ei + 1) % UintValues
        BY DEF TypeKey, Add
    <2> QED BY <1>1, <2>1, <2>2, ModSum, Zenon
<1>4. Add(ri, INPUT_BUF) = IF ri + INPUT_BUF < UintValues THEN ri + INPUT_BUF
                                                       ELSE (ri + INPUT_BUF) - UintValues
    <2>1. ri \in 0 .. UintValues - 1 /\ INPUT_BUF \in 0 .. UintValues
        BY <1>1 DEF Indices
    <2> QED BY <1>1, <2>1, ModSum, Zenon DEF Add
<1>5. ri' = ri /\ wi' = IF c \in {"nl", "eof"} \/ ei' = Add(ri, INPUT_BUF) THEN ei' ELSE wi
    BY DEF TypeKey, Typing
<1>6. Indices'
    BY <1>1, <1>3, <1>5 DEF Indices
<1>7. Apart'
    BY <1>6, DistancesNext
<1> HIDE DEF e
<1>8. ei' = Add(ri, INPUT_BUF) <=> e + 1 = INPUT_BUF
    BY <1>1, <1>2, <1>3, <1>4 DEF Indices, Apart, e
<1>9. IF c \in {"nl", "eof"} \/ e + 1 = INPUT_BUF THEN Ready' = e + 1 /\ Typed' = 0
      ELSE Ready' = Ready /\ Typed' = Typed + 1
    BY <1>1, <1>2, <1>3, <1>5, <1>7, <1>8 DEF Indices, Apart, e
<1>10. ei % INPUT_BUF = (ri + e) % INPUT_BUF /\ ei % INPUT_BUF \in 0 .. INPUT_BUF - 1
    <2>1. /\ ri \in 0 .. UintValues - 1 /\ e \in 0 .. UintValues /\ ei \in Int
          /\ ri + e = ei \/ ri + e = ei + UintValues
        BY <1>1, <1>2 DEF Indices, Apart, e
    <2>2. UintValues % INPUT_BUF = 0
        BY ConsAssumption
    <2>3. (ei + UintValues) % INPUT_BUF = ei % INPUT_BUF
        BY <1>1, <2>1, <2>2, ModWrap, Zenon
    <2>4. ei % INPUT_BUF \in 0 .. INPUT_BUF - 1
        BY <1>1, <2>1, DivMod, Zenon
    <2> QED BY <2>1, <2>3, <2>4
<1>11. ring' = [ring EXCEPT ![(ri + e) % INPUT_BUF] = c] /\ ring \in [0 .. INPUT_BUF - 1 -> Char]
    BY <1>10, Zenon DEF TypeKey, InputInv
<1>12. CellAt(ring', ri', e) = c
    BY <1>5, <1>10, <1>11 DEF CellAt
<1>13. ASSUME NEW t \in 0 .. e - 1 PROVE CellAt(ring', ri', t) = Cell(t)
    <2>1. /\ ri + t \in Int /\ ri + e \in Int /\ ri + t < ri + e /\ (ri + e) - (ri + t) < INPUT_BUF
        BY <1>1, <1>2 DEF Indices
    <2>2. (ri + t) % INPUT_BUF # (ri + e) % INPUT_BUF
        BY <1>1, <2>1, ModApart, Zenon
    <2>3. (ri + t) % INPUT_BUF \in 0 .. INPUT_BUF - 1
        BY <1>1, <2>1, DivMod, Zenon
    <2> QED BY <1>5, <1>11, <2>2, <2>3 DEF Cell, CellAt
<1>14. ring' \in [0 .. INPUT_BUF - 1 -> Char]
    BY <1>11, Zenon
<1> QED BY <1>2, <1>5, <1>6, <1>9, <1>12, <1>13, <1>14 DEF e

\* Both parts are sequences of characters.
SeqParts ==
    /\ Part(ri, wi) \in Seq(Char) /\ Len(Part(ri, wi)) = Ready
    /\ Part(wi, ei) \in Seq(Char) /\ Len(Part(wi, ei)) = Typed

\* They are sequences, of those lengths.
LEMMA PartsAreSeqs == InputInv => SeqParts
<1> SUFFICES ASSUME InputInv PROVE SeqParts
    OBVIOUS
<1>1. Ready \in Nat /\ Typed \in Nat
    BY InputFacts DEF Apart
<1>2. ASSUME NEW t \in Int PROVE Cell(t) \in Char
    <2>1. ri + t \in Int /\ INPUT_BUF \in Nat /\ INPUT_BUF > 0
        BY ConsAssumption DEF InputInv
    <2>2. (ri + t) % INPUT_BUF \in 0 .. INPUT_BUF - 1
        BY <2>1, DivMod, Zenon
    <2> QED BY <2>2 DEF InputInv, Cell, CellAt
<1>3. \A k \in 1 .. Ready : Cell(k - 1) \in Char
    BY <1>1, <1>2
<1>4. \A k \in 1 .. Typed : Cell(Ready + (k - 1)) \in Char
    BY <1>1, <1>2
<1>5. Segments
    BY Parts
<1>6. Part(ri, wi) \in Seq(Char) /\ Len(Part(ri, wi)) = Ready
    BY <1>1, <1>3, <1>5 DEF Segments
<1>7. Part(wi, ei) \in Seq(Char) /\ Len(Part(wi, ei)) = Typed
    BY <1>1, <1>4, <1>5 DEF Segments
<1> QED BY <1>6, <1>7 DEF SeqParts

\* The same after a step.
LEMMA PartsAreSeqsNext == InputInv' => SeqParts'
BY PartsAreSeqs, PTL

\* A typed character is appended to the line, and ends it or not.
LEMMA TypeStep ==
    ASSUME InputInv, NEW c \in Char, TypeKey(c)
    PROVE  InputInv' /\ AbstractTty!Type(c)
<1> DEFINE e == Ready + Typed
           ends == c \in {"nl", "eof"} \/ e + 1 = INPUT_BUF
           ready == Part(ri, wi)
           line == Part(wi, ei)
<1>1. /\ e < INPUT_BUF /\ ri' = ri /\ Indices'
      /\ ring' \in [0 .. INPUT_BUF - 1 -> Char]
      /\ CellAt(ring', ri', e) = c
      /\ \A t \in 0 .. e - 1 : CellAt(ring', ri', t) = Cell(t)
    BY TypeCells
<1>2. /\ ends => Ready' = e + 1 /\ Typed' = 0
      /\ ~ends => Ready' = Ready /\ Typed' = Typed + 1
    BY TypeCells
<1>3. Ready \in Nat /\ Typed \in Nat /\ INPUT_BUF \in Nat
    BY InputFacts DEF Apart
<1>4. InputInv'
    <2>1. Ready' + Typed' <= INPUT_BUF
        BY <1>1, <1>2, <1>3
    <2>2. \A t \in Ready' .. (Ready' + Typed') - 1 : CellAt(ring', ri', t) # "nl"
        <3>1. CASE ends
            BY <1>2, <1>3, <3>1
        <3>2. CASE ~ends
            <4>1. \A t \in Ready .. e - 1 : Cell(t) # "nl"
                BY DEF InputInv
            <4>2. ASSUME NEW t \in Ready' .. (Ready' + Typed') - 1 PROVE CellAt(ring', ri', t) # "nl"
                <5>1. t = e \/ t \in Ready .. e - 1
                    BY <1>2, <1>3, <3>2
                <5> QED BY <1>1, <1>3, <3>2, <4>1, <5>1
            <4> QED BY <4>2
        <3> QED BY <3>1, <3>2
    <2> QED BY <1>1, <2>1, <2>2 DEF InputInv, Indices, Cell
<1>5. /\ ready' = [k \in 1 .. Ready' |-> CellAt(ring', ri', k - 1)]
      /\ line' = [k \in 1 .. Typed' |-> CellAt(ring', ri', Ready' + (k - 1))]
      /\ ready' \in Seq(Char) /\ Len(ready') = Ready' /\ line' \in Seq(Char) /\ Len(line') = Typed'
    BY <1>4, PartsNext, PartsAreSeqsNext DEF Segments, SeqParts, Cell
<1>6. /\ ready = [k \in 1 .. Ready |-> Cell(k - 1)] /\ line = [k \in 1 .. Typed |-> Cell(Ready + (k - 1))]
      /\ ready \in Seq(Char) /\ Len(ready) = Ready /\ line \in Seq(Char) /\ Len(line) = Typed
    BY Parts, PartsAreSeqs DEF Segments, SeqParts
<1> HIDE DEF ready, line
<1> DEFINE longer == Append(line, c)
<1>7. /\ longer \in Seq(Char) /\ Len(longer) = Typed + 1
      /\ \A k \in 1 .. Typed : longer[k] = line[k]
      /\ longer[Typed + 1] = c
    <2>1. line \in Seq(Char) /\ Len(line) = Typed /\ c \in Char
        BY <1>6, Zenon
    <2> HIDE DEF Char, Typed
    <2>2. /\ Append(line, c) \in Seq(Char) /\ Len(Append(line, c)) = Len(line) + 1
          /\ \A k \in 1 .. Len(line) : Append(line, c)[k] = line[k]
          /\ Append(line, c)[Len(line) + 1] = c
        BY <2>1, AppendProperties
    <2> QED BY <2>1, <2>2, Zenon DEF longer
<1> HIDE DEF longer
<1>8. ASSUME ends PROVE ready' = ready \o longer /\ line' = <<>>
    <2> DEFINE all == ready \o longer
    <2>1. line' = <<>>
        BY <1>2, <1>5, <1>8
    <2>2. /\ all \in Seq(Char) /\ Len(all) = Ready + (Typed + 1)
          /\ \A k \in 1 .. Ready + (Typed + 1) : all[k] = IF k <= Ready THEN ready[k] ELSE longer[k - Ready]
        <3>1. ready \in Seq(Char) /\ longer \in Seq(Char) /\ Len(ready) = Ready /\ Len(longer) = Typed + 1
            BY <1>6, <1>7, Zenon
        <3> HIDE DEF Char, Ready, Typed
        <3>2. /\ all \in Seq(Char) /\ Len(all) = Len(ready) + Len(longer)
              /\ \A k \in 1 .. Len(ready) + Len(longer) :
                    all[k] = IF k <= Len(ready) THEN ready[k] ELSE longer[k - Len(ready)]
            BY <3>1, ConcatProperties, Zenon
        <3> QED BY <3>1, <3>2, Zenon
    <2> HIDE DEF all
    <2>3. ASSUME NEW k \in 1 .. Ready + (Typed + 1) PROVE ready'[k] = all[k]
        <3>1. ready'[k] = CellAt(ring', ri', k - 1)
            BY <1>2, <1>3, <1>5, <1>8
        <3>2. CASE k <= Ready
            <4>1. k - 1 \in 0 .. e - 1 /\ k \in 1 .. Ready
                BY <1>3, <3>2
            <4>2. ready[k] = Cell(k - 1)
                BY <1>6, <4>1
            <4> QED BY <1>1, <2>2, <3>1, <3>2, <4>1, <4>2
        <3>3. CASE k = e + 1
            <4>1. k - 1 = e /\ ~(k <= Ready) /\ k - Ready = Typed + 1
                BY <1>3, <3>3
            <4> QED BY <1>1, <1>7, <2>2, <3>1, <4>1
        <3>4. CASE Ready < k /\ k < e + 1
            <4>1. k - 1 \in 0 .. e - 1 /\ ~(k <= Ready) /\ k - Ready \in 1 .. Typed
                  /\ Ready + ((k - Ready) - 1) = k - 1
                BY <1>3, <3>4
            <4>2. line[k - Ready] = Cell(k - 1)
                BY <1>6, <4>1
            <4> QED BY <1>1, <1>7, <2>2, <3>1, <4>1, <4>2
        <3> QED BY <1>3, <3>2, <3>3, <3>4
    <2>4. ready' = all
        <3>1. ready' \in Seq(Char) /\ all \in Seq(Char) /\ Len(ready') = Len(all)
              /\ \A k \in 1 .. Len(ready') : ready'[k] = all[k]
            <4>1. Ready' = Ready + (Typed + 1)
                BY <1>2, <1>3, <1>8
            <4>2. Len(ready') = Ready' /\ ready' \in Seq(Char)
                BY <1>5, Zenon
            <4> HIDE DEF Ready, Typed, Char
            <4> QED BY <2>2, <2>3, <4>1, <4>2, Zenon
        <3> QED BY <3>1, SeqEqual, Zenon
    <2> QED BY <2>1, <2>4 DEF all
<1>a. ASSUME ~ends PROVE ready' = ready /\ line' = longer
    <2>1. ready' = ready
        <3>1. ASSUME NEW k \in 1 .. Ready PROVE CellAt(ring', ri', k - 1) = Cell(k - 1)
            <4>1. k - 1 \in 0 .. e - 1
                BY <1>3
            <4> QED BY <1>1, <4>1
        <3> QED BY <1>2, <1>5, <1>6, <1>a, <3>1
    <2>2. ASSUME NEW k \in 1 .. Typed + 1 PROVE line'[k] = longer[k]
        <3>1. line'[k] = CellAt(ring', ri', Ready + (k - 1))
            BY <1>2, <1>3, <1>5, <1>a
        <3>2. CASE k = Typed + 1
            <4>1. Ready + (k - 1) = e
                BY <1>3, <3>2
            <4> QED BY <1>1, <1>7, <3>1, <3>2, <4>1
        <3>3. CASE k \in 1 .. Typed
            <4>1. Ready + (k - 1) \in 0 .. e - 1
                BY <1>3, <3>3
            <4>2. line[k] = Cell(Ready + (k - 1))
                BY <1>6, <3>3
            <4> QED BY <1>1, <1>7, <3>1, <3>3, <4>1, <4>2
        <3> QED BY <1>3, <3>2, <3>3
    <2>3. line' = longer
        <3>1. line' \in Seq(Char) /\ longer \in Seq(Char) /\ Len(line') = Len(longer)
              /\ \A k \in 1 .. Len(line') : line'[k] = longer[k]
            BY <1>2, <1>3, <1>5, <1>7, <1>a, <2>2
        <3> QED BY <3>1, SeqEqual, Zenon
    <2> QED BY <2>1, <2>3
<1>9. Len(ready) + Len(line) < INPUT_BUF /\ (Len(ready) + Len(line) = INPUT_BUF - 1 <=> e + 1 = INPUT_BUF)
    BY <1>1, <1>3, <1>6
<1> QED BY <1>4, <1>8, <1>a, <1>9 DEF AbstractTty!Type, ready, line, longer

\* The line loses its last g characters.
LEMMA ShorterLine ==
    ASSUME InputInv, ring' = ring, ri' = ri, wi' = wi, NEW g \in 0 .. Typed, ei' = Add(ei, -g)
    PROVE  /\ InputInv' /\ Part(ri, wi)' = Part(ri, wi)
           /\ Part(wi, ei)' = SubSeq(Part(wi, ei), 1, Typed - g)
           /\ Len(Part(wi, ei)) = Typed /\ Part(wi, ei) \in Seq(Char) /\ Typed - g \in Nat
<1>1. /\ Indices /\ Apart
      /\ UintValues \in Nat /\ INPUT_BUF \in Nat /\ INPUT_BUF > 0 /\ INPUT_BUF < UintValues
      /\ Ready + Typed <= INPUT_BUF
    BY InputFacts
<1>2. g \in 0 .. UintValues - 1 /\ Ready \in Nat /\ Typed \in Nat
    BY <1>1 DEF Apart
<1>3. ei' = IF g <= ei THEN ei - g ELSE (ei - g) + UintValues
    <2>1. ei' = (ei + (-g)) % UintValues /\ ei \in 0 .. UintValues - 1
        BY <1>1 DEF Add, Indices
    <2> QED BY <1>1, <1>2, <2>1, ModBack, Zenon
<1>4. Indices'
    BY <1>1, <1>2, <1>3 DEF Indices
<1>5. Apart'
    BY <1>4, DistancesNext
<1>6. Ready' = Ready /\ Typed' = Typed - g
    BY <1>1, <1>2, <1>3, <1>5 DEF Indices, Apart
<1>7. InputInv'
    <2>1. \A t \in Ready .. (Ready + Typed) - 1 : CellAt(ring', ri', t) # "nl"
        BY DEF InputInv, Cell
    <2>2. ASSUME NEW t \in Ready' .. (Ready' + Typed') - 1 PROVE CellAt(ring', ri', t) # "nl"
        <3>1. t \in Ready .. (Ready + Typed) - 1
            BY <1>2, <1>6
        <3> QED BY <2>1, <3>1
    <2>3. ring' \in [0 .. INPUT_BUF - 1 -> Char] /\ Ready' + Typed' <= INPUT_BUF
        BY <1>1, <1>2, <1>6 DEF InputInv
    <2> QED BY <1>4, <2>2, <2>3 DEF InputInv, Indices, Cell
<1>8. Part(ri, wi) = [k \in 1 .. Ready |-> CellAt(ring, ri, k - 1)]
      /\ Part(wi, ei) = [k \in 1 .. Typed |-> CellAt(ring, ri, Ready + (k - 1))]
    BY Parts DEF Segments, Cell
<1>9. Part(ri, wi)' = [k \in 1 .. Ready' |-> CellAt(ring', ri', k - 1)]
      /\ Part(wi, ei)' = [k \in 1 .. Typed' |-> CellAt(ring', ri', Ready' + (k - 1))]
    BY <1>7, PartsNext DEF Segments, Cell
<1>10. Len(Part(wi, ei)) = Typed /\ Part(wi, ei) \in Seq(Char) /\ Typed - g \in Nat
    BY <1>2, PartsAreSeqs DEF SeqParts
<1>11. Part(ri, wi)' = Part(ri, wi)
    BY <1>6, <1>8, <1>9
<1> DEFINE line == Part(wi, ei)
<1>12. SubSeq(line, 1, Typed - g) = [k \in 1 .. Typed - g |-> line[k]]
    <2> HIDE DEF line
    <2> QED BY <1>2, <1>10 DEF line
<1>13. ASSUME NEW k \in 1 .. Typed - g PROVE line[k] = CellAt(ring', ri', Ready' + (k - 1))
    BY <1>2, <1>6, <1>8
<1>14. line' = [k \in 1 .. Typed - g |-> line[k]]
    BY <1>6, <1>9, <1>13
<1> QED BY <1>7, <1>10, <1>11, <1>12, <1>14

\* ^H takes the last character of the line.
LEMMA EraseStep ==
    ASSUME InputInv, EraseKey
    PROVE  InputInv' /\ AbstractTty!Erase
<1>1. /\ Indices /\ Apart /\ UintValues \in Nat
    BY InputFacts
<1>2. 1 \in 0 .. Typed
    BY <1>1 DEF EraseKey, Erasable, Indices, Apart
<1>3. ring' = ring /\ ri' = ri /\ wi' = wi /\ ei' = Add(ei, -1)
    BY DEF EraseKey, Typing
<1>4. /\ InputInv' /\ Part(ri, wi)' = Part(ri, wi)
      /\ Part(wi, ei)' = SubSeq(Part(wi, ei), 1, Typed - 1)
      /\ Len(Part(wi, ei)) = Typed
    BY <1>2, <1>3, ShorterLine, Zenon
<1>5. Part(wi, ei) # <<>>
    <2> DEFINE line == Part(wi, ei)
    <2>1. Len(line) # 0
        BY <1>2, <1>4
    <2> HIDE DEF line
    <2>2. line # <<>>
        BY <2>1
    <2> QED BY <2>2 DEF line
<1> QED BY <1>4, <1>5 DEF AbstractTty!Erase

\* There is no newline in the line that is being typed.
LEMMA NoNewline ==
    ASSUME InputInv
    PROVE  {k \in 1 .. Typed : InputAt(Add(ei, -k)) = "nl"} = {}
<1>1. /\ Indices /\ Apart
      /\ UintValues \in Nat /\ INPUT_BUF \in Nat /\ INPUT_BUF > 0 /\ INPUT_BUF < UintValues
      /\ Ready + Typed <= INPUT_BUF
    BY InputFacts
<1>2. Ready \in Nat /\ Typed \in Nat /\ UintValues % INPUT_BUF = 0
    BY <1>1, ConsAssumption DEF Apart
<1>3. ASSUME NEW k \in 1 .. Typed PROVE InputAt(Add(ei, -k)) # "nl"
    <2> DEFINE t == Ready + (Typed - k)
    <2>1. t \in Ready .. (Ready + Typed) - 1 /\ k \in 0 .. UintValues - 1 /\ ei \in 0 .. UintValues - 1
        BY <1>1, <1>2 DEF Indices
    <2>2. (ei + (-k)) % UintValues = IF k <= ei THEN ei - k ELSE (ei - k) + UintValues
        BY <1>1, <2>1, ModBack, Zenon
    <2>3. ri + t = ei - k \/ ri + t = (ei - k) + UintValues
        BY <1>1, <1>2 DEF Indices, Apart
    <2>4. ei - k \in Int
        BY <1>1, <2>1
    <2>5. ((ei - k) + UintValues) % INPUT_BUF = (ei - k) % INPUT_BUF
        BY <1>1, <1>2, <2>4, ModWrap, Zenon
    <2>6. ((ei + (-k)) % UintValues) % INPUT_BUF = (ri + t) % INPUT_BUF
        <3> HIDE DEF t
        <3> QED BY <2>2, <2>3, <2>5
    <2>7. Cell(t) # "nl"
        BY <2>1 DEF InputInv
    <2> QED BY <2>6, <2>7 DEF InputAt, Add, Cell, CellAt
<1> QED BY <1>3

\* ^U takes the line: consoleintr()'s test for a newline in it never stops it.
LEMMA KillStep ==
    ASSUME InputInv, KillKey
    PROVE  InputInv' /\ AbstractTty!Kill
<1> DEFINE kept == {k \in 1 .. Typed : InputAt(Add(ei, -k)) = "nl"}
<1>1. /\ Indices /\ Apart
      /\ UintValues \in Nat /\ INPUT_BUF \in Nat /\ INPUT_BUF > 0 /\ INPUT_BUF < UintValues
      /\ Ready + Typed <= INPUT_BUF
    BY InputFacts
<1>2. Ready \in Nat /\ Typed \in Nat /\ UintValues % INPUT_BUF = 0
    BY <1>1, ConsAssumption DEF Apart
<1>4. kept = {}
    BY NoNewline
<1>5. ring' = ring /\ ri' = ri /\ wi' = wi /\ ei' = Add(ei, -Typed)
    BY <1>4 DEF KillKey, Typing, Typed
<1>6. Typed \in 0 .. Typed
    BY <1>2
<1>7. /\ InputInv' /\ Part(ri, wi)' = Part(ri, wi)
      /\ Part(wi, ei)' = SubSeq(Part(wi, ei), 1, Typed - Typed)
      /\ Part(wi, ei) \in Seq(Char)
    BY <1>5, <1>6, ShorterLine, Zenon
<1>8. Part(wi, ei)' = <<>>
    <2> DEFINE line == Part(wi, ei)
    <2>1. Typed - Typed = 0 /\ line \in Seq(Char) /\ line' = SubSeq(line, 1, Typed - Typed)
        BY <1>2, <1>7
    <2> HIDE DEF line
    <2>2. line' = <<>>
        BY <2>1
    <2> QED BY <2>2 DEF line
<1> QED BY <1>7, <1>8 DEF AbstractTty!Kill

\* A character that is read is the first of the complete input.
LEMMA TakeStep ==
    ASSUME InputInv, NEW p \in Reader, ReadChar(p), ri' # ri
    PROVE  InputInv' /\ AbstractTty!Take
<1>1. /\ Indices /\ Apart
      /\ UintValues \in Nat /\ INPUT_BUF \in Nat /\ INPUT_BUF > 0 /\ INPUT_BUF < UintValues
      /\ Ready + Typed <= INPUT_BUF
    BY InputFacts
<1>2. Ready \in Nat /\ Typed \in Nat /\ UintValues % INPUT_BUF = 0
    BY <1>1, ConsAssumption DEF Apart
<1>3. ring' = ring /\ wi' = wi /\ ei' = ei /\ ri # wi
    BY DEF ReadChar
<1>4. ri' = IF ri + 1 < UintValues THEN ri + 1 ELSE (ri + 1) - UintValues
    <2>1. ri' = (ri + 1) % UintValues /\ ri \in 0 .. UintValues - 1 /\ 1 \in 0 .. UintValues
        BY <1>1 DEF ReadChar, Add, Indices
    <2> QED BY <1>1, <2>1, ModSum, Zenon
<1>5. Indices'
    BY <1>1, <1>3, <1>4 DEF Indices
<1>6. Apart'
    BY <1>5, DistancesNext
<1>7. Ready > 0 /\ Ready' = Ready - 1 /\ Typed' = Typed
    BY <1>1, <1>3, <1>4, <1>6 DEF Indices, Apart
<1>8. ASSUME NEW t \in Int PROVE CellAt(ring', ri', t) = CellAt(ring, ri, t + 1)
    <2>1. /\ ri + (t + 1) \in Int /\ ri' + t \in Int
          /\ ri' + t = ri + (t + 1) \/ ri' + t = (ri + (t + 1)) - UintValues
        BY <1>1, <1>4 DEF Indices
    <2>2. ((ri + (t + 1)) - UintValues) % INPUT_BUF = (ri + (t + 1)) % INPUT_BUF
        BY <1>1, <1>2, <2>1, ModWrap, Zenon
    <2> QED BY <1>3, <2>1, <2>2 DEF CellAt
<1>9. InputInv'
    <2>1. ASSUME NEW t \in Ready' .. (Ready' + Typed') - 1 PROVE CellAt(ring', ri', t) # "nl"
        <3>1. t \in Int /\ t + 1 \in Ready .. (Ready + Typed) - 1
            BY <1>2, <1>7
        <3> QED BY <1>8, <3>1 DEF InputInv, Cell
    <2>2. ring' \in [0 .. INPUT_BUF - 1 -> Char] /\ Ready' + Typed' <= INPUT_BUF
        BY <1>1, <1>2, <1>3, <1>7 DEF InputInv
    <2> QED BY <1>5, <2>1, <2>2 DEF InputInv, Indices, Cell
<1> DEFINE ready == Part(ri, wi)
           line == Part(wi, ei)
<1>10. /\ ready = [k \in 1 .. Ready |-> CellAt(ring, ri, k - 1)]
       /\ line = [k \in 1 .. Typed |-> CellAt(ring, ri, Ready + (k - 1))]
       /\ ready \in Seq(Char) /\ Len(ready) = Ready
    BY Parts, PartsAreSeqs DEF Segments, SeqParts, Cell
<1>11. /\ ready' = [k \in 1 .. Ready' |-> CellAt(ring', ri', k - 1)]
       /\ line' = [k \in 1 .. Typed' |-> CellAt(ring', ri', Ready' + (k - 1))]
       /\ ready' \in Seq(Char) /\ Len(ready') = Ready'
    BY <1>9, PartsNext, PartsAreSeqsNext DEF Segments, SeqParts, Cell
<1> HIDE DEF ready, line
<1>12. line' = line
    <2>1. ASSUME NEW k \in 1 .. Typed PROVE CellAt(ring', ri', Ready' + (k - 1)) = CellAt(ring, ri, Ready + (k - 1))
        <3>1. Ready' + (k - 1) \in Int /\ (Ready' + (k - 1)) + 1 = Ready + (k - 1)
            BY <1>2, <1>7
        <3> QED BY <1>8, <3>1
    <2> QED BY <1>7, <1>10, <1>11, <2>1
<1>13. ready # <<>>
    <2>1. Len(ready) # 0
        BY <1>2, <1>7, <1>10
    <2> QED BY <2>1
<1> DEFINE rest == Tail(ready)
<1>14. /\ rest \in Seq(Char) /\ Len(rest) = Len(ready) - 1
       /\ \A k \in 1 .. Len(rest) : rest[k] = ready[k + 1]
    BY <1>10, <1>13, HeadTailProperties, Zenon
<1> HIDE DEF rest
<1>15. ASSUME NEW k \in 1 .. Ready' PROVE ready'[k] = rest[k]
    <2>1. k - 1 \in Int /\ (k - 1) + 1 = (k + 1) - 1 /\ k + 1 \in 1 .. Ready /\ k \in 1 .. Len(rest)
        BY <1>2, <1>7, <1>10, <1>14
    <2>2. ready'[k] = CellAt(ring, ri, (k + 1) - 1)
        BY <1>8, <1>11, <2>1
    <2>3. ready[k + 1] = CellAt(ring, ri, (k + 1) - 1)
        BY <1>10, <2>1
    <2> QED BY <1>14, <2>1, <2>2, <2>3
<1>16. ready' = rest
    <2>1. ready' \in Seq(Char) /\ rest \in Seq(Char) /\ Len(ready') = Len(rest)
        BY <1>7, <1>10, <1>11, <1>14, Zenon
    <2>2. \A k \in 1 .. Len(ready') : ready'[k] = rest[k]
        BY <1>11, <1>15, Zenon
    <2> QED BY <2>1, <2>2, SeqEqual, Zenon
<1> QED BY <1>9, <1>12, <1>13, <1>16 DEF AbstractTty!Take, ready, line, rest


\* Every step of the console keeps the ring in order and is a step of the line
\* editor or none.
LEMMA ConsoleStep ==
    ASSUME InputInv, [ConsNext]_consvars
    PROVE  InputInv' /\ [AbstractTty!TtyNext]_<<Part(ri, wi), Part(wi, ei)>>
<1>1. ASSUME UNCHANGED <<ring, ri, wi, ei>>
      PROVE  InputInv' /\ UNCHANGED <<Part(ri, wi), Part(wi, ei)>>
    BY <1>1 DEF InputInv, Cell, CellAt, Ready, Typed, Part, InputAt, Add
<1>2. ASSUME NEW c \in Char, TypeKey(c)
      PROVE  InputInv' /\ AbstractTty!TtyNext
    BY <1>2, TypeStep, Zenon DEF AbstractTty!TtyNext, Char
<1>3. CASE EraseKey
    BY <1>3, EraseStep DEF AbstractTty!TtyNext
<1>4. CASE KillKey
    BY <1>4, KillStep DEF AbstractTty!TtyNext
<1>5. ASSUME NEW p \in Reader, ReadChar(p)
      PROVE  InputInv' /\ [AbstractTty!TtyNext]_<<Part(ri, wi), Part(wi, ei)>>
    <2>1. CASE ri' = ri
        BY <1>1, <1>5, <2>1 DEF ReadChar
    <2>2. CASE ri' # ri
        BY <1>5, <2>2, TakeStep DEF AbstractTty!TtyNext
    <2> QED BY <2>1, <2>2
<1>6. ASSUME NEW c \in Char, WriteChar(c)
      PROVE  UNCHANGED <<ring, ri, wi, ei>>
    BY <1>6 DEF WriteChar
<1>7. ASSUME NEW p \in Reader, ReadCall(p) \/ ReadAcquire(p) \/ ReadEmpty(p) \/ ReadSleep(p) \/ KillReader(p)
      PROVE  UNCHANGED <<ring, ri, wi, ei>>
    BY <1>7 DEF ReadCall, ReadAcquire, ReadEmpty, ReadSleep, KillReader
<1>8. CASE UNCHANGED consvars
    BY <1>1, <1>8 DEF consvars
<1>9. CASE \E c \in Chars \cup {"nl", "eof"} : TypeKey(c) \/ WriteChar(c)
    BY <1>1, <1>2, <1>6, <1>9 DEF Char
<1>10. CASE \E p \in Reader : ReadCall(p) \/ Reading(p) \/ KillReader(p)
    BY <1>1, <1>5, <1>7, <1>10 DEF Reading
<1> QED BY <1>3, <1>4, <1>8, <1>9, <1>10 DEF ConsNext

\* The console starts with an empty ring and the screen of the boot messages.
LEMMA ConsoleStarts == ConsInit => InputInv /\ AbstractTty!TtyInit
<1> SUFFICES ASSUME ConsInit PROVE InputInv /\ AbstractTty!TtyInit
    OBVIOUS
<1>1. UintValues \in Nat /\ UintValues > 0 /\ INPUT_BUF \in Nat /\ INPUT_BUF > 0
    BY ConsAssumption
<1>2. Indices /\ ri = 0 /\ wi = 0 /\ ei = 0
    BY <1>1 DEF ConsInit, Indices
<1>3. Ready = 0 /\ Typed = 0
    BY <1>1, <1>2, Distances DEF Apart
<1>4. ring \in [0 .. INPUT_BUF - 1 -> Char]
    BY DEF ConsInit, Char
<1>5. InputInv
    BY <1>1, <1>2, <1>3, <1>4 DEF InputInv, Indices
<1>6. Part(ri, wi) = <<>> /\ Part(wi, ei) = <<>>
    BY <1>3, <1>5, Parts DEF Segments
<1> QED BY <1>5, <1>6 DEF AbstractTty!TtyInit

\* The ring of consoleintr() and consoleread() implements Tty: a reader gets the
\* characters of the lines that were typed, as edited with ^H and ^U, each once and
\* in order, for every size of the ring, wherever its indices wrap, and whichever
\* processes read.
THEOREM ConsoleIsTty == ConsSpec => IsTty
<1>1. ConsInit => InputInv /\ AbstractTty!TtyInit
    BY ConsoleStarts
<1>2. InputInv /\ [ConsNext]_consvars => InputInv' /\ [AbstractTty!TtyNext]_<<Part(ri, wi), Part(wi, ei)>>
    BY ConsoleStep
<1> QED BY <1>1, <1>2, PTL DEF ConsSpec, IsTty, AbstractTty!TtySpec

\* The places of consoleread().
Places == {"out", "acquire", "loop", "sleep", "asleep"}

\* The readers: cons.lock is held from acquire() to sleep() or the return, and
\* nothing is typed or read while a reader that found no input has it.
ReadersInv ==
    /\ rd \in [Reader -> [at : Places, n : Nat, target : Nat]]
    /\ dead \in [Reader -> BOOLEAN]
    /\ conslock \in Reader \cup {0}
    /\ \A p \in Reader : rd[p].at \in {"loop", "sleep"} <=> conslock = p
    /\ \A p \in Reader : rd[p].at \in {"sleep", "asleep"} => ri = wi

\* Every step keeps ReadersInv.
LEMMA ReadersStep ==
    ASSUME ReadersInv, [ConsNext]_consvars
    PROVE  ReadersInv'
<1> DEFINE R == [at : Places, n : Nat, target : Nat]
<1>0. 0 \notin Reader /\ Lengths \subseteq Nat
    BY ReaderAssumption
<1> USE <1>0
<1>1. ASSUME rd' = [p \in Reader |-> ConsWoken(p)], conslock = 0, UNCHANGED <<conslock, dead>>
      PROVE  ReadersInv'
    <2>1. \A p \in Reader : ConsWoken(p) \in R /\ ConsWoken(p).at # "asleep"
            /\ (ConsWoken(p).at \in {"loop", "sleep"} <=> rd[p].at \in {"loop", "sleep"})
        BY DEF ReadersInv, ConsWoken, Places
    <2>2. rd' \in [Reader -> R] /\ \A p \in Reader : rd'[p] = ConsWoken(p)
        BY <1>1, <2>1
    <2>3. \A p \in Reader : rd[p].at \notin {"loop", "sleep"}
        BY <1>1 DEF ReadersInv
    <2> QED BY <1>1, <2>1, <2>2, <2>3 DEF ReadersInv
<1>2. ASSUME NEW c \in Char, TypeKey(c)
      PROVE  ReadersInv'
    <2>1. CASE Wakes(c, ei')
        BY <1>1, <1>2, <2>1 DEF TypeKey, Typing
    <2>2. CASE ~Wakes(c, ei')
        BY <1>2, <2>2 DEF TypeKey, Typing, Wakes, ReadersInv
    <2> QED BY <2>1, <2>2
<1>3. ASSUME UNCHANGED <<ri, wi, rd, conslock, dead>>
      PROVE  ReadersInv'
    BY <1>3 DEF ReadersInv
<1>4. CASE EraseKey \/ KillKey
    BY <1>3, <1>4 DEF EraseKey, KillKey, Typing
<1>5. ASSUME NEW c \in Char, WriteChar(c)
      PROVE  ReadersInv'
    BY <1>3, <1>5 DEF WriteChar
<1>6. ASSUME NEW p \in Reader, ReadCall(p)
      PROVE  ReadersInv'
    <2>1. PICK n \in Lengths : rd' = [rd EXCEPT ![p] = [at |-> "acquire", n |-> n, target |-> n]]
        BY <1>6, Zenon DEF ReadCall
    <2>2. [at |-> "acquire", n |-> n, target |-> n] \in R
        BY DEF Places
    <2> QED BY <1>6, <2>1, <2>2 DEF ReadCall, ReadersInv
<1>7. ASSUME NEW p \in Reader, ReadAcquire(p)
      PROVE  ReadersInv'
    BY <1>7 DEF ReadAcquire, ConsStep, ReadersInv, Places
<1>8. ASSUME NEW p \in Reader, ReadEmpty(p)
      PROVE  ReadersInv'
    BY <1>8 DEF ReadEmpty, ConsReturn, ConsStep, ReadersInv, Places
<1>9. ASSUME NEW p \in Reader, ReadSleep(p)
      PROVE  ReadersInv'
    BY <1>9 DEF ReadSleep, ConsStep, ReadersInv, Places
<1>10. ASSUME NEW p \in Reader, ReadChar(p)
      PROVE  ReadersInv'
    <2>1. \A q \in Reader : rd[q].at \notin {"sleep", "asleep"}
        BY <1>10 DEF ReadChar, ReadersInv
    <2>2. CASE ConsReturn(p)
        BY <1>10, <2>1, <2>2 DEF ReadChar, ConsReturn, ReadersInv, Places
    <2>3. CASE rd' = [rd EXCEPT ![p].n = @ - 1] /\ UNCHANGED conslock
        <3>1. rd[p].n \in Nat /\ rd[p].n > 0 /\ rd[p].n - 1 \in Nat
            BY <1>10 DEF ReadChar, ReadersInv
        <3> QED BY <1>10, <2>1, <2>3, <3>1 DEF ReadChar, ReadersInv, Places
    <2> QED BY <1>10, <2>2, <2>3 DEF ReadChar
<1>11. ASSUME NEW p \in Reader, KillReader(p)
      PROVE  ReadersInv'
    BY <1>11 DEF KillReader, ConsWoken, ReadersInv, Places
<1>12. CASE UNCHANGED consvars
    BY <1>3, <1>12 DEF consvars
<1> QED BY <1>2, <1>4, <1>5, <1>6, <1>7, <1>8, <1>9, <1>10, <1>11, <1>12 DEF ConsNext, Reading, Char

\* A reader sleeps on input.r only while there is nothing to read, or until the
\* wakeup() of consoleintr(), which has cons.lock from its test on.
THEOREM ReadersMissNothing == ConsSpec => []NoMissedInput
<1>1. ConsInit => ReadersInv
    BY ReaderAssumption DEF ConsInit, ReadersInv, Places
<1>2. ReadersInv /\ [ConsNext]_consvars => ReadersInv'
    BY ReadersStep
<1>3. ReadersInv => NoMissedInput
    BY DEF ReadersInv, NoMissedInput
<1> QED BY <1>1, <1>2, <1>3, PTL DEF ConsSpec


\* cgaputc() leaves the cursor on the screen.
LEMMA CursorOnScreen ==
    ASSUME NEW q \in 0 .. (Cols * Rows) - 1, NEW c
    PROVE  Cursor(q, c) \in 0 .. (Cols * Rows) - 1
<1> DEFINE N == Cols * Rows
           d == q \div Cols
           r == q % Cols
<1>1. Cols \in Nat /\ Cols > 1 /\ Rows \in Nat /\ Rows > 0 /\ N \in Nat
    BY ConsAssumption
<1>2. q = (Cols * d) + r /\ r \in 0 .. Cols - 1 /\ d \in Int
    BY <1>1, DivMod
<1>3. ASSUME NEW x \in 0 .. N
      PROVE  Scrolled(x) \in 0 .. N - 1
    <2> DEFINE k == x \div Cols
               m == x % Cols
    <2>1. x = (Cols * k) + m /\ m \in 0 .. Cols - 1 /\ k \in Int
        BY <1>1, DivMod
    <2>2. CASE x < N
        <3>1. x - Cols >= 0 \/ k < Rows
            <4> HIDE DEF k, m
            <4> QED BY <1>1, <2>1
        <3> QED BY <1>1, <2>2, <3>1 DEF Scrolled
    <2>3. CASE x = N
        <3>1. k = Rows
            BY <1>1, <2>3
        <3>2. N >= Cols
            BY <1>1
        <3> QED BY <1>1, <2>3, <3>1, <3>2 DEF Scrolled
    <2> QED BY <1>1, <2>2, <2>3
<1>4. q + Cols - (q % Cols) \in 0 .. N
    <2> HIDE DEF d, r
    <2>1. d < Rows
        BY <1>1, <1>2
    <2>2. Cols * (d + 1) <= N
        BY <1>1, <1>2, <2>1
    <2>3. q + Cols - r = Cols * (d + 1)
        BY <1>1, <1>2
    <2> QED BY <1>1, <1>2, <2>2, <2>3 DEF r
<1>5. q + 1 \in 0 .. N /\ q \in 0 .. N /\ (q > 0 => q - 1 \in 0 .. N)
    BY <1>1
<1> HIDE DEF N
<1> QED BY <1>3, <1>4, <1>5 DEF Cursor, N

\* The ring in order and the cursor on the screen.
ScreenInv == InputInv /\ conslock \in Reader \cup {0} /\ pos \in 0 .. (Cols * Rows) - 1

\* Every step keeps ScreenInv.
LEMMA ScreenStep ==
    ASSUME ScreenInv, ReadersInv, [ConsNext]_consvars
    PROVE  ScreenInv'
<1>1. InputInv'
    BY ConsoleStep DEF ScreenInv
<1>2. conslock' \in Reader \cup {0}
    BY ReadersStep DEF ReadersInv
<1>3. ASSUME NEW c, pos' = Cursor(pos, c)
      PROVE  pos' \in 0 .. (Cols * Rows) - 1
    BY <1>3, CursorOnScreen DEF ScreenInv
<1>4. ASSUME KillKey PROVE pos' \in 0 .. (Cols * Rows) - 1
    <2> DEFINE kept == {k \in 1 .. Typed : InputAt(Add(ei, -k)) = "nl"}
               gone == IF kept = {} THEN Typed ELSE (CHOOSE k \in kept : \A j \in kept : k <= j) - 1
    <2>1. Back(pos, gone) \in 0 .. (Cols * Rows) - 1
        <3>1. kept # {} => gone \in Nat
            <4>1. SUFFICES ASSUME kept # {} PROVE gone \in Nat
                OBVIOUS
            <4>2. kept = {}
                BY NoNewline DEF ScreenInv
            <4> QED BY <4>1, <4>2
        <3>2. Typed \in Nat
            BY InputFacts DEF ScreenInv, Apart
        <3>3. gone \in Nat
            BY <3>1, <3>2
        <3>4. Cols * Rows \in Nat
            BY ConsAssumption
        <3> HIDE DEF gone
        <3> QED BY <3>3, <3>4 DEF Back, ScreenInv
    <2> QED BY <1>4, <2>1 DEF KillKey, Typed
<1>5. ASSUME EraseKey PROVE pos' \in 0 .. (Cols * Rows) - 1
    BY <1>3, <1>5 DEF EraseKey
<1>6. ASSUME NEW c \in Char, TypeKey(c) \/ WriteChar(c)
      PROVE  pos' \in 0 .. (Cols * Rows) - 1
    BY <1>3, <1>6 DEF TypeKey, WriteChar
<1>7. ASSUME NEW p \in Reader, ReadCall(p) \/ Reading(p) \/ KillReader(p)
      PROVE  pos' = pos
    BY <1>7 DEF Reading, ReadCall, ReadAcquire, ReadEmpty, ReadSleep, ReadChar, KillReader
<1>8. ASSUME UNCHANGED consvars PROVE pos' \in 0 .. (Cols * Rows) - 1
    BY <1>8 DEF consvars, ScreenInv
<1>9. pos' \in 0 .. (Cols * Rows) - 1
    BY <1>4, <1>5, <1>6, <1>7, <1>8 DEF ConsNext, ScreenInv, Char
<1> QED BY <1>1, <1>2, <1>9 DEF ScreenInv

\* The ring is never overrun, and cgaputc() never leaves the cursor outside the
\* screen, so that consputc() stays inside the memory of the display.
THEOREM ConsoleTypes == ConsSpec => []ConsTypeOK
<1>1. ConsInit => ReadersInv /\ ScreenInv
    <2> SUFFICES ASSUME ConsInit PROVE ReadersInv /\ ScreenInv
        OBVIOUS
    <2>1. ReadersInv
        BY ReaderAssumption DEF ConsInit, ReadersInv, Places
    <2>2. InputInv
        BY ConsoleStarts
    <2>3. pos \in 0 .. (Cols * Rows) - 1
        <3>1. Cols * Rows \in Nat /\ Cols * Rows > 0
            BY ConsAssumption
        <3> QED BY <3>1 DEF ConsInit
    <2> QED BY <2>1, <2>2, <2>3 DEF ScreenInv, ConsInit
<1>2. ReadersInv /\ ScreenInv /\ [ConsNext]_consvars => ReadersInv' /\ ScreenInv'
    BY ReadersStep, ScreenStep
<1>3. ScreenInv => ConsTypeOK
    <2> SUFFICES ASSUME ScreenInv PROVE ConsTypeOK
        OBVIOUS
    <2>1. Indices /\ Apart /\ Ready + Typed <= INPUT_BUF /\ (ei - ri) % UintValues = Ready + Typed
        BY InputFacts DEF ScreenInv
    <2>2. (wi - ri) % UintValues <= Ready + Typed
        BY <2>1 DEF Apart, Ready
    <2> QED BY <2>1, <2>2 DEF ConsTypeOK, ScreenInv, InputInv, Indices, Char
<1> QED BY <1>1, <1>2, <1>3, PTL DEF ConsSpec
=============================================================================
