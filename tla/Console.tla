------------------------------ MODULE Console ------------------------------
(***************************************************************************)
(* The console of console.c: the input ring that consoleintr() fills and   *)
(* edits and consoleread() empties, with indices of a machine word, and    *)
(* the cursor of the CGA screen that both, and consolewrite(), move.       *)
(***************************************************************************)
EXTENDS Integers, Sequences, FiniteSets

CONSTANTS
    Reader,      \* processes that read the console
    INPUT_BUF,   \* size of the ring
    UintValues,  \* number of values of a uint, a multiple of INPUT_BUF
    Chars,       \* ordinary characters; "nl" and "eof" (^D) are two more
    Lengths,     \* of reads
    Cols, Rows,  \* the screen, its last line unused (80 and 24 in the code)
    MaxKeys, MaxReads

ASSUME ReaderAssumption == 0 \notin Reader /\ Lengths \subseteq Nat
ASSUME ConsAssumption ==
    /\ INPUT_BUF \in Nat \ {0}
    /\ UintValues \in Nat /\ UintValues > INPUT_BUF /\ UintValues % INPUT_BUF = 0
    /\ Cols \in Nat \ {0, 1} /\ Rows \in Nat \ {0}

VARIABLES
    ring, ri, wi, ei,  \* input.buf, input.r, input.w, input.e
    conslock,          \* the reader that holds cons.lock, 0 if none
    rd,                \* per reader: its place in consoleread(), n, target
    dead,              \* proc->killed
    pos,               \* the cursor
    keys, reads        \* typed so far, reads so far

consvars == <<ring, ri, wi, ei, conslock, rd, dead, pos, keys, reads>>

ConsInit ==
    /\ ring = [i \in 0 .. INPUT_BUF - 1 |-> "nl"] /\ ri = 0 /\ wi = 0 /\ ei = 0
    /\ conslock = 0 /\ dead = [p \in Reader |-> FALSE]
    /\ rd = [p \in Reader |-> [at |-> "out", n |-> 0, target |-> 0]]
    /\ pos \in {0, Cols * Rows - 1}
    /\ keys = 0 /\ reads = 0

InputAt(i) == ring[i % INPUT_BUF]
Add(i, k) == (i + k) % UintValues

\* cgaputc(): the cursor has run into the last line and the screen scrolls.
Scrolled(q) == IF q \div Cols >= Rows THEN q - Cols ELSE q

\* cgaputc(): the cursor after c.
Cursor(q, c) ==
    Scrolled(CASE c = "nl" -> q + Cols - (q % Cols)
               [] c = "bs" -> IF q > 0 THEN q - 1 ELSE q
               [] OTHER    -> q + 1)

\* The cursor after k backspaces.
Back(q, k) == IF q > k THEN q - k ELSE 0

\* Mutants: only the end of a line wakes the readers; the ring may overflow.
WakesAtNl(c, e) == c \in {"nl", "eof"}

InputFullPast == (ei - ri) % UintValues > INPUT_BUF

\* A typed character ends the line, or fills the ring.
Wakes(c, e) == c \in {"nl", "eof"} \/ e = Add(ri, INPUT_BUF)

\* There is no room for another.
InputFull == (ei - ri) % UintValues >= INPUT_BUF

Typing ==
    /\ conslock = 0 /\ keys < MaxKeys /\ keys' = keys + 1
    /\ UNCHANGED <<ri, conslock, dead, reads>>

ConsWoken(p) == IF rd[p].at = "asleep" THEN [rd[p] EXCEPT !.at = "acquire"] ELSE rd[p]

\* consoleintr(), the default case.
TypeKey(c) ==
    /\ Typing /\ ~InputFull
    /\ ring' = [ring EXCEPT ![ei % INPUT_BUF] = c]
    /\ ei' = Add(ei, 1)
    /\ pos' = Cursor(pos, c)
    /\ IF c \in {"nl", "eof"} \/ ei' = Add(ri, INPUT_BUF) THEN wi' = ei' ELSE UNCHANGED wi
    /\ rd' = IF Wakes(c, ei') THEN [p \in Reader |-> ConsWoken(p)] ELSE rd

\* Mutant: backspace runs back over a line that is complete.
ErasableAll == ei # ri

Erasable == ei # wi

\* consoleintr(), ^H.
EraseKey ==
    /\ Typing /\ Erasable
    /\ ei' = Add(ei, -1) /\ pos' = Cursor(pos, "bs")
    /\ UNCHANGED <<ring, wi, rd>>

\* consoleintr(), ^U: back to the start of the line, or to a newline in it.
KillKey ==
    LET len  == (ei - wi) % UintValues
        kept == {k \in 1 .. len : InputAt(Add(ei, -k)) = "nl"}
        gone == IF kept = {} THEN len ELSE (CHOOSE k \in kept : \A j \in kept : k <= j) - 1
    IN
    /\ Typing
    /\ ei' = Add(ei, -gone) /\ pos' = Back(pos, gone)
    /\ UNCHANGED <<ring, wi, rd>>

ConsStep(p, from, to) == rd[p].at = from /\ rd' = [rd EXCEPT ![p].at = to]

\* consoleread() is called.
ReadCall(p) ==
    \E n \in Lengths :
    /\ rd[p].at = "out" /\ reads < MaxReads /\ reads' = reads + 1
    /\ rd' = [rd EXCEPT ![p] = [at |-> "acquire", n |-> n, target |-> n]]
    /\ UNCHANGED <<ring, ri, wi, ei, conslock, dead, pos, keys>>

\* acquire(&cons.lock), in the call and when sleep() returns.
ReadAcquire(p) ==
    /\ conslock = 0 /\ conslock' = p /\ ConsStep(p, "acquire", "loop")
    /\ UNCHANGED <<ring, ri, wi, ei, dead, pos, keys, reads>>

ConsReturn(p) == conslock' = 0 /\ rd' = [rd EXCEPT ![p] = [at |-> "out", n |-> 0, target |-> 0]]

\* The ring is empty and the process was killed: -1; or it will sleep.
ReadEmpty(p) ==
    /\ rd[p].at = "loop" /\ rd[p].n > 0 /\ ri = wi
    /\ IF dead[p] THEN ConsReturn(p) ELSE ConsStep(p, "loop", "sleep") /\ UNCHANGED conslock
    /\ UNCHANGED <<ring, ri, wi, ei, dead, pos, keys, reads>>

\* sleep(&input.r, &cons.lock).
ReadSleep(p) ==
    /\ ConsStep(p, "sleep", "asleep") /\ conslock' = 0
    /\ UNCHANGED <<ring, ri, wi, ei, dead, pos, keys, reads>>

\* One character: ^D ends the read, and stays if the read got anything.
ReadChar(p) ==
    LET c == InputAt(ri) IN
    /\ rd[p].at = "loop" /\ rd[p].n > 0 /\ ri # wi
    /\ ri' = IF c = "eof" /\ rd[p].n < rd[p].target THEN ri ELSE Add(ri, 1)
    /\ IF c \in {"nl", "eof"} \/ rd[p].n = 1 THEN ConsReturn(p)
       ELSE rd' = [rd EXCEPT ![p].n = @ - 1] /\ UNCHANGED conslock
    /\ UNCHANGED <<ring, wi, ei, dead, pos, keys, reads>>

\* consolewrite() of one character.
WriteChar(c) ==
    /\ conslock = 0 /\ keys < MaxKeys /\ keys' = keys + 1
    /\ pos' = Cursor(pos, c)
    /\ UNCHANGED <<ring, ri, wi, ei, conslock, rd, dead, reads>>

\* kill() of a reader.
KillReader(p) ==
    /\ ~dead[p] /\ rd[p].at # "out"
    /\ dead' = [dead EXCEPT ![p] = TRUE]
    /\ rd' = [rd EXCEPT ![p] = ConsWoken(p)]
    /\ UNCHANGED <<ring, ri, wi, ei, conslock, pos, keys, reads>>

Reading(p) == ReadAcquire(p) \/ ReadEmpty(p) \/ ReadSleep(p) \/ ReadChar(p)
ConsNext ==
    \/ \E c \in Chars \cup {"nl", "eof"} : TypeKey(c) \/ WriteChar(c)
    \/ EraseKey \/ KillKey
    \/ \E p \in Reader : ReadCall(p) \/ Reading(p) \/ KillReader(p)

ConsSpec == ConsInit /\ [][ConsNext]_consvars

-----------------------------------------------------------------------------
(* Properties *)

\* The part of the ring from index i up to j.
Part(i, j) == [k \in 1 .. (j - i) % UintValues |-> InputAt(Add(i, k - 1))]

ConsTypeOK ==
    /\ ring \in [0 .. INPUT_BUF - 1 -> Chars \cup {"nl", "eof"}]
    /\ {ri, wi, ei} \subseteq 0 .. UintValues - 1 /\ conslock \in Reader \cup {0}
    /\ (wi - ri) % UintValues <= (ei - ri) % UintValues /\ (ei - ri) % UintValues <= INPUT_BUF
    /\ pos \in 0 .. Cols * Rows - 1

\* No reader sleeps on input that is there: consoleintr() wakes them all, and
\* a ^D that is put back was there before.
NoMissedInput == \A p \in Reader : rd[p].at = "asleep" => ri = wi

\* The ring and its three indices, which wrap around, are a line editor with a
\* queue behind it: what is erased was not yet read, what is read is in order.
AbstractTty == INSTANCE Tty WITH
    Chars <- Chars \cup {"nl", "eof"}, Room <- INPUT_BUF, ready <- Part(ri, wi), line <- Part(wi, ei)
IsTty == AbstractTty!TtySpec

=============================================================================
