--------------------------------- MODULE Tty ---------------------------------
(***************************************************************************)
(* What the console promises its readers: a line is edited until it ends,  *)
(* then it is read in order; whatever comes when there is no room is lost. *)
(***************************************************************************)
EXTENDS Integers, Sequences

CONSTANTS Chars, Room

VARIABLES ready, line   \* complete input, the line being typed

TtyInit == ready = <<>> /\ line = <<>>

Type(c) ==
    /\ Len(ready) + Len(line) < Room
    /\ IF c \in {"nl", "eof"} \/ Len(ready) + Len(line) = Room - 1
       THEN ready' = ready \o Append(line, c) /\ line' = <<>>
       ELSE line' = Append(line, c) /\ UNCHANGED ready
Erase == line # <<>> /\ line' = SubSeq(line, 1, Len(line) - 1) /\ UNCHANGED ready
Kill == line' = <<>> /\ UNCHANGED ready
Take == ready # <<>> /\ ready' = Tail(ready) /\ UNCHANGED line

TtyNext == (\E c \in Chars : Type(c)) \/ Erase \/ Kill \/ Take
TtySpec == TtyInit /\ [][TtyNext]_<<ready, line>>

=============================================================================
