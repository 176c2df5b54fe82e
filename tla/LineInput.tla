----------------------------- MODULE LineInput -----------------------------
(***************************************************************************)
(* What the console promises of its input: keys go to a line that can be   *)
(* edited; the end of a line, the end of the file or a full buffer commits *)
(* it; readers take committed characters, each once and in order.          *)
(***************************************************************************)
EXTENDS Naturals, Sequences

CONSTANTS Chars, Ends,  \* characters, and those that commit
          Size          \* characters that can wait

VARIABLES ready,        \* committed, not yet read
          line          \* still being edited

lvars == <<ready, line>>

Init == ready = <<>> /\ line = <<>>

Room == Len(ready) + Len(line) < Size

Type(c) ==
    LET l == Append(line, c) IN
    /\ Room
    /\ IF c \in Ends \/ Len(ready) + Len(l) = Size
       THEN ready' = ready \o l /\ line' = <<>>
       ELSE line' = l /\ UNCHANGED ready

Erase == /\ line # <<>>
         /\ line' = SubSeq(line, 1, Len(line) - 1)
         /\ UNCHANGED ready

Kill == line' = <<>> /\ UNCHANGED ready

Read == \E k \in 1..Len(ready) :
           /\ ready' = SubSeq(ready, k + 1, Len(ready))
           /\ UNCHANGED line

Next == (\E c \in Chars : Type(c)) \/ Erase \/ Kill \/ Read

Spec == Init /\ [][Next]_lvars
============================================================================
