------------------------------ MODULE KeyQueue ------------------------------
(***************************************************************************)
(* What the keyboard driver promises its reader: the characters of the     *)
(* keys pressed, each once and in order, except that a character is        *)
(* dropped when, and only when, Capacity characters are waiting.           *)
(* Keyboard.tla implements this with a ring buffer.                        *)
(***************************************************************************)
EXTENDS Naturals, Sequences

CONSTANTS Char, Capacity, NoChar

VARIABLES waiting,   \* the characters not yet read
          last,      \* the character read last
          dropped    \* how many were dropped

Init == waiting = <<>> /\ last = NoChar /\ dropped = 0

Press(ch) ==
  /\ IF Len(waiting) < Capacity
     THEN waiting' = Append(waiting, ch) /\ UNCHANGED dropped
     ELSE dropped' = dropped + 1 /\ UNCHANGED waiting
  /\ UNCHANGED last

Read ==
  /\ waiting # <<>>
  /\ last' = Head(waiting)
  /\ waiting' = Tail(waiting)
  /\ UNCHANGED dropped

Next == Read \/ \E ch \in Char : Press(ch)

Spec == Init /\ [][Next]_<<waiting, last, dropped>>
=============================================================================
