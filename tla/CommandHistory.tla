--------------------------- MODULE CommandHistory ---------------------------
(***************************************************************************)
(* What the history command promises: the last MaxHistory command lines,   *)
(* oldest first, a line that repeats the one before it once.               *)
(***************************************************************************)
EXTENDS Naturals, Sequences

CONSTANT MaxHistory

VARIABLES
  command,  \* the line as it stands, of which this module asks nothing
  shown     \* what the history command prints

\* The end of a sequence, at most MaxHistory elements of it.
Latest(s) == IF Len(s) > MaxHistory THEN Tail(s) ELSE s

\* A line is remembered as it was when it was entered.
Remember ==
  /\ shown = <<>> \/ shown[Len(shown)] # command
  /\ shown' = Latest(Append(shown, command))

Init == shown = <<>>

Spec == Init /\ [][Remember]_shown

=============================================================================
