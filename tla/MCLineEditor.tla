---------------------------- MODULE MCLineEditor ----------------------------
(***************************************************************************)
(* Instance of LineEditor for TLC.                                         *)
(***************************************************************************)
EXTENDS LineEditor

CONSTANTS x, X

FourChars == {x, X, Space, Quote}

\* A letter, the key of the two quotation marks (the single one is an
\* ordinary character, as x is), and the space bar.
ThreeKeys ==
  {[plain |-> x, shifted |-> X, letter |-> TRUE],
   [plain |-> x, shifted |-> Quote, letter |-> FALSE],
   [plain |-> Space, shifted |-> Space, letter |-> FALSE]}

ShortEcho == <<x>>

\* Bound: only a first line gets longer than two characters.
ShortAfterFirst ==
  history_count > 0 =>
    Len(line) <= 2 /\ \A i \in Slots : Len(command_history[i]) <= 2

=============================================================================
