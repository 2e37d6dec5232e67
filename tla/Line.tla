-------------------------------- MODULE Line --------------------------------
(***************************************************************************)
(* The command line: input_buffer up to input_pos, what a key of           *)
(* keyboard_handler does to it, and what handle_command makes of it.       *)
(* Where the line is shown is Console's, who types it LineEditor's.        *)
(***************************************************************************)
EXTENDS Integers, Sequences, FiniteSets, SequencesExt

CONSTANTS
  Chars,    \* the characters a key can give, Space and Quote among them
  Space, Quote,
  MaxLine,  \* 79, the limit of keyboard_handler
  MaxArgs   \* MAX_ARGS

ASSUME LineAssumption ==
  /\ {Space, Quote} \subseteq Chars /\ Space # Quote
  /\ MaxLine \in Nat \ {0} /\ MaxArgs \in Nat \ {0}

VARIABLE line  \* input_buffer[0 .. input_pos - 1]

-----------------------------------------------------------------------------
(* parse_command.                                                          *)

NoArguments == [args |-> <<>>, arg |-> <<>>, in_quotes |-> FALSE]

\* An argument without a character is none.
ArgumentEnds(p) ==
  IF p.arg = <<>> THEN p
  ELSE [p EXCEPT !.args = Append(@, p.arg), !.arg = <<>>]

\* Mutant: a quote also ends the argument it opens in the middle of.
AtQuoteSplitting(p) == [ArgumentEnds(p) EXCEPT !.in_quotes = ~@]

\* An opening quote does not end an argument, a closing one does.
AtQuote(p) ==
  [(IF p.in_quotes THEN ArgumentEnds(p) ELSE p) EXCEPT !.in_quotes = ~@]

\* One turn of the loop, which ends with the last argument there is room for.
ParseChar(p, c) ==
  CASE Len(p.args) = MaxArgs -> p
    [] Len(p.args) < MaxArgs /\ c = Quote -> AtQuote(p)
    [] Len(p.args) < MaxArgs /\ c = Space /\ ~p.in_quotes -> ArgumentEnds(p)
    [] OTHER -> [p EXCEPT !.arg = Append(@, c)]

ParseCommand(text) ==
  ArgumentEnds(FoldLeft(ParseChar, NoArguments, text)).args

-----------------------------------------------------------------------------
(* keyboard_handler.                                                       *)

Room == MaxLine - Len(line)

AddChar(c) == Room > 0 /\ line' = Append(line, c)

DeleteChar == line # <<>> /\ line' = Front(line)

\* Mutant: the limit is looked at before the first space only.
AddSpacesPastLimit(n) ==
  Room > 0 /\ line' = line \o [i \in 1 .. n |-> Space]

\* A tab is as many spaces as there is room for.
AddSpaces(n) ==
  /\ Room > 0
  /\ line' = line \o [i \in 1 .. (IF n < Room THEN n ELSE Room) |-> Space]

\* Mutant: argc is compared with one instead of zero.
LineAfterCommandOne == IF Len(ParseCommand(line)) <= 1 THEN line ELSE <<>>

\* handle_command clears the line at its end, but a line without an argument
\* returns before: what was typed of it stays, and the next key adds to it.
LineAfterCommand == IF ParseCommand(line) = <<>> THEN line ELSE <<>>

=============================================================================
