----------------------------- MODULE LineEditor -----------------------------
(***************************************************************************)
(* The keyboard as the shell's user sees it: scancode_to_ascii with its    *)
(* two modes, the line, and the history of commands.                       *)
(***************************************************************************)
EXTENDS Line

CONSTANTS
  Keys,        \* keys with a character: [plain, shifted, letter]
  TabStop,     \* 4
  MaxHistory,  \* MAX_HISTORY
  Echo         \* the word of the one command that is not found by its argument

ASSUME LineEditorAssumption ==
  /\ Keys \subseteq [plain : Chars, shifted : Chars, letter : BOOLEAN]
  /\ TabStop \in Nat \ {0} /\ MaxHistory \in Nat \ {0}

ASSUME EchoAssumption == Echo \in Seq(Chars \ {Space, Quote}) \ {<<>>}

VARIABLES
  shift_pressed, caps_lock,
  command_history,  \* the ring, from 0
  history_pos, history_count,
  kept              \* how much of the line an earlier Enter left there

modeVars == <<shift_pressed, caps_lock>>
historyVars == <<command_history, history_pos, history_count>>
vars == <<line, modeVars, historyVars, kept>>

Slots == 0 .. MaxHistory - 1

-----------------------------------------------------------------------------
(* scancode_to_ascii.  It sees bytes, not keys: a byte 2A or 36 sets the    *)
(* flag, AA or B6 clears it, whichever shift key it comes from and also     *)
(* behind an E0, as keyboards send them around other keys; and a byte that  *)
(* enable_keyboard reads does not get here.  Caps lock concerns letters.    *)

ShiftPress ==
  /\ shift_pressed' = TRUE
  /\ UNCHANGED <<line, caps_lock, historyVars, kept>>

ShiftRelease ==
  /\ shift_pressed' = FALSE
  /\ UNCHANGED <<line, caps_lock, historyVars, kept>>

CapsLock ==
  /\ caps_lock' = ~caps_lock
  /\ UNCHANGED <<line, shift_pressed, historyVars, kept>>

Character(k) ==
  IF (IF k.letter THEN shift_pressed # caps_lock ELSE shift_pressed)
    THEN k.shifted ELSE k.plain

-----------------------------------------------------------------------------
(* keyboard_handler and handle_command.                                    *)

TypeChar(k) ==
  /\ AddChar(Character(k))
  /\ UNCHANGED <<modeVars, historyVars, kept>>

TypeTab(n) ==
  /\ AddSpaces(n)
  /\ UNCHANGED <<modeVars, historyVars, kept>>

Backspace ==
  /\ DeleteChar
  /\ kept' = IF kept < Len(line') THEN kept ELSE Len(line')
  /\ UNCHANGED <<modeVars, historyVars>>

\* Mutant: the slot that will be written next is compared.
NewestSlotNext == history_pos

NewestSlot == (history_pos - 1 + MaxHistory) % MaxHistory

\* Mutant: the position is not wrapped.
NextPosUnwrapped == history_pos + 1

NextPos == (history_pos + 1) % MaxHistory

\* add_to_history.
AddToHistory(command) ==
  IF history_count > 0 /\ command_history[NewestSlot] = command
    THEN UNCHANGED historyVars
    ELSE /\ command_history' = [command_history EXCEPT ![history_pos] = command]
         /\ history_pos' = NextPos
         /\ history_count' = IF history_count < MaxHistory
                               THEN history_count + 1 ELSE history_count

\* The branch that handle_command takes is the one its first argument names,
\* and changes nothing here; but echo's looks at the line itself.
IsEcho(text) == IsPrefix(Append(Echo, Space), text)

\* An empty line gives a new prompt and nothing else.
Enter ==
  /\ line # <<>>
  /\ AddToHistory(line)
  /\ line' = LineAfterCommand
  /\ kept' = Len(line')
  /\ UNCHANGED modeVars

Init ==
  /\ line = <<>> /\ kept = 0
  /\ shift_pressed = FALSE /\ caps_lock = FALSE
  /\ command_history = [i \in Slots |-> <<>>]
  /\ history_pos = 0 /\ history_count = 0

Next ==
  \/ ShiftPress \/ ShiftRelease \/ CapsLock
  \/ \E k \in Keys : TypeChar(k)
  \/ \E n \in 1 .. TabStop : TypeTab(n)
  \/ Backspace
  \/ Enter

Spec == Init /\ [][Next]_vars

-----------------------------------------------------------------------------
(* Properties.                                                             *)

\* The types; the ring's unused slots are empty.
TypeOK ==
  /\ line \in Seq(Chars) /\ kept \in 0 .. Len(line)
  /\ shift_pressed \in BOOLEAN /\ caps_lock \in BOOLEAN
  /\ command_history \in [Slots -> Seq(Chars)]
  /\ history_pos \in Slots /\ history_count \in 0 .. MaxHistory
  /\ \A i \in Slots : i >= history_count => command_history[i] = <<>>

\* The words of a line by position, as a reference for parse_command: a
\* position belongs to a word unless it is a quote or a space outside of
\* quotes; two neighbours belong to different words exactly if such a space
\* or a closing quote lies between them.
QuotedAt(text, i) == Cardinality({j \in 1 .. i - 1 : text[j] = Quote}) % 2 = 1

InWord(text, i) ==
  text[i] # Quote /\ (text[i] = Space => QuotedAt(text, i))

BreaksAt(text, i) ==
  \/ text[i] = Space /\ ~QuotedAt(text, i)
  \/ text[i] = Quote /\ QuotedAt(text, i)

StartsWord(text, i) ==
  /\ InWord(text, i)
  /\ \A j \in 1 .. i - 1 : InWord(text, j) =>
       \E m \in j + 1 .. i - 1 : BreaksAt(text, m)

Words(text) ==
  LET starts == {i \in DOMAIN text : StartsWord(text, i)}
      number(i) == Cardinality({s \in starts : s <= i})
      letters(n) == SelectSeq([i \in DOMAIN text |-> i],
                              LAMBDA i : InWord(text, i) /\ number(i) = n)
  IN  [n \in 1 .. Cardinality(starts) |->
         [i \in DOMAIN letters(n) |-> text[letters(n)[i]]]]

\* parse_command finds the first MaxArgs words of the line, whatever its
\* quotes: no empty argument, no character lost or moved to a neighbour.
ArgumentsAreWords ==
  LET words == Words(line) IN
  ParseCommand(line) =
    SubSeq(words, 1, IF Len(words) < MaxArgs THEN Len(words) ELSE MaxArgs)

\* What a blank line leaves behind (handle_command returns before it clears
\* the buffer) does not change the arguments of the next command, if there is
\* no quote in it.  The one command it changes is echo, which becomes an
\* unknown one: its branch looks for the word at the start of the buffer.
BlankRestHidesOnlyEcho ==
  (\A i \in 1 .. kept : line[i] # Quote) =>
    LET typed == SubSeq(line, kept + 1, Len(line))
    IN  /\ ParseCommand(line) = ParseCommand(typed)
        /\ IsEcho(line) <=> IsEcho(typed) /\ kept = 0

\* cmd_history's listing of the ring.
Listed ==
  LET start == IF history_count = MaxHistory THEN history_pos ELSE 0
  IN  [i \in 1 .. history_count |->
         command_history[(start + i - 1) % MaxHistory]]

History == INSTANCE CommandHistory WITH shown <- Listed, command <- line

\* The ring with its position and count is the list of the last commands:
\* across wrap-around and repeated lines, what cmd_history prints grows by the
\* newest line at its end and loses the oldest.
ImplementsHistory == History!Spec

=============================================================================
