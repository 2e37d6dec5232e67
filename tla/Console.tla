------------------------------ MODULE Console -------------------------------
(***************************************************************************)
(* The screen and its cursor, and the three that print on it: the keyboard *)
(* handler, shell_task's welcome, and background_task's display of its     *)
(* counter, which borrows the cursor and puts it back.  Every print_char   *)
(* turns interrupts on, so one of them can begin in the middle of another. *)
(*                                                                         *)
(* One action is one statement on the cursor or the screen.  The ones with *)
(* which a handler or a section begins, up to its first print_char, run    *)
(* with interrupts off and are one action with it.                         *)
(***************************************************************************)
EXTENDS Line

CONSTANTS
  VgaHeight, VgaWidth,
  DisplayCol,   \* 60
  TabStop,      \* 4
  Typed,        \* the characters typed
  Text,         \* any character that is printed, not typed
  Outputs       \* what a command prints

ASSUME ConsoleAssumption ==
  /\ VgaHeight \in Nat \ {0} /\ VgaWidth \in Nat \ {0}
  /\ DisplayCol \in 0 .. VgaWidth - 1 /\ TabStop \in Nat \ {0}
  /\ Typed \subseteq Chars
  /\ Outputs \subseteq Seq({Text, "newline", "clear"})
  /\ Chars \cap {"newline", "clear", "reset"} = {}

VARIABLES
  screen, cursor_row, cursor_col,
  jobs,               \* who is printing, the last inside the one before it
  shell_initialized,
  echo_at             \* history: the position behind the last prompt, where
                      \* the line is echoed, or Nowhere: a key did not find
                      \* the cursor there, or it is not on the screen

vars ==
  <<line, screen, cursor_row, cursor_col, jobs, shell_initialized, echo_at>>

Rows == 0 .. VgaHeight - 1
Cols == 0 .. VgaWidth - 1
Glyphs == Chars \cup {Text, "newline"}

Prompt == <<Text>>
Welcome == <<Text, "newline">> \o Prompt
Display == <<Text>>

\* Positions on the screen, row by row.
Position(row, col) == row * VgaWidth + col

Nowhere == -1

-----------------------------------------------------------------------------
(* vga.c.                                                                  *)

Blank == [r \in Rows |-> [c \in Cols |-> Space]]

\* print_char at a position; off the screen it writes nothing.
Written(glyph, row, col) ==
  IF row \in Rows /\ col \in Cols
    THEN [screen EXCEPT ![row][col] = glyph] ELSE screen

\* scroll_screen.
Scrolled ==
  [r \in Rows |-> IF r + 1 \in Rows THEN screen[r + 1] ELSE [c \in Cols |-> Space]]

-----------------------------------------------------------------------------
(* Printing.  A job is what is still to be printed, the statement it is    *)
(* at, and the cursor that background_task has saved.                      *)

Top == jobs[Len(jobs)]

Running(kind) == \E i \in DOMAIN jobs : jobs[i].kind = kind

Started(kind, pc, todo, saved) ==
  jobs' = Append(jobs, [kind |-> kind, pc |-> pc, todo |-> todo, saved |-> saved])

At(pc) == jobs # <<>> /\ Top.pc = pc

Goto(pc) == jobs' = [jobs EXCEPT ![Len(jobs)].pc = pc]

Finished == jobs' = SubSeq(jobs, 1, Len(jobs) - 1)

NextIs(items) == At("print") /\ Top.todo # <<>> /\ Head(Top.todo) \in items

Taken(pc) ==
  jobs' = [jobs EXCEPT ![Len(jobs)].pc = pc, ![Len(jobs)].todo = Tail(@)]

PrintChar ==
  /\ NextIs(Glyphs \ {"newline"})
  /\ screen' = Written(Head(Top.todo), cursor_row, cursor_col)
  /\ Taken("advance")
  /\ UNCHANGED <<line, cursor_row, cursor_col, shell_initialized, echo_at>>

PrintNewline ==
  /\ NextIs({"newline"})
  /\ cursor_row' = cursor_row + 1
  /\ Taken("home")
  /\ UNCHANGED <<line, screen, cursor_col, shell_initialized, echo_at>>

ClearScreen ==
  /\ NextIs({"clear"})
  /\ screen' = Blank /\ cursor_row' = 0 /\ cursor_col' = 0
  /\ Taken("print")
  /\ UNCHANGED <<line, shell_initialized, echo_at>>

\* handle_command's "Clear input buffer".
ClearInput ==
  /\ NextIs({"reset"})
  /\ line' = <<>>
  /\ Taken("print")
  /\ UNCHANGED <<screen, cursor_row, cursor_col, shell_initialized, echo_at>>

notCursor == <<line, screen, shell_initialized, echo_at>>

Advance ==
  /\ At("advance") /\ Goto("wrap")
  /\ cursor_col' = cursor_col + 1
  /\ UNCHANGED <<notCursor, cursor_row>>

Wrap ==
  /\ At("wrap")
  /\ Goto(IF cursor_col >= VgaWidth THEN "rowUp" ELSE "print")
  /\ UNCHANGED <<notCursor, cursor_row, cursor_col>>

RowUp ==
  /\ At("rowUp") /\ Goto("home")
  /\ cursor_row' = cursor_row + 1
  /\ UNCHANGED <<notCursor, cursor_col>>

Home ==
  /\ At("home") /\ Goto("scroll")
  /\ cursor_col' = 0
  /\ UNCHANGED <<notCursor, cursor_row>>

Scroll ==
  /\ At("scroll")
  /\ IF cursor_row >= VgaHeight
       THEN /\ screen' = Scrolled
            /\ echo_at' = IF echo_at < VgaWidth THEN Nowhere
                                                ELSE echo_at - VgaWidth
            /\ Goto("lastRow")
       ELSE UNCHANGED <<screen, echo_at>> /\ Goto("print")
  /\ UNCHANGED <<line, cursor_row, cursor_col, shell_initialized>>

\* Mutant: the cursor stays below the screen after it scrolled.
LastRowKept ==
  /\ At("lastRow") /\ Goto("print")
  /\ UNCHANGED <<notCursor, cursor_row, cursor_col>>

LastRow ==
  /\ At("lastRow") /\ Goto("print")
  /\ cursor_row' = VgaHeight - 1
  /\ UNCHANGED <<notCursor, cursor_col>>

-----------------------------------------------------------------------------
(* keyboard_handler.  One at a time; none while the display runs in the    *)
(* place of another job, since it then runs under a timer interrupt that   *)
(* is still in service (Kernel's KeyboardNotReentered, UnderTimer).        *)

MayHandleKey ==
  /\ ~Running("key")
  /\ \A i \in DOMAIN jobs : jobs[i].kind = "display" => i = 1

\* A key inside another job is typed where that has the cursor.
InPlace == echo_at' = IF jobs = <<>> THEN echo_at ELSE Nowhere

KeyJob(pc, todo) == Started("key", pc, todo, <<0, 0>>)

TypeChar(c) ==
  /\ MayHandleKey /\ InPlace
  /\ AddChar(c)
  /\ screen' = Written(c, cursor_row, cursor_col)
  /\ KeyJob("advance", <<>>)
  /\ UNCHANGED <<cursor_row, cursor_col, shell_initialized>>

TypeTab ==
  /\ MayHandleKey /\ InPlace
  /\ AddSpaces(TabStop - (cursor_col % TabStop))
  /\ screen' = Written(Space, cursor_row, cursor_col)
  /\ KeyJob("advance", SubSeq(line', Len(line) + 2, Len(line')))
  /\ UNCHANGED <<cursor_row, cursor_col, shell_initialized>>

\* Mutant: the cursor does not go back to the row above.
BeforeInRow == <<cursor_row, IF cursor_col > 0 THEN cursor_col - 1 ELSE 0>>

\* The position before the cursor; the first one has none.
Before ==
  CASE cursor_col > 0 -> <<cursor_row, cursor_col - 1>>
    [] cursor_col = 0 /\ cursor_row > 0 -> <<cursor_row - 1, VgaWidth - 1>>
    [] OTHER -> <<cursor_row, cursor_col>>

Backspace ==
  /\ MayHandleKey /\ InPlace
  /\ DeleteChar
  /\ cursor_row' = Before[1] /\ cursor_col' = Before[2]
  /\ screen' = Written(Space, Before[1], Before[2])
  /\ UNCHANGED <<jobs, shell_initialized>>

\* The newline is printed as a glyph first.  Then the command, if there is
\* one, and the prompt.
Enter ==
  /\ MayHandleKey
  /\ echo_at' = Nowhere
  /\ screen' = Written("newline", cursor_row, cursor_col)
  /\ \E output \in IF ParseCommand(line) = <<>> THEN {<<>>}
                     ELSE {o \o <<"reset">> : o \in Outputs} :
       KeyJob("rowUp", output \o Prompt)
  /\ UNCHANGED <<line, cursor_row, cursor_col, shell_initialized>>

-----------------------------------------------------------------------------
(* shell_task and background_task.                                         *)

\* Clearing the screen is the first thing.  Keys typed before are in the line.
ShellStart ==
  /\ jobs = <<>> /\ ~shell_initialized
  /\ screen' = Blank /\ cursor_row' = 0 /\ cursor_col' = 0
  /\ Started("shell", "print", Welcome, <<0, 0>>)
  /\ echo_at' = Nowhere
  /\ UNCHANGED <<line, shell_initialized>>

\* Where the display is, the line cannot be seen.
DisplayCells == DisplayCol .. DisplayCol + Len(Display) - 1

\* In its turn, or in the place of a job that a timer interrupt left.
DisplayStart ==
  /\ ~Running("display")
  /\ shell_initialized \/ Running("shell")
  /\ cursor_row' = 0 /\ cursor_col' = DisplayCol
  /\ screen' = Written(Head(Display), 0, DisplayCol)
  /\ Started("display", "advance", Tail(Display), <<cursor_row, cursor_col>>)
  /\ echo_at' = IF \E i \in 1 .. Len(line) :
                        echo_at + i - 1 \in DisplayCells THEN Nowhere ELSE echo_at
  /\ UNCHANGED <<line, shell_initialized>>

RestoreRow ==
  /\ At("print") /\ Top.todo = <<>> /\ Top.kind = "display"
  /\ cursor_row' = Top.saved[1]
  /\ Goto("restore")
  /\ UNCHANGED <<notCursor, cursor_col>>

RestoreCol ==
  /\ At("restore")
  /\ cursor_col' = Top.saved[2]
  /\ Finished
  /\ UNCHANGED <<notCursor, cursor_row>>

\* The end of a key or of the welcome.  With an empty line and the prompt
\* just printed, what is typed next is echoed behind it.
Finish ==
  /\ At("print") /\ Top.todo = <<>> /\ Top.kind # "display"
  /\ Finished
  /\ shell_initialized' = (shell_initialized \/ Top.kind = "shell")
  /\ echo_at' = IF echo_at = Nowhere /\ line = <<>> /\ Len(jobs) = 1
                  THEN Position(cursor_row, cursor_col) ELSE echo_at
  /\ UNCHANGED <<line, screen, cursor_row, cursor_col>>

-----------------------------------------------------------------------------
\* enable_keyboard has printed a line or more.
Init ==
  /\ line = <<>>
  /\ screen = Blank /\ cursor_row \in Rows \ {0} /\ cursor_col = 0
  /\ jobs = <<>>
  /\ shell_initialized = FALSE /\ echo_at = Nowhere

Printing ==
  \/ PrintChar \/ PrintNewline \/ ClearScreen \/ ClearInput
  \/ Advance \/ Wrap \/ RowUp \/ Home \/ Scroll \/ LastRow
  \/ RestoreRow \/ RestoreCol \/ Finish

Key == (\E c \in Typed : TypeChar(c)) \/ TypeTab \/ Backspace \/ Enter

Next == Printing \/ Key \/ ShellStart \/ DisplayStart

Spec == Init /\ [][Next]_vars

-----------------------------------------------------------------------------
(* Properties.                                                             *)

Items == Glyphs \cup {"clear", "reset"}

Points ==
  {"print", "advance", "wrap", "rowUp", "home", "scroll", "lastRow", "restore"}

\* The cursor is at most one past the screen's edges, and one more where a key
\* finds it there.
TypeOK ==
  /\ line \in Seq(Chars) /\ Len(line) <= MaxLine
  /\ screen \in [Rows -> [Cols -> Glyphs]]
  /\ cursor_row \in 0 .. VgaHeight + 1 /\ cursor_col \in 0 .. VgaWidth + 1
  /\ jobs \in Seq([kind : {"key", "shell", "display"}, pc : Points,
                   todo : Seq(Items), saved : Nat \X Nat])
  /\ Len(jobs) <= 3
  /\ shell_initialized \in BOOLEAN /\ echo_at \in Nat \cup {Nowhere}

\* Nothing is printed into the void: whoever executes next finds the cursor on
\* the screen when it prints, also after it was borrowed in the middle of a
\* line feed.  Only a key that comes in the middle of another job may not.
CursorOnScreen ==
  \/ Len(jobs) > 1 /\ Running("key") /\ jobs[1].kind # "key"
  \/ jobs # <<>> /\ Top.pc # "print"
  \/ cursor_row \in Rows /\ cursor_col \in Cols

\* What the user sees is what handle_command will get: the cells before the
\* cursor show the line, across row ends, scrolling, tabs and backspaces, and
\* although the display borrows the cursor in the middle of a key.
EchoMatchesLine ==
  jobs = <<>> /\ echo_at # Nowhere =>
    /\ Position(cursor_row, cursor_col) = echo_at + Len(line)
    /\ \A i \in DOMAIN line :
         LET at == echo_at + i - 1
         IN  screen[at \div VgaWidth][at % VgaWidth] = line[i]

=============================================================================
