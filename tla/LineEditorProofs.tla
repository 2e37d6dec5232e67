-------------------------- MODULE LineEditorProofs --------------------------
(***************************************************************************)
(* The ring of commands is the list that CommandHistory promises, for      *)
(* every MaxHistory and whatever is typed.                                 *)
(***************************************************************************)
EXTENDS LineEditor, TLAPS

-----------------------------------------------------------------------------
(* The inductive invariant: until the ring is full it is filled in order,  *)
(* so that cmd_history may begin at slot 0.                                *)

FilledInOrder == history_count < MaxHistory => history_pos = history_count

IInv == TypeOK /\ FilledInOrder

-----------------------------------------------------------------------------
(* Positions in the ring.                                                  *)

LEMMA ModBelow ==
  ASSUME NEW m \in Nat \ {0}, NEW a \in 0 .. m - 1 PROVE a % m = a
OBVIOUS

LEMMA ModAbove ==
  ASSUME NEW m \in Nat \ {0}, NEW a \in m .. 2 * m - 1 PROVE a % m = a - m
OBVIOUS

\* The slot of a position up to one turn past the end of the ring.
SlotOf(n) == IF n < MaxHistory THEN n ELSE n - MaxHistory

LEMMA SlotArithmetic ==
  ASSUME MaxHistory \in Nat \ {0}, NEW n \in 0 .. 2 * MaxHistory - 1
  PROVE  n % MaxHistory = SlotOf(n) /\ SlotOf(n) \in Slots
<1>1. CASE n < MaxHistory
  BY <1>1, ModBelow DEF Slots, SlotOf
<1>2. CASE n >= MaxHistory
  BY <1>2, ModAbove DEF Slots, SlotOf
<1> QED BY <1>1, <1>2

\* NewestSlot and NextPos are the neighbours of the position in the ring.
LEMMA NeighbourSlots ==
  ASSUME MaxHistory \in Nat \ {0}, history_pos \in Slots
  PROVE  /\ NewestSlot = IF history_pos = 0 THEN MaxHistory - 1 ELSE history_pos - 1
         /\ NextPos = IF history_pos = MaxHistory - 1 THEN 0 ELSE history_pos + 1
<1>1. /\ history_pos - 1 + MaxHistory \in 0 .. 2 * MaxHistory - 1
      /\ history_pos + 1 \in 0 .. 2 * MaxHistory - 1
  BY DEF Slots
<1>2. NewestSlot = SlotOf(history_pos - 1 + MaxHistory)
  BY <1>1, SlotArithmetic DEF NewestSlot
<1>3. NextPos = SlotOf(history_pos + 1)
  BY <1>1, SlotArithmetic DEF NextPos
<1> QED BY <1>2, <1>3 DEF SlotOf, Slots

\* Where cmd_history finds the i-th command it prints, in a given ring.
ListOf(ring, pos, count) ==
  LET start == IF count = MaxHistory THEN pos ELSE 0
  IN  [i \in 1 .. count |-> ring[(start + i - 1) % MaxHistory]]

LEMMA ListValue ==
  ASSUME MaxHistory \in Nat \ {0},
         NEW ring \in [Slots -> Seq(Chars)], NEW pos \in Slots,
         NEW count \in 0 .. MaxHistory
  PROVE  /\ ListOf(ring, pos, count) \in Seq(Seq(Chars))
         /\ Len(ListOf(ring, pos, count)) = count
         /\ \A i \in 1 .. count :
              ListOf(ring, pos, count)[i] =
                ring[IF count < MaxHistory THEN i - 1 ELSE SlotOf(pos + i - 1)]
<1> DEFINE start == IF count = MaxHistory THEN pos ELSE 0
<1>1. ASSUME NEW i \in 1 .. count
      PROVE  /\ (start + i - 1) % MaxHistory = SlotOf(start + i - 1)
             /\ SlotOf(start + i - 1) \in Slots
             /\ count < MaxHistory => SlotOf(start + i - 1) = i - 1
  <2>1. start + i - 1 \in 0 .. 2 * MaxHistory - 1
    BY DEF Slots
  <2>2. count < MaxHistory => SlotOf(start + i - 1) = i - 1
    BY DEF SlotOf
  <2> QED BY <2>1, <2>2, SlotArithmetic
<1>2. ListOf(ring, pos, count) =
        [i \in 1 .. count |-> ring[(start + i - 1) % MaxHistory]]
  BY DEF ListOf
<1>3. /\ ListOf(ring, pos, count) \in Seq(Seq(Chars))
      /\ Len(ListOf(ring, pos, count)) = count
  <2> HIDE DEF start
  <2> QED BY <1>1, <1>2
<1>4. \A i \in 1 .. count :
        ListOf(ring, pos, count)[i] = ring[SlotOf(start + i - 1)]
  <2> HIDE DEF start
  <2> QED BY <1>1, <1>2
<1>5. count = MaxHistory => start = pos
  OBVIOUS
<1> HIDE DEF start
<1> QED BY <1>1, <1>3, <1>4, <1>5

LEMMA ListedIsListOf == Listed = ListOf(command_history, history_pos, history_count)
BY DEF Listed, ListOf

-----------------------------------------------------------------------------
LEMMA InitIInv == Init => IInv
<1> SUFFICES ASSUME Init PROVE IInv OBVIOUS
<1>1. line \in Seq(Chars) /\ Len(line) = 0 /\ kept \in 0 .. Len(line)
  BY DEF Init
<1>2. command_history \in [Slots -> Seq(Chars)]
  BY DEF Init
<1>3. history_pos \in Slots /\ history_count \in 0 .. MaxHistory
  BY LineEditorAssumption DEF Init, Slots
<1>4. \A i \in Slots : i >= history_count => command_history[i] = <<>>
  BY DEF Init
<1>5. shift_pressed \in BOOLEAN /\ caps_lock \in BOOLEAN
  BY DEF Init
<1> QED BY <1>1, <1>2, <1>3, <1>4, <1>5 DEF IInv, TypeOK, FilledInOrder, Init

\* What the keys do to the line.
LEMMA LineTypes ==
  ASSUME IInv
  PROVE  /\ \A c \in Chars : AddChar(c) => line' \in Seq(Chars) /\ Len(line') >= Len(line)
         /\ DeleteChar => line' \in Seq(Chars) /\ Len(line') \in Nat
         /\ \A n \in 1 .. TabStop :
              AddSpaces(n) => line' \in Seq(Chars) /\ Len(line') >= Len(line)
         /\ LineAfterCommand \in Seq(Chars)
<1> USE LineAssumption, LineEditorAssumption DEF IInv, TypeOK
<1>1. ASSUME NEW c \in Chars, AddChar(c)
      PROVE  line' \in Seq(Chars) /\ Len(line') >= Len(line)
  BY <1>1 DEF AddChar
<1>2. ASSUME DeleteChar PROVE line' \in Seq(Chars) /\ Len(line') \in Nat
  BY <1>2 DEF DeleteChar, Front
<1>3. ASSUME NEW n \in 1 .. TabStop, AddSpaces(n)
      PROVE  line' \in Seq(Chars) /\ Len(line') >= Len(line)
  <2> DEFINE m == IF n < Room THEN n ELSE Room
             spaces == [i \in 1 .. m |-> Space]
  <2>1. m \in Nat
    BY <1>3 DEF AddSpaces, Room
  <2>2. spaces \in Seq(Chars) /\ Len(spaces) = m
    BY <2>1
  <2>3. line' = line \o spaces
    BY <1>3 DEF AddSpaces
  <2> HIDE DEF spaces, m
  <2> QED BY <2>1, <2>2, <2>3
<1>4. LineAfterCommand \in Seq(Chars)
  BY DEF LineAfterCommand
<1> QED BY <1>1, <1>2, <1>3, <1>4

\* A new command goes into the slot at the position.
LEMMA AddToHistoryIInv ==
  ASSUME IInv, AddToHistory(line)
  PROVE  /\ command_history' \in [Slots -> Seq(Chars)]
         /\ history_pos' \in Slots /\ history_count' \in 0 .. MaxHistory
         /\ \A i \in Slots : i >= history_count' => command_history'[i] = <<>>
         /\ FilledInOrder'
<1> USE LineEditorAssumption DEF IInv, TypeOK
<1>1. CASE UNCHANGED historyVars
  BY <1>1 DEF historyVars, FilledInOrder
<1>2. CASE /\ command_history' = [command_history EXCEPT ![history_pos] = line]
           /\ history_pos' = NextPos
           /\ history_count' = IF history_count < MaxHistory
                                 THEN history_count + 1 ELSE history_count
  <2>1. history_pos' = IF history_pos = MaxHistory - 1 THEN 0 ELSE history_pos + 1
    BY <1>2, NeighbourSlots
  <2> QED BY <1>2, <2>1 DEF Slots, FilledInOrder
<1> QED BY <1>1, <1>2 DEF AddToHistory

LEMMA NextIInv == IInv /\ [Next]_vars => IInv'
<1> SUFFICES ASSUME IInv, [Next]_vars PROVE IInv' OBVIOUS
<1> USE LineAssumption, LineEditorAssumption
<1>1. CASE ShiftPress \/ ShiftRelease
  BY <1>1 DEF ShiftPress, ShiftRelease, historyVars, IInv, TypeOK, FilledInOrder
<1>2. CASE CapsLock
  BY <1>2 DEF CapsLock, historyVars, IInv, TypeOK, FilledInOrder
<1>3. ASSUME NEW k \in Keys, TypeChar(k) PROVE IInv'
  <2>1. Character(k) \in Chars
    BY DEF Character
  <2>2. line' \in Seq(Chars) /\ Len(line') >= Len(line)
    BY <1>3, <2>1, LineTypes DEF TypeChar
  <2> QED BY <1>3, <2>2 DEF TypeChar, modeVars, historyVars, IInv, TypeOK, FilledInOrder
<1>4. ASSUME NEW n \in 1 .. TabStop, TypeTab(n) PROVE IInv'
  <2>1. line' \in Seq(Chars) /\ Len(line') >= Len(line)
    BY <1>4, LineTypes DEF TypeTab
  <2> QED BY <1>4, <2>1 DEF TypeTab, modeVars, historyVars, IInv, TypeOK, FilledInOrder
<1>5. CASE Backspace
  <2>1. line' \in Seq(Chars) /\ Len(line') \in Nat
    BY <1>5, LineTypes DEF Backspace
  <2> QED BY <1>5, <2>1 DEF Backspace, modeVars, historyVars, IInv, TypeOK, FilledInOrder
<1>6. CASE Enter
  <2>1. line' \in Seq(Chars) /\ kept' = Len(line') /\ UNCHANGED modeVars
    BY <1>6, LineTypes DEF Enter
  <2>2. AddToHistory(line)
    BY <1>6 DEF Enter
  <2> QED BY <2>1, <2>2, AddToHistoryIInv DEF modeVars, IInv, TypeOK
<1>7. CASE UNCHANGED vars
  BY <1>7 DEF vars, modeVars, historyVars, IInv, TypeOK, FilledInOrder
<1> QED BY <1>1, <1>2, <1>3, <1>4, <1>5, <1>6, <1>7 DEF Next

LEMMA Invariance == Spec => []IInv
<1> QED BY InitIInv, NextIInv, PTL DEF Spec

\* Every variable keeps its type, the position stays in the ring, and unused
\* slots are empty.
THEOREM TypeCorrect == Spec => []TypeOK
<1>1. IInv => TypeOK BY DEF IInv
<1> QED BY <1>1, Invariance, PTL

-----------------------------------------------------------------------------
(* The refinement.                                                         *)

\* A line that add_to_history does not drop is not the last one listed.
LEMMA NewestIsLast ==
  ASSUME IInv, history_count > 0
  PROVE  Listed[history_count] = command_history[NewestSlot]
<1> USE LineEditorAssumption DEF IInv, TypeOK
<1>1. NewestSlot = IF history_pos = 0 THEN MaxHistory - 1 ELSE history_pos - 1
  BY NeighbourSlots
<1>2. history_count \in 1 .. history_count
  OBVIOUS
<1>3. Listed[history_count] =
        command_history[IF history_count < MaxHistory THEN history_count - 1
                        ELSE SlotOf(history_pos + history_count - 1)]
  BY <1>2, ListedIsListOf, ListValue
<1>4. history_pos \in 0 .. MaxHistory - 1 /\ history_count \in 1 .. MaxHistory
  BY DEF Slots
<1>5. CASE history_count < MaxHistory
  <2>1. history_pos = history_count
    BY <1>5 DEF FilledInOrder
  <2> QED BY <1>1, <1>3, <1>4, <1>5, <2>1
<1>6. CASE history_count = MaxHistory
  <2>1. SlotOf(history_pos + history_count - 1)
          = IF history_pos = 0 THEN MaxHistory - 1 ELSE history_pos - 1
    BY <1>4, <1>6 DEF SlotOf
  <2> QED BY <1>1, <1>3, <1>6, <2>1
<1> QED BY <1>4, <1>5, <1>6

\* Until the ring is full the list grows at its end.
LEMMA GrowingStep ==
  ASSUME IInv, NEW command \in Seq(Chars), history_count < MaxHistory
  PROVE  ListOf([command_history EXCEPT ![history_pos] = command], NextPos, history_count + 1)
           = Append(Listed, command)
<1> USE LineEditorAssumption DEF IInv, TypeOK
<1> DEFINE ring == [command_history EXCEPT ![history_pos] = command]
           new  == ListOf(ring, NextPos, history_count + 1)
           old  == ListOf(command_history, history_pos, history_count)
<1>1. /\ history_pos = history_count
      /\ NextPos = IF history_pos = MaxHistory - 1 THEN 0 ELSE history_pos + 1
  BY NeighbourSlots DEF FilledInOrder
<1>2. /\ ring \in [Slots -> Seq(Chars)] /\ NextPos \in Slots
      /\ history_count + 1 \in 0 .. MaxHistory
      /\ \A k \in Slots : ring[k] = IF k = history_pos THEN command ELSE command_history[k]
  BY <1>1 DEF Slots
<1>3. /\ old \in Seq(Seq(Chars)) /\ Len(old) = history_count
      /\ \A i \in 1 .. history_count : old[i] = command_history[i - 1]
  BY ListValue
<1> HIDE DEF ring
<1>4. /\ new \in Seq(Seq(Chars)) /\ Len(new) = history_count + 1
      /\ \A i \in 1 .. history_count + 1 :
           new[i] = ring[IF history_count + 1 < MaxHistory THEN i - 1
                         ELSE SlotOf(NextPos + i - 1)]
  BY <1>2, ListValue
<1>5. \A i \in 1 .. history_count + 1 : new[i] = ring[i - 1]
  BY <1>1, <1>4 DEF SlotOf
<1> HIDE DEF new, old
<1>6. /\ Append(old, command) \in Seq(Seq(Chars))
      /\ Len(Append(old, command)) = history_count + 1
      /\ \A i \in 1 .. history_count + 1 :
           Append(old, command)[i] = IF i = history_count + 1 THEN command ELSE old[i]
  BY <1>3
<1>7. ASSUME NEW i \in 1 .. history_count + 1 PROVE new[i] = Append(old, command)[i]
  <2>1. i - 1 \in Slots
    BY DEF Slots
  <2>2. CASE i = history_count + 1
    <3>1. i - 1 = history_pos
      BY <2>2, <1>1
    <3> QED BY <2>1, <2>2, <3>1, <1>2, <1>5, <1>6
  <2>3. CASE i # history_count + 1
    <3>1. i \in 1 .. history_count /\ i - 1 # history_pos
      BY <2>3, <1>1
    <3> QED BY <2>1, <2>3, <3>1, <1>2, <1>3, <1>5, <1>6
  <2> QED BY <2>2, <2>3
<1>8. new = Append(old, command)
  BY <1>4, <1>6, <1>7
<1> QED BY <1>8, ListedIsListOf DEF new, old, ring

\* A full ring's list loses its first command for the new one at its end.
LEMMA TurningStep ==
  ASSUME IInv, NEW command \in Seq(Chars), history_count = MaxHistory
  PROVE  ListOf([command_history EXCEPT ![history_pos] = command], NextPos, history_count)
           = Tail(Append(Listed, command))
<1> USE LineEditorAssumption DEF IInv, TypeOK
<1> DEFINE ring == [command_history EXCEPT ![history_pos] = command]
           new  == ListOf(ring, NextPos, history_count)
           old  == ListOf(command_history, history_pos, history_count)
           appended == Append(old, command)
<1>1. NextPos = IF history_pos = MaxHistory - 1 THEN 0 ELSE history_pos + 1
  BY NeighbourSlots
<1>2. /\ ring \in [Slots -> Seq(Chars)] /\ NextPos \in Slots
      /\ \A k \in Slots : ring[k] = IF k = history_pos THEN command ELSE command_history[k]
  BY <1>1 DEF Slots
<1>3. /\ old \in Seq(Seq(Chars)) /\ Len(old) = MaxHistory
      /\ \A i \in 1 .. MaxHistory : old[i] = command_history[SlotOf(history_pos + i - 1)]
  BY ListValue
<1> HIDE DEF ring
<1>4. /\ new \in Seq(Seq(Chars)) /\ Len(new) = MaxHistory
      /\ \A i \in 1 .. MaxHistory : new[i] = ring[SlotOf(NextPos + i - 1)]
  <2>1. /\ new \in Seq(Seq(Chars)) /\ Len(new) = history_count
        /\ \A i \in 1 .. history_count :
             new[i] = ring[IF history_count < MaxHistory THEN i - 1
                           ELSE SlotOf(NextPos + i - 1)]
    BY <1>2, ListValue
  <2> QED BY <2>1
<1> HIDE DEF new, old
<1>5. /\ appended \in Seq(Seq(Chars)) /\ Len(appended) = MaxHistory + 1
      /\ \A i \in 1 .. MaxHistory + 1 :
           appended[i] = IF i = MaxHistory + 1 THEN command ELSE old[i]
  BY <1>3
<1> HIDE DEF appended
<1>6. /\ Tail(appended) \in Seq(Seq(Chars)) /\ Len(Tail(appended)) = MaxHistory
      /\ \A i \in 1 .. MaxHistory : Tail(appended)[i] = appended[i + 1]
  BY <1>5
<1>7. ASSUME NEW i \in 1 .. MaxHistory PROVE new[i] = Tail(appended)[i]
  <2>1. CASE i = MaxHistory
    <3>1. SlotOf(NextPos + i - 1) = history_pos
      BY <2>1, <1>1 DEF SlotOf, Slots
    <3>2. new[i] = command
      BY <3>1, <1>2, <1>4
    <3> QED BY <2>1, <3>2, <1>5, <1>6
  <2>2. CASE i # MaxHistory
    <3>1. /\ SlotOf(NextPos + i - 1) = SlotOf(history_pos + (i + 1) - 1)
          /\ SlotOf(history_pos + (i + 1) - 1) \in Slots \ {history_pos}
      BY <2>2, <1>1 DEF SlotOf, Slots
    <3>2. new[i] = command_history[SlotOf(history_pos + (i + 1) - 1)]
      BY <3>1, <1>2, <1>4
    <3>3. i + 1 \in 1 .. MaxHistory
      BY <2>2
    <3>4. Tail(appended)[i] = old[i + 1]
      BY <3>3, <1>5, <1>6
    <3> QED BY <3>2, <3>3, <3>4, <1>3
  <2> QED BY <2>1, <2>2
<1>8. new = Tail(appended)
  BY <1>4, <1>6, <1>7
<1> QED BY <1>8, ListedIsListOf DEF new, old, ring, appended

LEMMA EnterRemembers ==
  ASSUME IInv, AddToHistory(line)
  PROVE  [History!Remember]_Listed
<1> USE LineEditorAssumption DEF IInv, TypeOK
<1>1. CASE UNCHANGED historyVars
  BY <1>1 DEF historyVars, Listed
<1>2. CASE /\ ~(history_count > 0 /\ command_history[NewestSlot] = line)
           /\ command_history' = [command_history EXCEPT ![history_pos] = line]
           /\ history_pos' = NextPos
           /\ history_count' = IF history_count < MaxHistory
                                 THEN history_count + 1 ELSE history_count
  <2>1. Listed \in Seq(Seq(Chars)) /\ Len(Listed) = history_count
    BY ListedIsListOf, ListValue
  <2>2. Listed = <<>> \/ Listed[Len(Listed)] # line
    BY <1>2, <2>1, NewestIsLast
  <2>3. Listed' = History!Latest(Append(Listed, line))
    <3>1. Len(Append(Listed, line)) = history_count + 1
      BY <2>1
    <3>2. Listed' = ListOf(command_history', history_pos', history_count')
      BY DEF Listed, ListOf
    <3>3. CASE history_count < MaxHistory
      <4>1. Listed' = Append(Listed, line)
        BY <1>2, <3>2, <3>3, GrowingStep
      <4> QED BY <3>1, <3>3, <4>1 DEF History!Latest
    <3>4. CASE history_count = MaxHistory
      <4>1. history_count' = history_count
        BY <1>2, <3>4
      <4>2. Listed' = ListOf([command_history EXCEPT ![history_pos] = line],
                             NextPos, history_count)
        BY <1>2, <3>2, <4>1
      <4>3. Listed' = Tail(Append(Listed, line))
        BY <3>4, <4>2, TurningStep
      <4> QED BY <3>1, <3>4, <4>3 DEF History!Latest
    <3> QED BY <3>3, <3>4
  <2> QED BY <2>2, <2>3 DEF History!Remember
<1> QED BY <1>1, <1>2 DEF AddToHistory

\* LineEditor implements CommandHistory: what cmd_history prints is the last
\* MaxHistory commands, oldest first, however the ring has turned.
THEOREM HistoryCorrect == Spec => ImplementsHistory
<1>1. Init => History!Init
  <2> SUFFICES ASSUME Init PROVE Listed = <<>> BY DEF History!Init
  <2>1. history_count = 0 BY DEF Init
  <2> QED BY <2>1, InitIInv, ListedIsListOf, ListValue, LineEditorAssumption DEF IInv, TypeOK
<1>2. IInv /\ [Next]_vars => [History!Remember]_Listed
  <2> SUFFICES ASSUME IInv, [Next]_vars PROVE [History!Remember]_Listed
    OBVIOUS
  <2>1. CASE Enter
    BY <2>1, EnterRemembers DEF Enter
  <2>2. CASE UNCHANGED historyVars
    BY <2>2 DEF historyVars, Listed
  <2>3. Enter \/ UNCHANGED historyVars
    BY DEF Next, ShiftPress, ShiftRelease, CapsLock, TypeChar, TypeTab, Backspace, vars
  <2> QED BY <2>1, <2>2, <2>3
<1> QED BY <1>1, <1>2, Invariance, PTL DEF Spec, ImplementsHistory, History!Spec
=============================================================================
