---------------------------- MODULE ConsoleProofs ----------------------------
(***************************************************************************)
(* The console for a screen of every size: where the jobs that share the   *)
(* cursor may find it, and that the line is shown as it was typed although *)
(* they come inside of each other.                                         *)
(***************************************************************************)
EXTENDS Console, SequenceTheorems, TLAPS

-----------------------------------------------------------------------------
(* How far from the screen's edges each job may find the cursor.           *)

RowLimit(pc, floor) == IF pc \in {"home", "scroll", "lastRow"} THEN floor + 1 ELSE floor

ColLimit(pc, floor) ==
  IF pc = "advance" THEN floor
  ELSE IF pc \in {"wrap", "rowUp", "home"} THEN floor + 1 ELSE VgaWidth - 1

\* What the first n jobs leave to the one that comes inside them.
RowMax(n) ==
  IF n = 0 THEN VgaHeight - 1
  ELSE IF n = 1 THEN RowLimit(jobs[1].pc, VgaHeight - 1)
  ELSE RowLimit(jobs[2].pc, RowLimit(jobs[1].pc, VgaHeight - 1))

ColMax(n) ==
  IF n = 0 THEN VgaWidth - 1
  ELSE IF n = 1 THEN ColLimit(jobs[1].pc, VgaWidth - 1)
  ELSE ColLimit(jobs[2].pc, ColLimit(jobs[1].pc, VgaWidth - 1))

\* The display runs inside another job.
Borrowed == Len(jobs) > 1 /\ Top.kind = "display"

\* At most one job of a kind; the welcome is inside of nothing, and nothing
\* but a key that came first is inside the display.
Stacked ==
  /\ Len(jobs) <= 3
  /\ \A i \in 1 .. Len(jobs) :
       /\ jobs[i].kind = "shell" => i = 1
       /\ jobs[i].kind = "display" => i \in {1, Len(jobs)}
       /\ jobs[i].pc = "restore" => jobs[i].kind = "display"
       /\ \A k \in 1 .. Len(jobs) : jobs[k].kind = jobs[i].kind => k = i

\* The cursor where the running job may find it.
AtOwn ==
  /\ cursor_row \in 0 .. RowMax(Len(jobs))
  /\ cursor_col \in 0 .. ColMax(Len(jobs))

\* The display's own cursor, and where the others find theirs again.
AtBorrowed ==
  /\ Top.saved[1] \in 0 .. RowMax(Len(jobs) - 1)
  /\ Top.saved[2] \in 0 .. ColMax(Len(jobs) - 1)
  /\ IF Top.pc = "restore" THEN cursor_row = Top.saved[1] /\ cursor_col \in Cols
     ELSE /\ cursor_row \in 0 .. RowLimit(Top.pc, VgaHeight - 1)
          /\ cursor_col \in 0 .. ColLimit(Top.pc, VgaWidth - 1)

Bounded ==
  /\ IF Borrowed THEN AtBorrowed ELSE AtOwn
  /\ (jobs # <<>> /\ jobs[1].kind = "display") => jobs[1].saved \in Rows \X Cols

Jobs == [kind : {"key", "shell", "display"}, pc : Points,
         todo : Seq(Items), saved : Nat \X Nat]

\* What else has a type.
Typical ==
  /\ line \in Seq(Chars) /\ Len(line) <= MaxLine
  /\ screen \in [Rows -> [Cols -> Glyphs]]
  /\ shell_initialized \in BOOLEAN /\ echo_at \in Nat \cup {Nowhere}

IInv == Typical /\ jobs \in Seq(Jobs) /\ Stacked /\ Bounded

-----------------------------------------------------------------------------
(* What a step does to the jobs.                                           *)

Replaced(j) == jobs # <<>> /\ jobs' = [jobs EXCEPT ![Len(jobs)] = j]

\* At most three jobs are inside each other.
LEMMA JobCount ==
  ASSUME jobs \in Seq(Jobs), Stacked
  PROVE  /\ Len(jobs) \in Nat /\ Len(jobs) <= 3
         /\ jobs # <<>> <=> Len(jobs) > 0
<1>1. Len(jobs) \in Nat /\ Len(jobs) <= 3
  BY DEF Stacked
<1>2. jobs = <<>> <=> Len(jobs) = 0
  BY EmptySeq
<1>3. jobs # <<>> <=> Len(jobs) > 0
  BY <1>1, <1>2
<1> QED BY <1>1, <1>3

\* A step of the running job leaves the others alone.
LEMMA ReplacedTop ==
  ASSUME jobs \in Seq(Jobs), Stacked, NEW j \in Jobs, Replaced(j),
         j.kind = Top.kind, j.pc = "restore" => j.kind = "display"
  PROVE  /\ jobs' \in Seq(Jobs) /\ Len(jobs') = Len(jobs) /\ Top' = j /\ Stacked'
         /\ \A i \in 1 .. Len(jobs) - 1 : jobs'[i] = jobs[i]
         /\ Len(jobs) \in Nat /\ Len(jobs) > 0 /\ Len(jobs) <= 3
<1>1. Len(jobs) \in Nat /\ Len(jobs) > 0 /\ Len(jobs) <= 3 /\ Len(jobs) \in 1 .. Len(jobs)
  BY JobCount DEF Replaced
<1>2. /\ jobs' \in Seq(Jobs) /\ Len(jobs') = Len(jobs) /\ jobs'[Len(jobs)] = j
      /\ \A i \in 1 .. Len(jobs) - 1 : jobs'[i] = jobs[i]
  BY <1>1 DEF Replaced
<1>3. \A i \in 1 .. Len(jobs) : jobs'[i].kind = jobs[i].kind
  BY <1>1, <1>2 DEF Top
<1>4. Stacked'
  BY <1>1, <1>2, <1>3 DEF Stacked
<1> QED BY <1>1, <1>2, <1>4 DEF Top

\* Goto is such a step.
LEMMA GotoReplaces ==
  ASSUME jobs \in Seq(Jobs), jobs # <<>>, NEW pc \in Points, Goto(pc)
  PROVE  /\ [Top EXCEPT !.pc = pc] \in Jobs /\ Replaced([Top EXCEPT !.pc = pc])
         /\ Top \in Jobs
<1>1. Len(jobs) \in 1 .. Len(jobs) /\ Top \in Jobs
  BY DEF Top
<1>2. Replaced([Top EXCEPT !.pc = pc])
  BY <1>1 DEF Goto, Replaced, Top
<1>3. [Top EXCEPT !.pc = pc] \in Jobs
  BY <1>1 DEF Jobs
<1> QED BY <1>1, <1>2, <1>3

\* So is Taken, with an item less to print.
LEMMA TakenReplaces ==
  ASSUME jobs \in Seq(Jobs), jobs # <<>>, Top.todo # <<>>, NEW pc \in Points, Taken(pc)
  PROVE  LET j == [Top EXCEPT !.pc = pc, !.todo = Tail(Top.todo)]
         IN  j \in Jobs /\ Replaced(j) /\ Top \in Jobs
<1>1. Len(jobs) \in 1 .. Len(jobs) /\ Top \in Jobs
  BY DEF Top
<1>2. Tail(Top.todo) \in Seq(Items)
  BY <1>1 DEF Jobs
<1>3. [Top EXCEPT !.pc = pc, !.todo = Tail(Top.todo)] \in Jobs
  BY <1>1, <1>2 DEF Jobs
<1>4. Replaced([Top EXCEPT !.pc = pc, !.todo = Tail(Top.todo)])
  BY <1>1 DEF Taken, Replaced, Top
<1> QED BY <1>1, <1>3, <1>4

\* The running job ends.
LEMMA FinishedJobs ==
  ASSUME jobs \in Seq(Jobs), jobs # <<>>, Stacked, Finished
  PROVE  /\ jobs' \in Seq(Jobs) /\ Len(jobs') = Len(jobs) - 1 /\ Stacked'
         /\ \A i \in 1 .. Len(jobs) - 1 : jobs'[i] = jobs[i]
         /\ Len(jobs) \in Nat /\ Len(jobs) > 0 /\ Len(jobs) <= 3
<1>1. Len(jobs) \in Nat /\ Len(jobs) > 0 /\ Len(jobs) <= 3
  BY JobCount
<1>2. jobs' = SubSeq(jobs, 1, Len(jobs) - 1)
  BY DEF Finished
<1>4. /\ jobs' \in Seq(Jobs) /\ Len(jobs') = Len(jobs) - 1
      /\ \A i \in 1 .. Len(jobs) - 1 : jobs'[i] = jobs[i]
  <2> DEFINE n == Len(jobs) - 1
  <2>1. n \in Nat /\ 1 \in Int /\ n \in Int /\ \A i \in 1 .. n : jobs[i] \in Jobs
    BY <1>1
  <2>2. /\ SubSeq(jobs, 1, n) \in Seq(Jobs)
        /\ Len(SubSeq(jobs, 1, n)) = IF 1 <= n THEN n - 1 + 1 ELSE 0
        /\ \A i \in 1 .. n - 1 + 1 : SubSeq(jobs, 1, n)[i] = jobs[1 + i - 1]
    BY <2>1, SubSeqProperties
  <2> HIDE DEF n
  <2>3. Len(SubSeq(jobs, 1, n)) = n /\ \A i \in 1 .. n : SubSeq(jobs, 1, n)[i] = jobs[i]
    BY <2>1, <2>2
  <2> QED BY <1>2, <2>2, <2>3 DEF n
<1>5. Stacked'
  BY <1>1, <1>4 DEF Stacked
<1> QED BY <1>1, <1>4, <1>5

\* Another begins inside of it.
LEMMA StartedJobs ==
  ASSUME jobs \in Seq(Jobs), Stacked, NEW kind \in {"key", "shell", "display"},
         NEW pc \in Points, pc # "restore", NEW todo \in Seq(Items),
         NEW saved \in Nat \X Nat, Started(kind, pc, todo, saved),
         ~Running(kind), kind = "shell" => jobs = <<>>,
         \A i \in 1 .. Len(jobs) : jobs[i].kind = "display" => i = 1
  PROVE  /\ jobs' \in Seq(Jobs) /\ Len(jobs') = Len(jobs) + 1 /\ Stacked'
         /\ \A i \in 1 .. Len(jobs) : jobs'[i] = jobs[i]
         /\ Top' = [kind |-> kind, pc |-> pc, todo |-> todo, saved |-> saved]
         /\ Len(jobs) \in Nat /\ Len(jobs) <= 2
<1> DEFINE j == [kind |-> kind, pc |-> pc, todo |-> todo, saved |-> saved]
<1>1. j \in Jobs /\ j.kind = kind /\ j.pc = pc
  BY DEF Jobs
<1>2. Len(jobs) \in Nat /\ jobs' = Append(jobs, j)
  BY DEF Started
<1> HIDE DEF j
<1>3. /\ jobs' \in Seq(Jobs) /\ Len(jobs') = Len(jobs) + 1
      /\ \A i \in 1 .. Len(jobs) : jobs'[i] = jobs[i]
      /\ jobs'[Len(jobs) + 1] = j
  BY <1>1, <1>2
<1>4. \A i \in 1 .. Len(jobs) : jobs[i].kind # kind /\ jobs[i] \in Jobs
  BY DEF Running
<1>5. Len(jobs) \in Nat /\ Len(jobs) <= 2
  <2>1. ASSUME Len(jobs) = 3 PROVE FALSE
    <3>1. \A i \in 1 .. 3 : jobs[i].kind \in {"key", "shell", "display"} \ {kind}
      BY <1>4, <2>1 DEF Jobs
    <3>2. \A i, k \in 1 .. 3 : jobs[k].kind = jobs[i].kind => k = i
      BY <2>1 DEF Stacked
    <3>3. /\ jobs[1].kind # jobs[2].kind
          /\ jobs[1].kind # jobs[3].kind
          /\ jobs[2].kind # jobs[3].kind
      BY <3>2
    <3>4. /\ jobs[1].kind \in {"key", "shell", "display"} \ {kind}
          /\ jobs[2].kind \in {"key", "shell", "display"} \ {kind}
          /\ jobs[3].kind \in {"key", "shell", "display"} \ {kind}
      BY <3>1
    <3> QED BY <3>3, <3>4
  <2>2. Len(jobs) \in Nat /\ Len(jobs) <= 3
    BY JobCount
  <2> DEFINE n == Len(jobs)
  <2>3. n \in Nat /\ n <= 3 /\ n # 3
    BY <2>1, <2>2
  <2> HIDE DEF n
  <2>4. n \in Nat /\ n <= 2
    BY <2>3
  <2> QED BY <2>4 DEF n
<1>6. Stacked'
  <2>1. \A i \in 1 .. Len(jobs) + 1 : jobs'[i] = IF i = Len(jobs) + 1 THEN j ELSE jobs[i]
    BY <1>3, <1>5
  <2>2. ASSUME NEW i \in 1 .. Len(jobs) + 1
        PROVE  /\ jobs'[i].kind = "shell" => i = 1
               /\ jobs'[i].kind = "display" => i \in {1, Len(jobs) + 1}
               /\ jobs'[i].pc = "restore" => jobs'[i].kind = "display"
    <3>1. CASE i = Len(jobs) + 1
      BY <1>1, <2>1, <3>1
    <3>2. CASE i # Len(jobs) + 1
      <4>1. i \in 1 .. Len(jobs) /\ jobs'[i] = jobs[i]
        BY <1>5, <2>1, <3>2
      <4> QED BY <4>1 DEF Stacked
    <3> QED BY <3>1, <3>2
  <2>3. ASSUME NEW i \in 1 .. Len(jobs) + 1, NEW k \in 1 .. Len(jobs) + 1,
               jobs'[k].kind = jobs'[i].kind
        PROVE  k = i
    <3>1. CASE i = Len(jobs) + 1
      BY <1>1, <1>4, <1>5, <2>1, <2>3, <3>1
    <3>2. CASE k = Len(jobs) + 1
      BY <1>1, <1>4, <1>5, <2>1, <2>3, <3>2
    <3>3. CASE i # Len(jobs) + 1 /\ k # Len(jobs) + 1
      <4>1. /\ i \in 1 .. Len(jobs) /\ jobs'[i] = jobs[i]
            /\ k \in 1 .. Len(jobs) /\ jobs'[k] = jobs[k]
        BY <1>5, <2>1, <3>3
      <4> QED BY <2>3, <4>1 DEF Stacked
    <3> QED BY <3>1, <3>2, <3>3
  <2> QED BY <1>3, <1>5, <2>2, <2>3 DEF Stacked
<1> QED BY <1>3, <1>5, <1>6 DEF Top, j

-----------------------------------------------------------------------------
(* The limits of the cursor.                                               *)

\* The screen has a row and a column, one of them the display's.
LEMMA Sizes ==
  /\ VgaHeight \in Nat \ {0} /\ VgaWidth \in Nat \ {0}
  /\ DisplayCol \in 0 .. VgaWidth - 1 /\ TabStop \in Nat \ {0}
BY ConsoleAssumption

\* A job inside n others finds the cursor n positions past the edges at most.
LEMMA MaxTypes ==
  ASSUME NEW n \in {0, 1, 2}
  PROVE  /\ RowMax(n) \in Int /\ RowMax(n) >= VgaHeight - 1 /\ RowMax(n) <= VgaHeight + 1
         /\ ColMax(n) \in Int /\ ColMax(n) >= VgaWidth - 1 /\ ColMax(n) <= VgaWidth + 1
         /\ n < 2 => RowMax(n) <= VgaHeight /\ ColMax(n) <= VgaWidth
BY Sizes DEF RowMax, ColMax, RowLimit, ColLimit

\* The limits depend on the statements that the others are at.
LEMMA MaxKept ==
  ASSUME NEW n \in {0, 1, 2}, \A i \in 1 .. n : jobs'[i].pc = jobs[i].pc
  PROVE  RowMax(n)' = RowMax(n) /\ ColMax(n)' = ColMax(n)
<1>1. CASE n = 0
  BY <1>1 DEF RowMax, ColMax
<1>2. CASE n = 1
  <2>1. jobs'[1].pc = jobs[1].pc
    BY <1>2
  <2> QED BY <1>2, <2>1 DEF RowMax, ColMax, RowLimit, ColLimit
<1>3. CASE n = 2
  <2>1. jobs'[1].pc = jobs[1].pc /\ jobs'[2].pc = jobs[2].pc
    BY <1>3
  <2> QED BY <1>3, <2>1 DEF RowMax, ColMax, RowLimit, ColLimit
<1> QED BY <1>1, <1>2, <1>3

\* The limits of the running job build on those of the one it is inside.
LEMMA MaxOfTop ==
  ASSUME NEW n \in {1, 2}
  PROVE  /\ RowMax(n) = RowLimit(jobs[n].pc, RowMax(n - 1))
         /\ ColMax(n) = ColLimit(jobs[n].pc, ColMax(n - 1))
<1>1. CASE n = 1
  BY <1>1 DEF RowMax, ColMax
<1>2. CASE n = 2
  BY <1>2 DEF RowMax, ColMax
<1> QED BY <1>1, <1>2

\* Three jobs are a key inside the welcome and the display inside of both.
LEMMA OwnIsShort ==
  ASSUME jobs \in Seq(Jobs), Stacked, ~Borrowed
  PROVE  Len(jobs) \in {0, 1, 2}
<1> DEFINE n == Len(jobs)
<1>1. n \in Nat /\ n <= 3
  BY JobCount
<1>2. ASSUME n = 3 PROVE FALSE
  <2>1. /\ \A i \in 1 .. 3 : jobs[i] \in Jobs
        /\ \A i \in 1 .. 3 : /\ jobs[i].kind = "shell" => i = 1
                             /\ jobs[i].kind = "display" => i \in {1, 3}
        /\ \A i, k \in 1 .. 3 : jobs[k].kind = jobs[i].kind => k = i
    BY <1>2 DEF Stacked
  <2>2. \A i \in 1 .. 3 : jobs[i].kind \in {"key", "shell", "display"}
    BY <2>1 DEF Jobs
  <2>3. jobs[3].kind # "display"
    BY <1>2 DEF Borrowed, Top
  <2>4. jobs[2].kind = "key" /\ jobs[3].kind = "key"
    BY <2>1, <2>2, <2>3
  <2> QED BY <2>1, <2>4
<1> HIDE DEF n
<1>3. n \in {0, 1, 2}
  BY <1>1, <1>2
<1> QED BY <1>3 DEF n

\* Where the running job finds the cursor, as limits of its own.
RowFloor == IF Borrowed THEN VgaHeight - 1 ELSE RowMax(Len(jobs) - 1)
ColFloor == IF Borrowed THEN VgaWidth - 1 ELSE ColMax(Len(jobs) - 1)

AtTop ==
  /\ cursor_row \in 0 .. RowLimit(Top.pc, RowFloor)
  /\ cursor_col \in 0 .. ColLimit(Top.pc, ColFloor)

\* They are the edges, or one more.
LEMMA Floors ==
  ASSUME jobs \in Seq(Jobs), Stacked, jobs # <<>>
  PROVE  /\ RowFloor \in {VgaHeight - 1, VgaHeight}
         /\ ColFloor \in {VgaWidth - 1, VgaWidth}
         /\ Len(jobs) = 1 => RowFloor = VgaHeight - 1 /\ ColFloor = VgaWidth - 1
<1>1. CASE Borrowed
  BY <1>1 DEF RowFloor, ColFloor
<1>2. CASE ~Borrowed
  <2>1. Len(jobs) \in {1, 2}
    BY <1>2, OwnIsShort, JobCount
  <2>2. CASE Len(jobs) = 1
    BY <1>2, <2>2 DEF RowFloor, ColFloor, RowMax, ColMax
  <2>3. CASE Len(jobs) = 2
    BY <1>2, <2>3, Sizes DEF RowFloor, ColFloor, RowMax, ColMax, RowLimit, ColLimit
  <2> QED BY <2>1, <2>2, <2>3
<1> QED BY <1>1, <1>2

\* The running job finds the cursor within them.
LEMMA BoundedAtTop ==
  ASSUME jobs \in Seq(Jobs), Stacked, Bounded, jobs # <<>>, Top.pc # "restore"
  PROVE  AtTop
<1>1. CASE Borrowed
  BY <1>1 DEF Bounded, AtBorrowed, AtTop, RowFloor, ColFloor
<1>2. CASE ~Borrowed
  <2>1. Len(jobs) \in {1, 2}
    BY <1>2, OwnIsShort, JobCount
  <2>2. /\ RowMax(Len(jobs)) = RowLimit(Top.pc, RowMax(Len(jobs) - 1))
        /\ ColMax(Len(jobs)) = ColLimit(Top.pc, ColMax(Len(jobs) - 1))
    BY <2>1, MaxOfTop DEF Top
  <2> QED BY <1>2, <2>2 DEF Bounded, AtOwn, AtTop, RowFloor, ColFloor
<1> QED BY <1>1, <1>2

\* A step of the running job has to leave the cursor within its new limits.
LEMMA StepBounded ==
  ASSUME jobs \in Seq(Jobs), Stacked, Bounded,
         NEW j \in Jobs, Replaced(j), j.kind = Top.kind, j.saved = Top.saved,
         j.pc = "restore" => j.kind = "display",
         \/ /\ j.pc # "restore"
            /\ cursor_row' \in 0 .. RowLimit(j.pc, RowFloor)
            /\ cursor_col' \in 0 .. ColLimit(j.pc, ColFloor)
         \/ /\ j.pc = "restore"
            /\ cursor_row' = Top.saved[1] /\ cursor_col' \in Cols
  PROVE  /\ Bounded' /\ Stacked' /\ jobs' \in Seq(Jobs)
<1>1. /\ jobs' \in Seq(Jobs) /\ Len(jobs') = Len(jobs) /\ Top' = j /\ Stacked'
      /\ \A i \in 1 .. Len(jobs) - 1 : jobs'[i] = jobs[i]
      /\ Len(jobs) > 0
  BY ReplacedTop
<1>2. Borrowed' <=> Borrowed
  BY <1>1 DEF Borrowed
<1>3. (jobs' # <<>> /\ jobs'[1].kind = "display") => jobs'[1].saved \in Rows \X Cols
  <2>1. CASE Len(jobs) = 1
    BY <1>1, <2>1 DEF Top, Bounded, Replaced
  <2>2. CASE Len(jobs) # 1
    <3>1. 1 \in 1 .. Len(jobs) - 1
      BY <1>1, <2>2, JobCount
    <3> QED BY <1>1, <3>1 DEF Bounded, Replaced
  <2> QED BY <2>1, <2>2
<1>4. CASE Borrowed
  <2>1. Len(jobs) - 1 \in {1, 2}
    <3> DEFINE n == Len(jobs)
    <3>1. n \in Nat /\ n > 1 /\ n <= 3
      BY <1>4, JobCount DEF Borrowed
    <3> HIDE DEF n
    <3>2. n - 1 \in {1, 2}
      BY <3>1
    <3> QED BY <3>2 DEF n
  <2>2. RowMax(Len(jobs) - 1)' = RowMax(Len(jobs) - 1) /\ ColMax(Len(jobs) - 1)' = ColMax(Len(jobs) - 1)
    <3> DEFINE n == Len(jobs) - 1
    <3>1. n \in {0, 1, 2} /\ \A i \in 1 .. n : jobs'[i].pc = jobs[i].pc
      BY <1>1, <2>1
    <3>2. \A k \in {0, 1, 2} : (\A i \in 1 .. k : jobs'[i].pc = jobs[i].pc) =>
             RowMax(k)' = RowMax(k) /\ ColMax(k)' = ColMax(k)
      BY MaxKept
    <3>3. Len(jobs') = Len(jobs)
      BY <1>1
    <3> QED BY <3>1, <3>2, <3>3
  <2>3. AtBorrowed'
    BY <1>1, <1>4, <2>2 DEF Bounded, AtBorrowed, RowFloor, ColFloor
  <2> QED BY <1>1, <1>2, <1>3, <1>4, <2>3 DEF Bounded
<1>5. CASE ~Borrowed
  <2>1. Len(jobs) \in {1, 2}
    BY <1>1, <1>5, OwnIsShort
  <2>2. RowMax(Len(jobs) - 1)' = RowMax(Len(jobs) - 1) /\ ColMax(Len(jobs) - 1)' = ColMax(Len(jobs) - 1)
    <3> DEFINE n == Len(jobs) - 1
    <3>1. n \in {0, 1, 2} /\ \A i \in 1 .. n : jobs'[i].pc = jobs[i].pc
      BY <1>1, <2>1
    <3>2. \A k \in {0, 1, 2} : (\A i \in 1 .. k : jobs'[i].pc = jobs[i].pc) =>
             RowMax(k)' = RowMax(k) /\ ColMax(k)' = ColMax(k)
      BY MaxKept
    <3>3. Len(jobs') = Len(jobs)
      BY <1>1
    <3> QED BY <3>1, <3>2, <3>3
  <2>3. /\ RowMax(Len(jobs))' = RowLimit(j.pc, RowFloor)
        /\ ColMax(Len(jobs))' = ColLimit(j.pc, ColFloor)
    <3>1. /\ RowMax(Len(jobs))' = RowLimit(Top'.pc, RowMax(Len(jobs) - 1)')
          /\ ColMax(Len(jobs))' = ColLimit(Top'.pc, ColMax(Len(jobs) - 1)')
      <4>1. CASE Len(jobs) = 1
        BY <1>1, <4>1 DEF RowMax, ColMax, RowLimit, ColLimit, Top
      <4>2. CASE Len(jobs) = 2
        BY <1>1, <4>2 DEF RowMax, ColMax, RowLimit, ColLimit, Top
      <4> QED BY <2>1, <4>1, <4>2
    <3> QED BY <1>1, <1>5, <2>2, <3>1 DEF RowFloor, ColFloor
  <2>4. CASE j.pc # "restore"
    <3>1. AtOwn'
      BY <2>3, <2>4 DEF AtOwn
    <3> QED BY <1>1, <1>2, <1>3, <1>5, <3>1 DEF Bounded
  <2>5. CASE j.pc = "restore"
    <3>1. Len(jobs) = 1
      <4>1. jobs[Len(jobs)].kind = "display"
        BY <2>5 DEF Top
      <4>2. ASSUME Len(jobs) = 2 PROVE FALSE
        <5>1. Len(jobs) > 1
          BY <4>2
        <5> QED BY <1>5, <4>1, <5>1 DEF Borrowed, Top
      <4> QED BY <2>1, <4>2
    <3>2. jobs[1].saved \in Rows \X Cols /\ Top = jobs[1]
      BY <2>5, <3>1 DEF Bounded, Replaced, Top
    <3>3. cursor_row' \in Rows /\ cursor_col' \in Cols
      BY <2>5, <3>2
    <3>4. RowFloor = VgaHeight - 1 /\ ColFloor = VgaWidth - 1
      BY <3>1, <1>5 DEF RowFloor, ColFloor, RowMax, ColMax
    <3>5. AtOwn'
      BY <2>3, <2>5, <3>3, <3>4 DEF AtOwn, RowLimit, ColLimit, Rows, Cols
    <3> QED BY <1>1, <1>2, <1>3, <1>5, <3>5 DEF Bounded
  <2> QED BY <2>4, <2>5
<1> QED BY <1>1, <1>4, <1>5

\* Whoever runs, the cursor is at most two positions past the edges.
LEMMA BoundedCursor ==
  ASSUME jobs \in Seq(Jobs), Stacked, Bounded
  PROVE  cursor_row \in 0 .. VgaHeight + 1 /\ cursor_col \in 0 .. VgaWidth + 1
<1>1. CASE jobs # <<>> /\ Top.pc # "restore"
  BY <1>1, BoundedAtTop, Floors, Sizes DEF AtTop, RowLimit, ColLimit
<1>2. CASE Borrowed /\ Top.pc = "restore"
  <2>1. Len(jobs) - 1 \in {1, 2}
    <3> DEFINE n == Len(jobs)
    <3>1. n \in Nat /\ n > 1 /\ n <= 3
      BY <1>2, JobCount DEF Borrowed
    <3> HIDE DEF n
    <3>2. n - 1 \in {1, 2}
      BY <3>1
    <3> QED BY <3>2 DEF n
  <2>2. RowMax(Len(jobs) - 1) \in Int /\ RowMax(Len(jobs) - 1) <= VgaHeight + 1
    BY <2>1, MaxTypes
  <2> QED BY <1>2, <2>2, Sizes DEF Bounded, AtBorrowed, Cols
<1>3. CASE ~Borrowed
  <2>1. Len(jobs) \in {0, 1, 2}
    BY <1>3, OwnIsShort
  <2>2. /\ RowMax(Len(jobs)) \in Int /\ RowMax(Len(jobs)) <= VgaHeight + 1
        /\ ColMax(Len(jobs)) \in Int /\ ColMax(Len(jobs)) <= VgaWidth + 1
    BY <2>1, MaxTypes
  <2> QED BY <1>3, <2>2, Sizes DEF Bounded, AtOwn
<1>4. Borrowed => jobs # <<>>
  <2>1. ASSUME jobs = <<>> PROVE ~Borrowed
    BY <2>1 DEF Borrowed
  <2> QED BY <2>1
<1> QED BY <1>1, <1>2, <1>3, <1>4

\* The inductive invariant has the types.
LEMMA IInvTypes == IInv => TypeOK
<1> SUFFICES ASSUME IInv PROVE TypeOK OBVIOUS
<1>1. cursor_row \in 0 .. VgaHeight + 1 /\ cursor_col \in 0 .. VgaWidth + 1
  BY BoundedCursor DEF IInv
<1>2. jobs \in Seq(Jobs) /\ Len(jobs) <= 3
  BY JobCount DEF IInv
<1> QED BY <1>1, <1>2 DEF IInv, Typical, TypeOK, Jobs

-----------------------------------------------------------------------------
(* The line and the screen.                                                *)

\* The screen keeps its rows and columns.
LEMMA ScreenTypes ==
  ASSUME screen \in [Rows -> [Cols -> Glyphs]]
  PROVE  /\ Blank \in [Rows -> [Cols -> Glyphs]]
         /\ Scrolled \in [Rows -> [Cols -> Glyphs]]
         /\ \A glyph \in Glyphs : \A row, col :
              Written(glyph, row, col) \in [Rows -> [Cols -> Glyphs]]
<1>1. Space \in Glyphs
  BY LineAssumption DEF Glyphs
<1>2. Blank \in [Rows -> [Cols -> Glyphs]]
  BY <1>1 DEF Blank
<1>3. Scrolled \in [Rows -> [Cols -> Glyphs]]
  BY <1>1 DEF Scrolled
<1>4. ASSUME NEW glyph \in Glyphs, NEW row, NEW col
      PROVE  Written(glyph, row, col) \in [Rows -> [Cols -> Glyphs]]
  <2>1. CASE row \in Rows /\ col \in Cols
    <3>1. Written(glyph, row, col) = [screen EXCEPT ![row] = [screen[row] EXCEPT ![col] = glyph]]
      BY <2>1 DEF Written
    <3>2. [screen[row] EXCEPT ![col] = glyph] \in [Cols -> Glyphs]
      BY <2>1
    <3> QED BY <3>1, <3>2
  <2>2. CASE ~(row \in Rows /\ col \in Cols)
    BY <2>2 DEF Written
  <2> QED BY <2>1, <2>2
<1> QED BY <1>2, <1>3, <1>4

\* The line keeps its limit.
LEMMA LineTypes ==
  ASSUME line \in Seq(Chars), Len(line) <= MaxLine
  PROVE  /\ \A c \in Chars : AddChar(c) =>
              line' \in Seq(Chars) /\ Len(line') <= MaxLine /\ line' = Append(line, c)
         /\ DeleteChar => line' \in Seq(Chars) /\ Len(line') <= MaxLine
         /\ \A n \in Nat : AddSpaces(n) => line' \in Seq(Chars) /\ Len(line') <= MaxLine
<1> USE LineAssumption
<1>1. ASSUME NEW c \in Chars, AddChar(c)
      PROVE  line' \in Seq(Chars) /\ Len(line') <= MaxLine /\ line' = Append(line, c)
  BY <1>1 DEF AddChar, Room
<1>2. ASSUME DeleteChar PROVE line' \in Seq(Chars) /\ Len(line') <= MaxLine
  BY <1>2 DEF DeleteChar, Front
<1>3. ASSUME NEW n \in Nat, AddSpaces(n)
      PROVE  line' \in Seq(Chars) /\ Len(line') <= MaxLine
  <2> DEFINE m == IF n < Room THEN n ELSE Room
             spaces == [i \in 1 .. m |-> Space]
  <2>1. m \in Nat /\ m + Len(line) <= MaxLine
    BY <1>3 DEF AddSpaces, Room
  <2>2. spaces \in Seq(Chars) /\ Len(spaces) = m
    BY <2>1
  <2>3. line' = line \o spaces
    BY <1>3 DEF AddSpaces
  <2> HIDE DEF spaces, m
  <2> QED BY <2>1, <2>2, <2>3
<1> QED BY <1>1, <1>2, <1>3

-----------------------------------------------------------------------------
(* Each statement of a job moves the cursor within the limits of the next. *)

\* The statements by name.
LEMMA PointNames ==
  /\ "print" \in Points /\ "advance" \in Points /\ "wrap" \in Points /\ "rowUp" \in Points
  /\ "home" \in Points /\ "scroll" \in Points /\ "lastRow" \in Points /\ "restore" \in Points
BY DEF Points

\* Goto keeps the cursor within its limits, if they are those of the next statement.
LEMMA GotoBounded ==
  ASSUME IInv, jobs # <<>>, NEW pc \in Points, pc # "restore", Goto(pc),
         cursor_row' \in 0 .. RowLimit(pc, RowFloor),
         cursor_col' \in 0 .. ColLimit(pc, ColFloor)
  PROVE  Bounded' /\ Stacked' /\ jobs' \in Seq(Jobs)
<1> DEFINE j == [Top EXCEPT !.pc = pc]
<1>1. jobs \in Seq(Jobs) /\ Stacked /\ Bounded
  BY DEF IInv
<1>2. j \in Jobs /\ Replaced(j) /\ Top \in Jobs
  BY <1>1, GotoReplaces
<1>3. j.pc = pc /\ j.kind = Top.kind /\ j.saved = Top.saved
  BY <1>2 DEF Jobs
<1> HIDE DEF j
<1> QED BY <1>1, <1>2, <1>3, StepBounded

\* The same for Taken.
LEMMA TakenBounded ==
  ASSUME IInv, jobs # <<>>, Top.todo # <<>>, NEW pc \in Points, pc # "restore", Taken(pc),
         cursor_row' \in 0 .. RowLimit(pc, RowFloor),
         cursor_col' \in 0 .. ColLimit(pc, ColFloor)
  PROVE  Bounded' /\ Stacked' /\ jobs' \in Seq(Jobs)
<1> DEFINE j == [Top EXCEPT !.pc = pc, !.todo = Tail(Top.todo)]
<1>1. jobs \in Seq(Jobs) /\ Stacked /\ Bounded
  BY DEF IInv
<1>2. j \in Jobs /\ Replaced(j) /\ Top \in Jobs
  BY <1>1, TakenReplaces
<1>3. j.pc = pc /\ j.kind = Top.kind /\ j.saved = Top.saved
  BY <1>2 DEF Jobs
<1> HIDE DEF j
<1> QED BY <1>1, <1>2, <1>3, StepBounded

\* What is true of the cursor before a statement of the running job.
LEMMA RunningAtTop ==
  ASSUME IInv, NEW pc, At(pc), pc # "restore"
  PROVE  /\ jobs # <<>> /\ Top.pc = pc /\ Top \in Jobs
         /\ cursor_row \in 0 .. RowLimit(pc, RowFloor)
         /\ cursor_col \in 0 .. ColLimit(pc, ColFloor)
         /\ RowFloor \in {VgaHeight - 1, VgaHeight}
         /\ ColFloor \in {VgaWidth - 1, VgaWidth}
<1>1. jobs # <<>> /\ Top.pc = pc
  BY DEF At
<1>2. Top \in Jobs
  <2>1. Len(jobs) \in 1 .. Len(jobs)
    BY <1>1, JobCount DEF IInv
  <2> QED BY <2>1 DEF IInv, Top
<1>3. AtTop
  BY <1>1, BoundedAtTop DEF IInv
<1>4. /\ RowFloor \in {VgaHeight - 1, VgaHeight}
      /\ ColFloor \in {VgaWidth - 1, VgaWidth}
  BY <1>1, Floors DEF IInv
<1> QED BY <1>1, <1>2, <1>3, <1>4 DEF AtTop

\* print_char, statement by statement.
LEMMA PrintCharIInv == ASSUME IInv, PrintChar PROVE IInv'
<1> DEFINE glyph == Head(Top.todo)
<1>1. At("print") /\ Top.todo # <<>> /\ glyph \in Glyphs /\ Taken("advance")
  BY DEF PrintChar, NextIs
<1>2. Bounded' /\ Stacked' /\ jobs' \in Seq(Jobs)
  BY <1>1, RunningAtTop, TakenBounded, PointNames, Sizes
  DEF PrintChar, RowLimit, ColLimit
<1>3. Typical'
  BY ScreenTypes, <1>1 DEF PrintChar, IInv, Typical
<1> QED BY <1>2, <1>3 DEF IInv

LEMMA PrintNewlineIInv == ASSUME IInv, PrintNewline PROVE IInv'
<1>1. At("print") /\ Top.todo # <<>> /\ Taken("home")
  BY DEF PrintNewline, NextIs
<1>2. Bounded' /\ Stacked' /\ jobs' \in Seq(Jobs)
  BY <1>1, RunningAtTop, TakenBounded, PointNames, Sizes
  DEF PrintNewline, RowLimit, ColLimit
<1>3. Typical'
  BY DEF PrintNewline, IInv, Typical
<1> QED BY <1>2, <1>3 DEF IInv

LEMMA ClearScreenIInv == ASSUME IInv, ClearScreen PROVE IInv'
<1>1. At("print") /\ Top.todo # <<>> /\ Taken("print")
  BY DEF ClearScreen, NextIs
<1>2. Bounded' /\ Stacked' /\ jobs' \in Seq(Jobs)
  BY <1>1, RunningAtTop, TakenBounded, PointNames, Sizes
  DEF ClearScreen, RowLimit, ColLimit
<1>3. Typical'
  BY ScreenTypes DEF ClearScreen, IInv, Typical
<1> QED BY <1>2, <1>3 DEF IInv

LEMMA ClearInputIInv == ASSUME IInv, ClearInput PROVE IInv'
<1>1. At("print") /\ Top.todo # <<>> /\ Taken("print")
  BY DEF ClearInput, NextIs
<1>2. Bounded' /\ Stacked' /\ jobs' \in Seq(Jobs)
  BY <1>1, RunningAtTop, TakenBounded, PointNames, Sizes
  DEF ClearInput, RowLimit, ColLimit
<1>3. line' \in Seq(Chars) /\ Len(line') <= MaxLine
  BY LineAssumption DEF ClearInput
<1>4. Typical'
  BY <1>3 DEF ClearInput, IInv, Typical
<1> QED BY <1>2, <1>4 DEF IInv

\* The cursor moves.
LEMMA MoveIInv == ASSUME IInv, Advance \/ Wrap \/ RowUp \/ Home PROVE IInv'
<1>1. CASE Advance
  <2>1. At("advance") /\ Goto("wrap")
    BY <1>1 DEF Advance
  <2>2. Bounded' /\ Stacked' /\ jobs' \in Seq(Jobs)
    BY <1>1, <2>1, RunningAtTop, GotoBounded, PointNames, Sizes
    DEF Advance, RowLimit, ColLimit
  <2> QED BY <1>1, <2>2 DEF Advance, notCursor, IInv, Typical
<1>2. CASE Wrap
  <2>1. CASE cursor_col >= VgaWidth
    <3>1. At("wrap") /\ Goto("rowUp")
      BY <1>2, <2>1 DEF Wrap
    <3>2. Bounded' /\ Stacked' /\ jobs' \in Seq(Jobs)
      BY <1>2, <3>1, RunningAtTop, GotoBounded, PointNames, Sizes
      DEF Wrap, RowLimit, ColLimit
    <3> QED BY <1>2, <3>2 DEF Wrap, notCursor, IInv, Typical
  <2>2. CASE ~(cursor_col >= VgaWidth)
    <3>1. At("wrap") /\ Goto("print")
      BY <1>2, <2>2 DEF Wrap
    <3>2. Bounded' /\ Stacked' /\ jobs' \in Seq(Jobs)
      BY <1>2, <2>2, <3>1, RunningAtTop, GotoBounded, PointNames, Sizes
      DEF Wrap, RowLimit, ColLimit
    <3> QED BY <1>2, <3>2 DEF Wrap, notCursor, IInv, Typical
  <2> QED BY <2>1, <2>2
<1>3. CASE RowUp
  <2>1. At("rowUp") /\ Goto("home")
    BY <1>3 DEF RowUp
  <2>2. Bounded' /\ Stacked' /\ jobs' \in Seq(Jobs)
    BY <1>3, <2>1, RunningAtTop, GotoBounded, PointNames, Sizes
    DEF RowUp, RowLimit, ColLimit
  <2> QED BY <1>3, <2>2 DEF RowUp, notCursor, IInv, Typical
<1>4. CASE Home
  <2>1. At("home") /\ Goto("scroll")
    BY <1>4 DEF Home
  <2>2. Bounded' /\ Stacked' /\ jobs' \in Seq(Jobs)
    BY <1>4, <2>1, RunningAtTop, GotoBounded, PointNames, Sizes
    DEF Home, RowLimit, ColLimit
  <2> QED BY <1>4, <2>2 DEF Home, notCursor, IInv, Typical
<1> QED BY <1>1, <1>2, <1>3, <1>4

\* A screen that scrolls brings it back from the row below it.
LEMMA ScrollIInv == ASSUME IInv, Scroll \/ LastRow PROVE IInv'
<1>1. CASE Scroll /\ cursor_row >= VgaHeight
  <2>1. At("scroll") /\ Goto("lastRow")
    BY <1>1 DEF Scroll
  <2>2. Bounded' /\ Stacked' /\ jobs' \in Seq(Jobs)
    BY <1>1, <2>1, RunningAtTop, GotoBounded, PointNames, Sizes
    DEF Scroll, RowLimit, ColLimit
  <2>3. echo_at' \in Nat \cup {Nowhere}
    BY <1>1, Sizes DEF Scroll, IInv, Typical, Nowhere
  <2> QED BY <1>1, <2>2, <2>3, ScreenTypes DEF Scroll, IInv, Typical
<1>2. CASE Scroll /\ ~(cursor_row >= VgaHeight)
  <2>1. At("scroll") /\ Goto("print")
    BY <1>2 DEF Scroll
  <2>2. Bounded' /\ Stacked' /\ jobs' \in Seq(Jobs)
    BY <1>2, <2>1, RunningAtTop, GotoBounded, PointNames, Sizes
    DEF Scroll, RowLimit, ColLimit
  <2> QED BY <1>2, <2>2 DEF Scroll, IInv, Typical
<1>3. CASE LastRow
  <2>1. At("lastRow") /\ Goto("print")
    BY <1>3 DEF LastRow
  <2>2. Bounded' /\ Stacked' /\ jobs' \in Seq(Jobs)
    BY <1>3, <2>1, RunningAtTop, GotoBounded, PointNames, Sizes
    DEF LastRow, RowLimit, ColLimit
  <2> QED BY <1>3, <2>2 DEF LastRow, notCursor, IInv, Typical
<1> QED BY <1>1, <1>2, <1>3

-----------------------------------------------------------------------------
(* A job ends.                                                             *)

\* The limits that the lower jobs give do not change when one comes or goes.
LEMMA LowerMax ==
  ASSUME NEW n \in {0, 1, 2}, \A i \in 1 .. n : jobs'[i] = jobs[i]
  PROVE  RowMax(n)' = RowMax(n) /\ ColMax(n)' = ColMax(n)
<1>1. \A i \in 1 .. n : jobs'[i].pc = jobs[i].pc
  OBVIOUS
<1> QED BY <1>1, MaxKept

\* The display puts back the row that it saved.
LEMMA RestoreRowIInv == ASSUME IInv, RestoreRow PROVE IInv'
<1> DEFINE j == [Top EXCEPT !.pc = "restore"]
<1>1. At("print") /\ Top.kind = "display" /\ Goto("restore")
  BY DEF RestoreRow
<1>2. /\ jobs # <<>> /\ Top.pc = "print" /\ Top \in Jobs
      /\ cursor_col \in Cols
  BY <1>1, RunningAtTop DEF ColLimit, Cols
<1>3. j \in Jobs /\ Replaced(j)
  BY <1>1, <1>2, GotoReplaces, PointNames DEF IInv
<1>4. j.pc = "restore" /\ j.kind = Top.kind /\ j.saved = Top.saved
  BY <1>2 DEF Jobs
<1> HIDE DEF j
<1>5. cursor_row' = Top.saved[1] /\ cursor_col' \in Cols
  BY <1>2 DEF RestoreRow
<1>6. jobs \in Seq(Jobs) /\ Stacked /\ Bounded
  BY DEF IInv
<1>7. Bounded' /\ Stacked' /\ jobs' \in Seq(Jobs)
  BY <1>1, <1>3, <1>4, <1>5, <1>6, StepBounded
<1> QED BY <1>7 DEF RestoreRow, notCursor, IInv, Typical

\* A job that ends leaves the cursor where the one it was inside may find it.
LEMMA FinishedBounded ==
  ASSUME IInv, jobs # <<>>, Finished,
         NEW n, n = Len(jobs) - 1,
         \/ /\ ~Borrowed
            /\ cursor_row' \in 0 .. RowMax(n) /\ cursor_col' \in 0 .. ColMax(n)
         \/ /\ Borrowed
            /\ cursor_row' = Top.saved[1] /\ cursor_col' = Top.saved[2]
  PROVE  Bounded' /\ Stacked' /\ jobs' \in Seq(Jobs)
<1>1. jobs \in Seq(Jobs) /\ Stacked /\ Bounded
  BY DEF IInv
<1>2. /\ jobs' \in Seq(Jobs) /\ Len(jobs') = n /\ Stacked'
      /\ \A i \in 1 .. n : jobs'[i] = jobs[i]
      /\ n \in {0, 1, 2}
  <2>1. /\ jobs' \in Seq(Jobs) /\ Len(jobs') = Len(jobs) - 1 /\ Stacked'
        /\ \A i \in 1 .. Len(jobs) - 1 : jobs'[i] = jobs[i]
        /\ Len(jobs) \in Nat /\ Len(jobs) > 0 /\ Len(jobs) <= 3
    BY <1>1, FinishedJobs
  <2>2. n \in {0, 1, 2}
    <3> DEFINE m == Len(jobs)
    <3>1. m \in Nat /\ m > 0 /\ m <= 3 /\ n = m - 1
      BY <2>1
    <3> HIDE DEF m
    <3> QED BY <3>1
  <2> QED BY <2>1, <2>2
<1>3. RowMax(n)' = RowMax(n) /\ ColMax(n)' = ColMax(n)
  BY <1>2, LowerMax
<1>4. ~Borrowed'
  <2>1. ASSUME n = 2, jobs[2].kind = "display" PROVE FALSE
    <3>1. Len(jobs) = 3
      BY <2>1, JobCount, <1>1
    <3> QED BY <1>1, <2>1, <3>1 DEF Stacked
  <2>2. ASSUME Borrowed' PROVE FALSE
    <3>1. n = 2 /\ jobs'[2].kind = "display"
      BY <1>2, <2>2 DEF Borrowed, Top
    <3>2. jobs'[2] = jobs[2]
      BY <1>2, <3>1
    <3> QED BY <2>1, <3>1, <3>2
  <2> QED BY <2>2
<1>5. cursor_row' \in 0 .. RowMax(n) /\ cursor_col' \in 0 .. ColMax(n)
  BY <1>1 DEF Bounded, AtBorrowed
<1>6. AtOwn'
  BY <1>2, <1>3, <1>5 DEF AtOwn
<1>7. ASSUME jobs' # <<>>, jobs'[1].kind = "display"
      PROVE  jobs'[1].saved \in Rows \X Cols
  <2>1. n \in {1, 2}
    BY <1>2, <1>7, EmptySeq
  <2>2. jobs'[1] = jobs[1]
    BY <1>2, <2>1
  <2> QED BY <1>1, <1>7, <2>2 DEF Bounded
<1> QED BY <1>2, <1>4, <1>6, <1>7 DEF Bounded

\* Then the column: the job below goes on as if nothing had been.
LEMMA RestoreColIInv == ASSUME IInv, RestoreCol PROVE IInv'
<1>1. jobs # <<>> /\ Top.pc = "restore" /\ Finished /\ cursor_col' = Top.saved[2] /\ cursor_row' = cursor_row
  BY DEF RestoreCol, At
<1>2. jobs \in Seq(Jobs) /\ Stacked /\ Bounded
  BY DEF IInv
<1>3. Bounded' /\ Stacked' /\ jobs' \in Seq(Jobs)
  <2>1. CASE Borrowed
    <3>1. cursor_row = Top.saved[1]
      BY <1>1, <1>2, <2>1 DEF Bounded, AtBorrowed
    <3> QED BY <1>1, <2>1, <3>1, FinishedBounded
  <2>2. CASE ~Borrowed
    <3>1. Len(jobs) = 1
      <4>1. Len(jobs) \in {0, 1, 2}
        BY <1>2, <2>2, OwnIsShort
      <4>2. Len(jobs) # 0
        BY <1>1, <1>2, EmptySeq
      <4>3. ASSUME Len(jobs) = 2 PROVE FALSE
        <5>1. Top.kind = "display"
          BY <1>1, <1>2, <4>3 DEF Stacked, Top
        <5> QED BY <2>2, <4>3, <5>1 DEF Borrowed
      <4> QED BY <4>1, <4>2, <4>3
    <3>2. Top = jobs[1] /\ jobs[1].kind = "display"
      BY <1>1, <1>2, <3>1 DEF Stacked, Top
    <3>3. Top.saved \in Rows \X Cols
      BY <1>1, <1>2, <3>2 DEF Bounded
    <3>4. cursor_row \in 0 .. VgaHeight - 1
      BY <1>1, <1>2, <2>2, <3>1, <3>2 DEF Bounded, AtOwn, RowMax, RowLimit
    <3>5. cursor_row' \in 0 .. RowMax(0) /\ cursor_col' \in 0 .. ColMax(0)
      BY <1>1, <3>3, <3>4 DEF RowMax, ColMax, Cols
    <3> QED BY <1>1, <2>2, <3>1, <3>5, FinishedBounded
  <2> QED BY <2>1, <2>2
<1> QED BY <1>3 DEF RestoreCol, notCursor, IInv, Typical

\* A key or the welcome ends on the screen.
LEMMA FinishIInv == ASSUME IInv, Finish PROVE IInv'
<1>1. At("print") /\ Top.kind # "display" /\ Finished /\ UNCHANGED <<cursor_row, cursor_col>>
  BY DEF Finish
<1>2. jobs \in Seq(Jobs) /\ Stacked /\ Bounded
  BY DEF IInv
<1>3. /\ jobs # <<>>
      /\ cursor_row \in 0 .. RowFloor
      /\ cursor_col \in 0 .. VgaWidth - 1
  BY <1>1, RunningAtTop DEF RowLimit, ColLimit
<1>4. ~Borrowed
  BY <1>1 DEF Borrowed
<1>5. Len(jobs) - 1 \in {0, 1}
  <2>1. Len(jobs) \in {0, 1, 2} /\ Len(jobs) # 0
    BY <1>2, <1>3, <1>4, OwnIsShort, EmptySeq
  <2> QED BY <2>1
<1>6. /\ cursor_row' \in 0 .. RowMax(Len(jobs) - 1)
      /\ cursor_col' \in 0 .. ColMax(Len(jobs) - 1)
  <2> DEFINE n == Len(jobs) - 1
  <2>1. n \in {0, 1} /\ RowFloor = RowMax(n)
    BY <1>4, <1>5 DEF RowFloor
  <2> HIDE DEF n
  <2>2. /\ RowMax(n) \in Int /\ ColMax(n) \in Int /\ ColMax(n) >= VgaWidth - 1
    BY <2>1, MaxTypes
  <2>3. cursor_row' \in 0 .. RowMax(n) /\ cursor_col' \in 0 .. ColMax(n)
    BY <1>1, <1>3, <2>1, <2>2, Sizes
  <2> QED BY <2>3 DEF n
<1>7. Bounded' /\ Stacked' /\ jobs' \in Seq(Jobs)
  BY <1>1, <1>3, <1>4, <1>6, FinishedBounded
<1>8. Position(cursor_row, cursor_col) \in Nat
  <2>1. cursor_row \in Nat /\ cursor_col \in Nat /\ VgaWidth \in Nat
    BY BoundedCursor, Sizes DEF IInv
  <2> QED BY <2>1 DEF Position
<1>9. Typical'
  BY <1>8 DEF Finish, IInv, Typical
<1> QED BY <1>7, <1>9 DEF IInv

-----------------------------------------------------------------------------
(* A key comes.                                                            *)

\* A key finds the cursor where the job that it comes inside may find it.
LEMMA KeyAtOwn ==
  ASSUME IInv, MayHandleKey
  PROVE  ~Borrowed /\ AtOwn /\ Len(jobs) \in {0, 1}
<1>1. jobs \in Seq(Jobs) /\ Stacked /\ Bounded
  BY DEF IInv
<1>2. /\ \A i \in 1 .. Len(jobs) : jobs[i].kind # "key"
      /\ \A i \in 1 .. Len(jobs) : jobs[i].kind = "display" => i = 1
  BY <1>1 DEF MayHandleKey, Running
<1>3. ~Borrowed
  <2>1. ASSUME Borrowed PROVE FALSE
    <3>1. Len(jobs) > 1 /\ Len(jobs) \in 1 .. Len(jobs) /\ jobs[Len(jobs)].kind = "display"
      BY <1>1, <2>1 DEF Borrowed, Top
    <3> QED BY <1>2, <3>1
  <2> QED BY <2>1
<1>4. Len(jobs) # 2
  <2>1. ASSUME Len(jobs) = 2 PROVE FALSE
    <3>1. jobs[1] \in Jobs /\ jobs[2] \in Jobs
      BY <1>1, <2>1
    <3>2. jobs[2].kind \in {"key", "shell", "display"}
      BY <3>1 DEF Jobs
    <3>3. jobs[2].kind # "key" /\ jobs[2].kind # "display"
      BY <1>2, <2>1
    <3>4. jobs[2].kind # "shell"
      BY <1>1, <2>1 DEF Stacked
    <3> QED BY <3>2, <3>3, <3>4
  <2> QED BY <2>1
<1>5. Len(jobs) \in {0, 1, 2}
  BY <1>1, <1>3, OwnIsShort
<1> QED BY <1>1, <1>3, <1>4, <1>5 DEF Bounded

\* Its job begins within the limits.
LEMMA KeyJobBounded ==
  ASSUME IInv, MayHandleKey, NEW pc \in {"advance", "rowUp"}, NEW todo \in Seq(Items),
         KeyJob(pc, todo), UNCHANGED <<cursor_row, cursor_col>>
  PROVE  Bounded' /\ Stacked' /\ jobs' \in Seq(Jobs)
<1>1. jobs \in Seq(Jobs) /\ Stacked /\ Bounded
  BY DEF IInv
<1>2. ~Borrowed /\ AtOwn /\ Len(jobs) \in {0, 1}
  BY KeyAtOwn
<1>0. PICK n \in {0, 1} : n = Len(jobs)
  BY <1>2
<1>3. /\ jobs' \in Seq(Jobs) /\ Len(jobs') = n + 1 /\ Stacked'
      /\ \A i \in 1 .. n : jobs'[i] = jobs[i]
      /\ Top' = [kind |-> "key", pc |-> pc, todo |-> todo, saved |-> <<0, 0>>]
  <2>1. /\ pc \in Points /\ pc # "restore" /\ <<0, 0>> \in Nat \X Nat
        /\ "key" \in {"key", "shell", "display"} /\ "key" # "shell"
    BY DEF Points
  <2>2. /\ ~Running("key")
        /\ \A i \in 1 .. Len(jobs) : jobs[i].kind = "display" => i = 1
        /\ Started("key", pc, todo, <<0, 0>>)
    BY <1>1 DEF MayHandleKey, KeyJob
  <2> QED BY <1>0, <1>1, <2>1, <2>2, StartedJobs
<1>4. Top'.kind = "key" /\ Top'.pc = pc
  BY <1>3
<1>5. ~Borrowed'
  BY <1>4 DEF Borrowed
<1>6. jobs'[n + 1].pc = pc /\ jobs'[n + 1].kind = "key"
  BY <1>0, <1>3, <1>4 DEF Top
<1>7. (jobs' # <<>> /\ jobs'[1].kind = "display") => jobs'[1].saved \in Rows \X Cols
  <2>1. CASE n = 0
    BY <1>6, <2>1
  <2>2. CASE n = 1
    <3>1. jobs'[1] = jobs[1]
      BY <1>3, <2>2
    <3>2. jobs # <<>>
      <4>1. Len(jobs) # 0
        BY <1>0, <2>2
      <4> QED BY <1>1, <4>1, EmptySeq
    <3> QED BY <1>1, <3>1, <3>2 DEF Bounded
  <2> QED BY <2>1, <2>2
<1>8. n \in {0, 1} /\ cursor_row \in 0 .. RowMax(n) /\ cursor_col \in 0 .. ColMax(n)
  BY <1>0, <1>2 DEF AtOwn
<1>9. /\ RowMax(n + 1)' = RowLimit(pc, RowMax(n)) /\ ColMax(n + 1)' = ColLimit(pc, ColMax(n))
  <2>1. CASE n = 0
    BY <1>6, <2>1 DEF RowMax, ColMax
  <2>2. CASE n = 1
    <3>1. jobs'[1] = jobs[1] /\ jobs'[2].pc = pc
      BY <1>3, <1>6, <2>2
    <3> QED BY <1>6, <2>2, <3>1 DEF RowMax, ColMax, RowLimit, ColLimit
  <2> QED BY <2>1, <2>2
<1>10. Len(jobs') = n + 1
  BY <1>3
<1>11. RowMax(n) \in Int /\ ColMax(n) \in Int
  BY <1>8, MaxTypes
<1>12. cursor_row' \in 0 .. RowMax(n + 1)' /\ cursor_col' \in 0 .. ColMax(n + 1)'
  BY <1>8, <1>9, <1>11 DEF RowLimit, ColLimit
<1>13. AtOwn'
  BY <1>10, <1>12 DEF AtOwn
<1> QED BY <1>3, <1>5, <1>7, <1>13 DEF Bounded

\* The four kinds of keys.
LEMMA TypeCharIInv == ASSUME IInv, NEW c \in Typed, TypeChar(c) PROVE IInv'
<1>1. c \in Chars /\ c \in Glyphs
  BY ConsoleAssumption DEF Glyphs
<1>2. line' \in Seq(Chars) /\ Len(line') <= MaxLine
  BY <1>1, LineTypes DEF TypeChar, IInv, Typical
<1>3. <<>> \in Seq(Items)
  BY EmptySeq
<1>4. Bounded' /\ Stacked' /\ jobs' \in Seq(Jobs)
  BY <1>3, KeyJobBounded DEF TypeChar
<1>5. Typical'
  BY <1>1, <1>2, ScreenTypes DEF TypeChar, InPlace, IInv, Typical
<1> QED BY <1>4, <1>5 DEF IInv

LEMMA TypeTabIInv == ASSUME IInv, TypeTab PROVE IInv'
<1>1. Space \in Glyphs
  BY LineAssumption DEF Glyphs
<1>2. TabStop - (cursor_col % TabStop) \in Nat
  <2>1. cursor_col \in Nat
    BY BoundedCursor, Sizes DEF IInv
  <2> QED BY <2>1, Sizes
<1>3. line' \in Seq(Chars) /\ Len(line') <= MaxLine
  BY <1>2, LineTypes DEF TypeTab, IInv, Typical
<1>4. SubSeq(line', Len(line) + 2, Len(line')) \in Seq(Items)
  <2>1. \A i \in 1 .. Len(line') : line'[i] \in Items
    BY <1>3 DEF Items, Glyphs
  <2>2. Len(line) + 2 \in Int /\ Len(line') \in Int /\ Len(line) + 2 >= 1
    BY <1>3 DEF IInv, Typical
  <2>3. \A i \in Len(line) + 2 .. Len(line') : line'[i] \in Items
    BY <2>1, <2>2
  <2> QED BY <2>2, <2>3, SubSeqProperties
<1>5. Bounded' /\ Stacked' /\ jobs' \in Seq(Jobs)
  BY <1>4, KeyJobBounded DEF TypeTab
<1>6. Typical'
  BY <1>1, <1>3, ScreenTypes DEF TypeTab, InPlace, IInv, Typical
<1> QED BY <1>5, <1>6 DEF IInv

LEMMA BackspaceIInv == ASSUME IInv, Backspace PROVE IInv'
<1>1. ~Borrowed /\ AtOwn /\ Len(jobs) \in {0, 1}
  BY KeyAtOwn DEF Backspace
<1>2. PICK n \in {0, 1} : n = Len(jobs)
  BY <1>1
<1>3. /\ RowMax(n) \in Int /\ ColMax(n) \in Int
      /\ RowMax(n) >= VgaHeight - 1 /\ ColMax(n) >= VgaWidth - 1
      /\ cursor_row \in 0 .. RowMax(n) /\ cursor_col \in 0 .. ColMax(n)
  BY <1>1, <1>2, MaxTypes DEF AtOwn
<1>4. Before[1] \in 0 .. RowMax(n) /\ Before[2] \in 0 .. ColMax(n)
  <2>1. CASE cursor_col > 0
    BY <1>3, <2>1 DEF Before
  <2>2. CASE cursor_col = 0 /\ cursor_row > 0
    BY <1>3, <2>2, Sizes DEF Before
  <2>3. CASE cursor_col = 0 /\ cursor_row = 0
    BY <1>3, <2>3 DEF Before
  <2> QED BY <1>3, <2>1, <2>2, <2>3
<1>5. jobs' = jobs /\ cursor_row' = Before[1] /\ cursor_col' = Before[2]
  BY DEF Backspace
<1>6. RowMax(n)' = RowMax(n) /\ ColMax(n)' = ColMax(n)
  BY <1>2, <1>5, LowerMax
<1>7. ~Borrowed' /\ AtOwn'
  BY <1>1, <1>2, <1>4, <1>5, <1>6 DEF Borrowed, Top, AtOwn
<1>8. Bounded' /\ Stacked' /\ jobs' \in Seq(Jobs)
  BY <1>5, <1>7 DEF IInv, Bounded, Stacked
<1>9. Space \in Glyphs
  BY LineAssumption DEF Glyphs
<1>10. line' \in Seq(Chars) /\ Len(line') <= MaxLine
  BY LineTypes DEF Backspace, IInv, Typical
<1>11. Typical'
  BY <1>9, <1>10, ScreenTypes DEF Backspace, InPlace, IInv, Typical
<1> QED BY <1>8, <1>11 DEF IInv

LEMMA EnterIInv == ASSUME IInv, Enter PROVE IInv'
<1>1. "newline" \in Glyphs /\ Text \in Glyphs /\ "reset" \in Items
  BY DEF Glyphs, Items
<1>2. Prompt \in Seq(Items)
  BY <1>1 DEF Prompt, Items
<1>3. PICK output \in (IF ParseCommand(line) = <<>> THEN {<<>>}
                       ELSE {o \o <<"reset">> : o \in Outputs}) :
        KeyJob("rowUp", output \o Prompt)
  BY DEF Enter
<1>4. output \in Seq(Items)
  <2>1. CASE output = <<>>
    BY <2>1, EmptySeq
  <2>2. ASSUME NEW o \in Outputs PROVE o \o <<"reset">> \in Seq(Items)
    <3>1. o \in Seq({Text, "newline", "clear"})
      BY ConsoleAssumption
    <3>2. {Text, "newline", "clear"} \subseteq Items
      BY <1>1 DEF Items
    <3>3. o \in Seq(Items) /\ <<"reset">> \in Seq(Items)
      BY <1>1, <3>1, <3>2
    <3> QED BY <3>3
  <2> QED BY <2>1, <2>2
<1>5. output \o Prompt \in Seq(Items)
  BY <1>2, <1>4
<1>6. MayHandleKey /\ UNCHANGED <<cursor_row, cursor_col>>
  BY DEF Enter
<1>7. Bounded' /\ Stacked' /\ jobs' \in Seq(Jobs)
  BY <1>3, <1>5, <1>6, KeyJobBounded
<1>8. Typical'
  BY <1>1, ScreenTypes DEF Enter, IInv, Typical
<1> QED BY <1>7, <1>8 DEF IInv

-----------------------------------------------------------------------------
(* The two tasks, and what always holds.                                   *)

\* shell_task begins with a screen that it has cleared.
LEMMA ShellStartIInv == ASSUME IInv, ShellStart PROVE IInv'
<1>1. jobs \in Seq(Jobs) /\ Stacked /\ Len(jobs) = 0
  BY EmptySeq DEF IInv, ShellStart
<1>2. Welcome \in Seq(Items)
  <2>1. {Text, "newline"} \subseteq Items
    BY DEF Items, Glyphs
  <2>2. <<Text, "newline">> \in Seq(Items) /\ <<Text>> \in Seq(Items)
    BY <2>1
  <2> QED BY <2>2 DEF Welcome, Prompt
<1>3. /\ jobs' \in Seq(Jobs) /\ Len(jobs') = Len(jobs) + 1 /\ Stacked'
      /\ Top' = [kind |-> "shell", pc |-> "print", todo |-> Welcome, saved |-> <<0, 0>>]
  <2>1. /\ "print" \in Points /\ "print" # "restore" /\ <<0, 0>> \in Nat \X Nat
        /\ "shell" \in {"key", "shell", "display"}
    BY DEF Points
  <2>2. /\ ~Running("shell") /\ jobs = <<>>
        /\ \A i \in 1 .. Len(jobs) : jobs[i].kind = "display" => i = 1
        /\ Started("shell", "print", Welcome, <<0, 0>>)
    BY <1>1 DEF ShellStart, Running
  <2> QED BY <1>1, <1>2, <2>1, <2>2, StartedJobs
<1>4. Len(jobs') = 1 /\ jobs'[1].kind = "shell" /\ jobs'[1].pc = "print"
  BY <1>1, <1>3 DEF Top
<1>5. cursor_row' = 0 /\ cursor_col' = 0
  BY DEF ShellStart
<1>6. AtOwn'
  BY <1>4, <1>5, Sizes DEF AtOwn, RowMax, ColMax, RowLimit, ColLimit
<1>7. ~Borrowed'
  BY <1>4 DEF Borrowed
<1>8. Bounded'
  BY <1>4, <1>6, <1>7 DEF Bounded
<1>9. Typical'
  BY ScreenTypes DEF ShellStart, IInv, Typical
<1> QED BY <1>3, <1>8, <1>9 DEF IInv

\* The display saves a cursor that the jobs below it may find again.
LEMMA DisplayStartIInv == ASSUME IInv, DisplayStart PROVE IInv'
<1>1. jobs \in Seq(Jobs) /\ Stacked /\ Bounded
  BY DEF IInv
<1>2. cursor_row \in Nat /\ cursor_col \in Nat
  BY BoundedCursor, Sizes DEF IInv
<1>3. Head(Display) = Text /\ Tail(Display) = <<>>
  BY DEF Display
<1>4. /\ jobs' \in Seq(Jobs) /\ Len(jobs') = Len(jobs) + 1 /\ Stacked'
      /\ \A i \in 1 .. Len(jobs) : jobs'[i] = jobs[i]
      /\ Top' = [kind |-> "display", pc |-> "advance", todo |-> <<>>,
                 saved |-> <<cursor_row, cursor_col>>]
  <2>1. /\ "advance" \in Points /\ "advance" # "restore"
        /\ <<cursor_row, cursor_col>> \in Nat \X Nat
        /\ "display" \in {"key", "shell", "display"} /\ <<>> \in Seq(Items)
        /\ "display" # "shell"
    BY <1>2, EmptySeq DEF Points
  <2>2. ~Running("display")
    BY DEF DisplayStart
  <2>3. \A i \in 1 .. Len(jobs) : jobs[i].kind = "display" => i = 1
    BY <1>1, <2>2 DEF Running
  <2>4. Started("display", "advance", <<>>, <<cursor_row, cursor_col>>)
    BY <1>3 DEF DisplayStart
  <2> QED BY <1>1, <2>1, <2>2, <2>3, <2>4, StartedJobs
<1>5. ~Borrowed
  <2>1. ASSUME Borrowed PROVE FALSE
    <3>1. Len(jobs) > 1 /\ Len(jobs) \in 1 .. Len(jobs) /\ jobs[Len(jobs)].kind = "display"
      BY <1>1, <2>1 DEF Borrowed, Top
    <3>2. ~Running("display")
      BY DEF DisplayStart
    <3> QED BY <1>1, <3>1, <3>2 DEF Running
  <2> QED BY <2>1
<1>6. PICK n \in {0, 1, 2} : n = Len(jobs)
  BY <1>1, <1>5, OwnIsShort
<1>7. cursor_row \in 0 .. RowMax(n) /\ cursor_col \in 0 .. ColMax(n)
  BY <1>1, <1>5, <1>6 DEF Bounded, AtOwn
<1>8. cursor_row' = 0 /\ cursor_col' = DisplayCol
  BY DEF DisplayStart
<1>9. /\ Top'.kind = "display" /\ Top'.pc = "advance"
      /\ Top'.saved = <<cursor_row, cursor_col>>
  BY <1>4
<1>10. Bounded'
  <2>1. CASE n = 0
    <3>1. Len(jobs') = 1 /\ jobs'[1] = Top'
      BY <1>4, <1>6, <2>1 DEF Top
    <3>2. ~Borrowed'
      BY <3>1 DEF Borrowed
    <3>3. AtOwn'
      BY <1>8, <1>9, <3>1, Sizes DEF AtOwn, RowMax, ColMax, RowLimit, ColLimit
    <3>4. jobs'[1].saved \in Rows \X Cols
      BY <1>7, <1>9, <2>1, <3>1 DEF RowMax, ColMax, Rows, Cols
    <3> QED BY <3>2, <3>3, <3>4 DEF Bounded
  <2>2. CASE n # 0
    <3>1. Len(jobs') = n + 1 /\ Len(jobs') > 1
      BY <1>4, <1>6, <2>2
    <3>2. Borrowed'
      BY <1>9, <3>1 DEF Borrowed
    <3>3. RowMax(n)' = RowMax(n) /\ ColMax(n)' = ColMax(n)
      BY <1>4, <1>6, LowerMax
    <3>4. Len(jobs') - 1 = n
      BY <3>1
    <3>5. AtBorrowed'
      BY <1>7, <1>8, <1>9, <3>3, <3>4, Sizes DEF AtBorrowed, RowLimit, ColLimit
    <3>6. (jobs' # <<>> /\ jobs'[1].kind = "display") => jobs'[1].saved \in Rows \X Cols
      <4>1. jobs'[1] = jobs[1]
        BY <1>4, <1>6, <2>2
      <4>2. jobs # <<>>
        BY <1>1, <1>6, <2>2, EmptySeq
      <4> QED BY <1>1, <4>1, <4>2 DEF Bounded
    <3> QED BY <3>2, <3>5, <3>6 DEF Bounded
  <2> QED BY <2>1, <2>2
<1>11. Text \in Glyphs
  BY DEF Glyphs
<1>12. Typical'
  BY <1>3, <1>11, ScreenTypes DEF DisplayStart, IInv, Typical
<1> QED BY <1>4, <1>10, <1>12 DEF IInv

\* The boot.
LEMMA InitIInv == Init => IInv
<1> SUFFICES ASSUME Init PROVE IInv OBVIOUS
<1>1. jobs = <<>> /\ jobs \in Seq(Jobs) /\ Len(jobs) = 0
  BY EmptySeq DEF Init
<1>2. Stacked
  BY <1>1 DEF Stacked
<1>3. ~Borrowed
  BY <1>1 DEF Borrowed
<1>4. AtOwn
  BY <1>1, Sizes DEF Init, AtOwn, RowMax, ColMax, Rows
<1>5. Bounded
  BY <1>1, <1>3, <1>4 DEF Bounded
<1>6. Blank \in [Rows -> [Cols -> Glyphs]]
  BY LineAssumption DEF Blank, Glyphs
<1>7. line \in Seq(Chars) /\ Len(line) <= MaxLine
  BY LineAssumption, EmptySeq DEF Init
<1>8. Typical
  BY <1>6, <1>7 DEF Init, Typical
<1> QED BY <1>1, <1>2, <1>5, <1>8 DEF IInv

\* Every step keeps the invariant.
LEMMA NextIInv == IInv /\ [Next]_vars => IInv'
<1> SUFFICES ASSUME IInv, [Next]_vars PROVE IInv' OBVIOUS
<1>1. CASE PrintChar \/ PrintNewline \/ ClearScreen \/ ClearInput
  BY <1>1, PrintCharIInv, PrintNewlineIInv, ClearScreenIInv, ClearInputIInv
<1>2. CASE Advance \/ Wrap \/ RowUp \/ Home \/ Scroll \/ LastRow
  BY <1>2, MoveIInv, ScrollIInv
<1>3. CASE RestoreRow \/ RestoreCol \/ Finish
  BY <1>3, RestoreRowIInv, RestoreColIInv, FinishIInv
<1>4. CASE Key
  BY <1>4, TypeCharIInv, TypeTabIInv, BackspaceIInv, EnterIInv DEF Key
<1>5. CASE ShellStart \/ DisplayStart
  BY <1>5, ShellStartIInv, DisplayStartIInv
<1>6. CASE UNCHANGED vars
  BY <1>6 DEF vars, IInv, Typical, Stacked, Bounded, Borrowed, AtOwn, AtBorrowed, Top,
              RowMax, ColMax, RowLimit, ColLimit
<1> QED BY <1>1, <1>2, <1>3, <1>4, <1>5, <1>6 DEF Next, Printing

\* The inductive invariant always holds.
LEMMA Invariance == Spec => []IInv
BY InitIInv, NextIInv, PTL DEF Spec

\* Every variable keeps its type, whatever the size of the screen: the cursor
\* is never more than two positions off it, and no more than three jobs are
\* inside each other.
THEOREM TypeCorrect == Spec => []TypeOK
BY IInvTypes, Invariance, PTL

\* Whoever prints finds the cursor on the screen, also after the display has
\* borrowed it in the middle of a line feed; only a key in the middle of the
\* welcome or of the display may not.
THEOREM CursorCorrect == Spec => []CursorOnScreen
<1>1. IInv => CursorOnScreen
  <2> SUFFICES ASSUME IInv, jobs # <<>> => Top.pc = "print",
                      ~(Len(jobs) > 1 /\ Running("key") /\ jobs[1].kind # "key")
               PROVE  cursor_row \in Rows /\ cursor_col \in Cols
    BY DEF CursorOnScreen
  <2>1. jobs \in Seq(Jobs) /\ Stacked /\ Bounded
    BY DEF IInv
  <2>2. CASE jobs = <<>>
    <3>1. Len(jobs) = 0 /\ ~Borrowed
      BY <2>2 DEF Borrowed
    <3> QED BY <2>1, <2>2, <3>1 DEF Bounded, AtOwn, RowMax, ColMax, Rows, Cols
  <2>3. CASE jobs # <<>>
    <3>1. At("print")
      BY <2>3 DEF At
    <3>2. cursor_row \in 0 .. RowFloor /\ cursor_col \in 0 .. VgaWidth - 1
      BY <3>1, RunningAtTop DEF RowLimit, ColLimit
    <3>3. RowFloor = VgaHeight - 1
      <4>1. CASE Borrowed
        BY <4>1 DEF RowFloor
      <4>2. CASE Len(jobs) = 1
        BY <2>1, <2>3, <4>2, Floors
      <4>3. ASSUME ~Borrowed, Len(jobs) = 2 PROVE FALSE
        <5>1. jobs[1] \in Jobs /\ jobs[2] \in Jobs
          BY <2>1, <4>3
        <5>2. jobs[2].kind = "key"
          BY <2>1, <4>3, <5>1 DEF Jobs, Stacked, Borrowed, Top
        <5>3. jobs[1].kind # "key"
          BY <2>1, <4>3, <5>2 DEF Stacked
        <5>4. Running("key")
          BY <4>3, <2>1, <5>2 DEF Running
        <5> QED BY <4>3, <5>3, <5>4
      <4>4. ~Borrowed => Len(jobs) \in {1, 2}
        BY <2>1, <2>3, OwnIsShort, EmptySeq
      <4> QED BY <4>1, <4>2, <4>3, <4>4
    <3> QED BY <3>2, <3>3 DEF Rows, Cols
  <2> QED BY <2>2, <2>3
<1> QED BY <1>1, Invariance, PTL

-----------------------------------------------------------------------------
(* Positions on the screen.                                                *)

\* A column further, a row further.
LEMMA PositionTypes ==
  ASSUME NEW r \in Int, NEW c \in Int
  PROVE  /\ Position(r, c) \in Int
         /\ Position(r, c + 1) = Position(r, c) + 1
         /\ Position(r, c) = Position(r, 0) + c
         /\ Position(r + 1, c) = Position(r, c) + VgaWidth
         /\ Position(0, c) = c
BY Sizes DEF Position

\* Rows are in order.
LEMMA PositionGrows ==
  ASSUME NEW r \in Int, NEW s \in Int, r <= s
  PROVE  Position(r, 0) <= Position(s, 0)
<1> DEFINE d == s - r
<1>1. d \in Nat /\ s = r + d /\ VgaWidth \in Nat
  BY Sizes
<1> HIDE DEF d
<1>2. d * VgaWidth \in Nat
  BY <1>1
<1>3. s * VgaWidth = r * VgaWidth + d * VgaWidth
  BY <1>1
<1>4. r * VgaWidth \in Int /\ s * VgaWidth \in Int
  BY <1>1
<1> QED BY <1>2, <1>3, <1>4 DEF Position

\* Positions are in the order of rows, then columns.
LEMMA PositionOrder ==
  ASSUME NEW r \in Int, NEW s \in Int, NEW c \in Cols, NEW d \in Cols
  PROVE  /\ r < s => Position(r, c) < Position(s, d)
         /\ Position(r, c) = Position(s, d) => r = s /\ c = d
<1>1. ASSUME NEW a \in Int, NEW b \in Int, a < b, NEW e \in Cols, NEW f \in Cols
      PROVE  Position(a, e) < Position(b, f)
  <2>1. Position(a + 1, 0) <= Position(b, 0)
    BY <1>1, PositionGrows
  <2>2. e \in Int /\ f \in Int /\ 0 \in Int /\ a + 1 \in Int
    BY DEF Cols
  <2>3. Position(a + 1, 0) = Position(a, 0) + VgaWidth /\ Position(a, 0) \in Int
    BY <2>2, PositionTypes
  <2>4. Position(a, e) = Position(a, 0) + e
    BY <2>2, PositionTypes
  <2>5. Position(b, f) = Position(b, 0) + f /\ Position(b, 0) \in Int
    BY <2>2, PositionTypes
  <2> QED BY <2>1, <2>3, <2>4, <2>5, Sizes DEF Cols
<1>2. Position(r, c) = Position(s, d) => r = s /\ c = d
  <2> SUFFICES ASSUME Position(r, c) = Position(s, d) PROVE r = s /\ c = d
    OBVIOUS
  <2>1. /\ Position(r, c) \in Int /\ Position(s, d) \in Int
        /\ Position(r, c) = Position(r, 0) + c /\ Position(s, d) = Position(s, 0) + d
        /\ Position(r, 0) \in Int /\ Position(s, 0) \in Int
    <3>1. c \in Int /\ d \in Int /\ 0 \in Int
      BY DEF Cols
    <3> QED BY <3>1, PositionTypes
  <2>2. ~(r < s) /\ ~(s < r)
    <3>1. r < s => Position(r, c) < Position(s, d)
      BY <1>1
    <3>2. s < r => Position(s, d) < Position(r, c)
      BY <1>1
    <3> QED BY <2>1, <3>1, <3>2
  <2>3. r = s
    BY <2>2
  <2>4. Position(r, 0) = Position(s, 0)
    BY <2>3
  <2>5. Position(r, 0) + c = Position(s, 0) + d
    BY <2>1
  <2>6. c = d
    BY <2>1, <2>4, <2>5 DEF Cols
  <2> QED BY <2>3, <2>6
<1> QED BY <1>1, <1>2

\* A position before the end of the screen has a row and a column.
LEMMA PositionFound ==
  ASSUME NEW k \in Nat, k < Position(VgaHeight, 0)
  PROVE  /\ k \div VgaWidth \in Rows /\ k % VgaWidth \in Cols
         /\ Position(k \div VgaWidth, k % VgaWidth) = k
<1> DEFINE r == k \div VgaWidth
           c == k % VgaWidth
<1>1. r \in Nat /\ c \in Cols /\ k = r * VgaWidth + c
  BY Sizes DEF Cols
<1> HIDE DEF r, c
<1>2. Position(r, c) = k
  BY <1>1 DEF Position
<1>3. r < VgaHeight
  <2>1. ASSUME VgaHeight <= r PROVE FALSE
    <3>1. Position(VgaHeight, 0) <= Position(r, 0)
      BY <1>1, <2>1, Sizes, PositionGrows
    <3>2. Position(r, c) = Position(r, 0) + c /\ Position(r, 0) \in Int /\ Position(VgaHeight, 0) \in Int
      <4>1. r \in Int /\ c \in Int /\ 0 \in Int /\ VgaHeight \in Int
        BY <1>1, Sizes DEF Cols
      <4> QED BY <4>1, PositionTypes
    <3> QED BY <1>1, <1>2, <3>1, <3>2 DEF Cols
  <2> QED BY <1>1, <2>1, Sizes
<1> QED BY <1>1, <1>2, <1>3, Sizes DEF Rows, r, c

-----------------------------------------------------------------------------
(* What the line's echo has come to while a key is printed.                *)

\* Where a key at pc has the cursor, if what follows goes to position k.
EchoPosition(pc, r, c, k) ==
  \/ pc = "print"   /\ r \in Rows /\ c \in Cols /\ Position(r, c) = k
  \/ pc = "advance" /\ r \in Rows /\ c \in Cols /\ Position(r, c) + 1 = k
  \/ pc = "wrap"    /\ r \in Rows /\ c \in 0 .. VgaWidth /\ Position(r, c) = k
  \/ pc = "rowUp"   /\ r \in Rows /\ c = VgaWidth /\ Position(r, c) = k
  \/ pc = "home"    /\ r \in 1 .. VgaHeight /\ Position(r, 0) = k
  \/ pc = "scroll"  /\ r \in 1 .. VgaHeight /\ c = 0 /\ Position(r, 0) = k
  \/ pc = "lastRow" /\ c = 0 /\ Position(VgaHeight - 1, 0) = k

\* The first n characters of the line are where its echo begins.
Shown(n) ==
  \A i \in 1 .. n, r \in Rows, c \in Cols :
    Position(r, c) = echo_at + i - 1 => screen[r][c] = line[i]

\* A key has only spaces left to print, the last ones of the line.
Pending(todo) ==
  /\ Len(todo) <= Len(line)
  /\ \A i \in 1 .. Len(todo) :
       todo[i] = Space /\ line[Len(line) - Len(todo) + i] = Space

Echoed(pc, todo, r, c) ==
  /\ Pending(todo) /\ Shown(Len(line) - Len(todo))
  /\ EchoPosition(pc, r, c, echo_at + Len(line) - Len(todo))

\* The display stays in the first row, or reaches the second.
Displaying(j) ==
  /\ j.kind = "display" /\ j.todo = <<>>
  /\ j.pc \in {"advance", "wrap", "rowUp"} => cursor_row = 0
  /\ j.pc \in {"home", "scroll"} => cursor_row = 1
  /\ j.pc = "restore" => cursor_row = j.saved[1]
  /\ j.pc # "lastRow"

Showing ==
  echo_at # Nowhere =>
    /\ echo_at < Position(VgaHeight, 0)
    /\ \/ /\ jobs = <<>>
          /\ Echoed("print", <<>>, cursor_row, cursor_col)
       \/ /\ Len(jobs) = 1 /\ jobs[1].kind = "key"
          /\ Echoed(jobs[1].pc, jobs[1].todo, cursor_row, cursor_col)
       \/ /\ Len(jobs) = 1 /\ Displaying(jobs[1])
          /\ Echoed("print", <<>>, jobs[1].saved[1], jobs[1].saved[2])
       \/ /\ Len(jobs) = 2 /\ jobs[1].kind = "key" /\ Displaying(jobs[2])
          /\ Echoed(jobs[1].pc, jobs[1].todo, jobs[2].saved[1], jobs[2].saved[2])

\* The statements of print_char, on the screen.
LEMMA EchoMoves ==
  ASSUME NEW r, NEW c, NEW k \in Int
  PROVE  /\ EchoPosition("advance", r, c, k) => EchoPosition("wrap", r, c + 1, k)
         /\ EchoPosition("wrap", r, c, k) /\ c >= VgaWidth => EchoPosition("rowUp", r, c, k)
         /\ EchoPosition("wrap", r, c, k) /\ ~(c >= VgaWidth) => EchoPosition("print", r, c, k)
         /\ EchoPosition("rowUp", r, c, k) => EchoPosition("home", r + 1, c, k)
         /\ EchoPosition("home", r, c, k) => EchoPosition("scroll", r, 0, k)
         /\ EchoPosition("scroll", r, c, k) /\ ~(r >= VgaHeight) => EchoPosition("print", r, c, k)
         /\ EchoPosition("scroll", r, c, k) /\ r >= VgaHeight =>
              EchoPosition("lastRow", r, c, k - VgaWidth)
         /\ EchoPosition("lastRow", r, c, k) => EchoPosition("print", VgaHeight - 1, c, k)
<1>1. ASSUME EchoPosition("advance", r, c, k) PROVE EchoPosition("wrap", r, c + 1, k)
  <2>1. r \in Rows /\ c \in Cols /\ Position(r, c) + 1 = k
    BY <1>1 DEF EchoPosition
  <2>2. r \in Int /\ c \in Int /\ c + 1 \in 0 .. VgaWidth
    BY <2>1, Sizes DEF Rows, Cols
  <2>3. Position(r, c + 1) = k
    BY <2>1, <2>2, PositionTypes
  <2> QED BY <2>1, <2>2, <2>3 DEF EchoPosition
<1>2. ASSUME EchoPosition("wrap", r, c, k), c >= VgaWidth PROVE EchoPosition("rowUp", r, c, k)
  <2>1. r \in Rows /\ c \in 0 .. VgaWidth /\ Position(r, c) = k
    BY <1>2 DEF EchoPosition
  <2>2. c = VgaWidth
    BY <1>2, <2>1, Sizes
  <2> QED BY <2>1, <2>2 DEF EchoPosition
<1>3. ASSUME EchoPosition("wrap", r, c, k), ~(c >= VgaWidth)
      PROVE  EchoPosition("print", r, c, k)
  <2>1. r \in Rows /\ c \in 0 .. VgaWidth /\ Position(r, c) = k
    BY <1>3 DEF EchoPosition
  <2>2. c \in Cols
    BY <1>3, <2>1, Sizes DEF Cols
  <2> QED BY <2>1, <2>2 DEF EchoPosition
<1>4. ASSUME EchoPosition("rowUp", r, c, k) PROVE EchoPosition("home", r + 1, c, k)
  <2>1. r \in Rows /\ c = VgaWidth /\ Position(r, c) = k
    BY <1>4 DEF EchoPosition
  <2>2. r \in Int /\ c \in Int /\ 0 \in Int /\ r + 1 \in 1 .. VgaHeight
    BY <2>1, Sizes DEF Rows
  <2>3. /\ Position(r + 1, 0) = Position(r, 0) + VgaWidth
        /\ Position(r, c) = Position(r, 0) + c
    BY <2>2, PositionTypes
  <2>4. Position(r + 1, 0) = k
    BY <2>1, <2>3
  <2> QED BY <2>2, <2>4 DEF EchoPosition
<1>5. ASSUME EchoPosition("home", r, c, k) PROVE EchoPosition("scroll", r, 0, k)
  BY <1>5 DEF EchoPosition
<1>6. ASSUME EchoPosition("scroll", r, c, k), ~(r >= VgaHeight)
      PROVE  EchoPosition("print", r, c, k)
  <2>1. r \in 1 .. VgaHeight /\ c = 0 /\ Position(r, 0) = k
    BY <1>6 DEF EchoPosition
  <2>2. r \in Rows /\ c \in Cols
    BY <1>6, <2>1, Sizes DEF Rows, Cols
  <2> QED BY <2>1, <2>2 DEF EchoPosition
<1>7. ASSUME EchoPosition("scroll", r, c, k), r >= VgaHeight
      PROVE  EchoPosition("lastRow", r, c, k - VgaWidth)
  <2>1. r \in 1 .. VgaHeight /\ c = 0 /\ Position(r, 0) = k
    BY <1>7 DEF EchoPosition
  <2>2. VgaHeight - 1 \in Int /\ 0 \in Int /\ r = (VgaHeight - 1) + 1
    BY <1>7, <2>1, Sizes
  <2>3. Position((VgaHeight - 1) + 1, 0) = Position(VgaHeight - 1, 0) + VgaWidth /\ Position(VgaHeight - 1, 0) \in Int
    BY <2>2, PositionTypes
  <2>4. Position(VgaHeight - 1, 0) = k - VgaWidth
    BY <2>1, <2>2, <2>3, Sizes
  <2> QED BY <2>1, <2>4 DEF EchoPosition
<1>8. ASSUME EchoPosition("lastRow", r, c, k) PROVE EchoPosition("print", VgaHeight - 1, c, k)
  <2>1. c = 0 /\ Position(VgaHeight - 1, 0) = k
    BY <1>8 DEF EchoPosition
  <2>2. VgaHeight - 1 \in Rows /\ c \in Cols
    BY <2>1, Sizes DEF Rows, Cols
  <2> QED BY <2>1, <2>2 DEF EchoPosition
<1> QED BY <1>1, <1>2, <1>3, <1>4, <1>5, <1>6, <1>7, <1>8

\* A character that is printed at the end of what is shown is shown too.
LEMMA ShowsOneMore ==
  ASSUME NEW n \in Nat, Shown(n), NEW r \in Rows, NEW c \in Cols,
         echo_at \in Nat, echo_at' = echo_at, Position(r, c) = echo_at + n,
         screen \in [Rows -> [Cols -> Glyphs]],
         \A i \in 1 .. n : line'[i] = line[i],
         screen' = Written(line'[n + 1], r, c)
  PROVE  Shown(n + 1)'
<1> SUFFICES ASSUME NEW i \in 1 .. n + 1, NEW s \in Rows, NEW d \in Cols,
                    Position(s, d) = echo_at + i - 1
             PROVE  screen'[s][d] = line'[i]
  BY DEF Shown
<1>1. screen' = [screen EXCEPT ![r] = [screen[r] EXCEPT ![c] = line'[n + 1]]]
  BY DEF Written
<1>2. s \in Int /\ r \in Int
  BY DEF Rows
<1>3. CASE i = n + 1
  <2>1. Position(s, d) = Position(r, c)
    BY <1>3
  <2>2. s = r /\ d = c
    BY <1>2, <2>1, PositionOrder
  <2> QED BY <1>1, <1>3, <2>2
<1>4. CASE i # n + 1
  <2>1. i \in 1 .. n
    BY <1>4
  <2>2. ~(s = r /\ d = c)
    BY <2>1
  <2>3. screen'[s][d] = screen[s][d]
    BY <1>1, <2>2
  <2>4. screen[s][d] = line[i]
    BY <2>1 DEF Shown
  <2> QED BY <2>1, <2>3, <2>4
<1> QED BY <1>3, <1>4

\* What is written elsewhere leaves it as it is.
LEMMA ShownElsewhere ==
  ASSUME NEW n \in Nat, Shown(n), NEW r \in Int, NEW c \in Int, NEW glyph,
         echo_at \in Nat, echo_at' = echo_at,
         r \in Rows /\ c \in Cols => \A i \in 1 .. n : Position(r, c) # echo_at + i - 1,
         screen \in [Rows -> [Cols -> Glyphs]],
         \A i \in 1 .. n : line'[i] = line[i],
         screen' = Written(glyph, r, c)
  PROVE  Shown(n)'
<1> SUFFICES ASSUME NEW i \in 1 .. n, NEW s \in Rows, NEW d \in Cols,
                    Position(s, d) = echo_at + i - 1
             PROVE  screen'[s][d] = line'[i]
  BY DEF Shown
<1>1. screen[s][d] = line[i]
  BY DEF Shown
<1>2. CASE ~(r \in Rows /\ c \in Cols)
  BY <1>1, <1>2 DEF Written
<1>3. CASE r \in Rows /\ c \in Cols
  <2>1. screen' = [screen EXCEPT ![r] = [screen[r] EXCEPT ![c] = glyph]]
    BY <1>3 DEF Written
  <2>2. ~(s = r /\ d = c)
    BY <1>3
  <2>3. screen'[s][d] = screen[s][d]
    BY <1>3, <2>1, <2>2
  <2> QED BY <1>1, <2>3
<1> QED BY <1>2, <1>3

\* A screen that scrolls takes the echo with it.
LEMMA ShownScrolled ==
  ASSUME NEW n \in Nat, Shown(n), echo_at \in Nat, echo_at' = echo_at - VgaWidth,
         line' = line, screen' = Scrolled,
         echo_at + n <= Position(VgaHeight, 0)
  PROVE  Shown(n)'
<1> SUFFICES ASSUME NEW i \in 1 .. n, NEW s \in Rows, NEW d \in Cols,
                    Position(s, d) = echo_at' + i - 1
             PROVE  screen'[s][d] = line[i]
  BY DEF Shown
<1>1. s \in Int /\ s >= 0 /\ d \in Int /\ d >= 0 /\ s + 1 \in Int /\ VgaHeight \in Int /\ 0 \in Int
  BY Sizes DEF Rows, Cols
<1>2. /\ Position(s + 1, d) = Position(s, d) + VgaWidth /\ Position(s, d) \in Int
  BY <1>1, PositionTypes
<1>3. Position(s + 1, d) = echo_at + i - 1
  BY <1>2, Sizes
<1>4. s + 1 \in Rows
  <2>1. ASSUME VgaHeight <= s + 1 PROVE FALSE
    <3>1. Position(VgaHeight, 0) <= Position(s + 1, 0)
      BY <1>1, <2>1, PositionGrows
    <3>2. Position(s + 1, d) = Position(s + 1, 0) + d /\ Position(s + 1, 0) \in Int
      BY <1>1, PositionTypes
    <3>3. Position(VgaHeight, 0) \in Int
      BY <1>1, PositionTypes
    <3> QED BY <1>1, <1>3, <3>1, <3>2, <3>3
  <2> QED BY <1>1, <2>1, Sizes DEF Rows
<1>5. screen[s + 1][d] = line[i]
  BY <1>3, <1>4 DEF Shown
<1> QED BY <1>4, <1>5 DEF Scrolled

\* A step that moves nothing but the cursor keeps what is shown.
LEMMA EchoedSame ==
  ASSUME UNCHANGED <<line, screen, echo_at>>, NEW pc, NEW todo, NEW r, NEW c,
         Echoed(pc, todo, r, c)
  PROVE  Echoed(pc, todo, r, c)'
BY DEF Echoed, Pending, Shown, EchoPosition, Position, Rows, Cols

\* The cases of Showing, by who has the cursor.
LEMMA EchoedByKey ==
  ASSUME IInv, Showing, echo_at # Nowhere, jobs # <<>>, Top.kind # "display"
  PROVE  /\ Len(jobs) = 1 /\ Top = jobs[1] /\ Top.kind = "key"
         /\ Echoed(Top.pc, Top.todo, cursor_row, cursor_col)
         /\ echo_at \in Nat /\ echo_at < Position(VgaHeight, 0)
<1>1. echo_at \in Nat
  BY DEF IInv, Typical
<1>2. CASE Len(jobs) = 1
  <2>1. Top = jobs[1]
    BY <1>2 DEF Top
  <2> QED BY <1>1, <1>2, <2>1 DEF Showing, Displaying
<1>3. CASE Len(jobs) # 1
  BY <1>3 DEF Showing, Displaying, Top
<1> QED BY <1>2, <1>3

EchoedBelow(n, saved) ==
  \/ n = 1 /\ Echoed("print", <<>>, saved[1], saved[2])
  \/ /\ n = 2 /\ jobs[1].kind = "key"
     /\ Echoed(jobs[1].pc, jobs[1].todo, saved[1], saved[2])

\* The display has the cursor of the key below it, or of nobody.
LEMMA EchoedByDisplay ==
  ASSUME IInv, Showing, echo_at # Nowhere, jobs # <<>>, Top.kind = "display"
  PROVE  /\ Len(jobs) \in {1, 2} /\ Displaying(Top) /\ EchoedBelow(Len(jobs), Top.saved)
         /\ echo_at \in Nat /\ echo_at < Position(VgaHeight, 0)
<1>1. echo_at \in Nat
  BY DEF IInv, Typical
<1>2. CASE Len(jobs) = 1
  <2>1. Top = jobs[1]
    BY <1>2 DEF Top
  <2> QED BY <1>1, <1>2, <2>1 DEF Showing, EchoedBelow
<1>3. CASE Len(jobs) # 1
  <2>1. Len(jobs) = 2
    BY <1>3 DEF Showing
  <2>2. Top = jobs[2]
    BY <2>1 DEF Top
  <2> QED BY <1>1, <1>3, <2>1, <2>2 DEF Showing, EchoedBelow
<1> QED BY <1>2, <1>3

\* What a statement of a key, the only job there is, has to keep.
LEMMA KeyStepShowing ==
  ASSUME IInv, NEW j \in Jobs, Replaced(j), Len(jobs) = 1, Top.kind = "key",
         j.kind = "key", j.pc = "restore" => j.kind = "display",
         NEW r, NEW c, r = cursor_row', c = cursor_col',
         echo_at' # Nowhere =>
           echo_at' < Position(VgaHeight, 0) /\ Echoed(j.pc, j.todo, r, c)'
  PROVE  Showing'
<1>1. Len(jobs') = Len(jobs) /\ Top' = j
  BY ReplacedTop DEF IInv
<1>2. Len(jobs') = 1 /\ jobs'[1] = j
  BY <1>1 DEF Top
<1>3. Position(VgaHeight, 0)' = Position(VgaHeight, 0)
  BY DEF Position
<1> QED BY <1>2, <1>3 DEF Showing

\* What a statement of the display has to keep.
LEMMA DisplayStepShowing ==
  ASSUME IInv, Showing, echo_at # Nowhere, jobs # <<>>, Top.kind = "display",
         NEW j \in Jobs, Replaced(j), j.kind = "display", j.saved = Top.saved,
         Displaying(j)', UNCHANGED <<line, screen, echo_at>>
  PROVE  Showing'
<1>1. /\ Len(jobs') = Len(jobs) /\ Top' = j
      /\ \A i \in 1 .. Len(jobs) - 1 : jobs'[i] = jobs[i]
  BY ReplacedTop DEF IInv
<1>2. /\ Len(jobs) \in {1, 2} /\ EchoedBelow(Len(jobs), Top.saved)
      /\ echo_at < Position(VgaHeight, 0)
  BY EchoedByDisplay
<1>3. echo_at' < Position(VgaHeight, 0)'
  BY <1>2 DEF Position
<1>4. CASE Len(jobs) = 1
  <2>1. Len(jobs') = 1 /\ jobs'[1] = j
    BY <1>1, <1>4 DEF Top
  <2>2. Echoed("print", <<>>, j.saved[1], j.saved[2])
    BY <1>2, <1>4 DEF EchoedBelow
  <2>3. Echoed("print", <<>>, j.saved[1], j.saved[2])'
    BY <2>2, EchoedSame
  <2> QED BY <1>3, <2>1, <2>3 DEF Showing
<1>5. CASE Len(jobs) = 2
  <2>1. Len(jobs') = 2 /\ jobs'[2] = j /\ jobs'[1] = jobs[1]
    BY <1>1, <1>5 DEF Top
  <2>2. PICK k : k = jobs[1]
    OBVIOUS
  <2>3. k.kind = "key" /\ Echoed(k.pc, k.todo, j.saved[1], j.saved[2])
    BY <1>2, <1>5, <2>2 DEF EchoedBelow
  <2>4. Echoed(k.pc, k.todo, j.saved[1], j.saved[2])'
    BY <2>3, EchoedSame
  <2> QED BY <1>3, <2>1, <2>2, <2>3, <2>4 DEF Showing
<1> QED BY <1>2, <1>4, <1>5

-----------------------------------------------------------------------------
(* The statements of print_char keep what is shown.                        *)

\* Nothing but a key's spaces is printed while there is an echo.
LEMMA NextIsSpace ==
  ASSUME IInv, Showing, echo_at # Nowhere, NEW items, NextIs(items)
  PROVE  /\ Space \in items /\ Len(jobs) = 1 /\ Top.kind = "key"
         /\ Top.pc = "print" /\ Top \in Jobs
         /\ Len(Top.todo) \in Nat /\ Len(Top.todo) > 0
         /\ Echoed("print", Top.todo, cursor_row, cursor_col)
         /\ echo_at \in Nat /\ echo_at < Position(VgaHeight, 0)
<1>1. At("print") /\ Top.todo # <<>> /\ Head(Top.todo) \in items
  BY DEF NextIs
<1>2. jobs # <<>> /\ Top.pc = "print" /\ Top \in Jobs
  BY <1>1, RunningAtTop
<1>3. Top.kind # "display"
  BY <1>1, <1>2, EchoedByDisplay DEF Displaying
<1>4. /\ Len(jobs) = 1 /\ Top.kind = "key"
      /\ Echoed(Top.pc, Top.todo, cursor_row, cursor_col)
      /\ echo_at \in Nat /\ echo_at < Position(VgaHeight, 0)
  BY <1>2, <1>3, EchoedByKey
<1>5. Top.todo \in Seq(Items)
  BY <1>2 DEF Jobs
<1>6. Len(Top.todo) \in Nat /\ Len(Top.todo) # 0
  BY <1>1, <1>5, EmptySeq
<1>7. 1 \in 1 .. Len(Top.todo)
  BY <1>6
<1>8. Top.todo[1] = Space
  BY <1>4, <1>7 DEF Echoed, Pending
<1>9. Head(Top.todo) = Top.todo[1]
  BY <1>1, <1>5
<1> QED BY <1>1, <1>2, <1>4, <1>6, <1>8, <1>9

\* A space is none of the control items.
LEMMA SpaceIsPrinted == Space \notin {"newline", "clear", "reset"}
<1>1. Space \in Chars
  BY LineAssumption
<1>2. Chars \cap {"newline", "clear", "reset"} = {}
  BY ConsoleAssumption
<1> QED BY <1>1, <1>2

\* What Echoed needs of a step.
LEMMA EchoedNext ==
  ASSUME NEW pc, NEW todo, NEW r, NEW c, NEW n, NEW k,
         Pending(todo)', Shown(n)', n = Len(line') - Len(todo),
         EchoPosition(pc, r, c, k), k = echo_at' + Len(line') - Len(todo)
  PROVE  Echoed(pc, todo, r, c)'
<1>1. Shown(Len(line) - Len(todo))'
  BY DEF Shown
<1>2. EchoPosition(pc, r, c, echo_at + Len(line) - Len(todo))'
  BY DEF EchoPosition, Position, Rows, Cols
<1> QED BY <1>1, <1>2 DEF Echoed

\* An item is printed.
LEMMA PrintsShowing ==
  ASSUME IInv, Showing, PrintChar \/ PrintNewline \/ ClearScreen \/ ClearInput
  PROVE  Showing'
<1>1. CASE echo_at = Nowhere
  BY <1>1 DEF PrintChar, PrintNewline, ClearScreen, ClearInput, Showing
<1>2. CASE echo_at # Nowhere /\ (PrintNewline \/ ClearScreen \/ ClearInput)
  BY <1>2, NextIsSpace, SpaceIsPrinted DEF PrintNewline, ClearScreen, ClearInput
<1>3. CASE echo_at # Nowhere /\ PrintChar
  <2>0. PICK todo, rest, j : /\ todo = Top.todo /\ rest = Tail(todo)
                            /\ j = [Top EXCEPT !.pc = "advance", !.todo = Tail(Top.todo)]
    OBVIOUS
  <2>1. /\ Len(jobs) = 1 /\ Top.kind = "key" /\ Top.pc = "print" /\ Top \in Jobs
        /\ Len(todo) \in Nat /\ Len(todo) > 0
        /\ Echoed("print", todo, cursor_row, cursor_col)
        /\ echo_at \in Nat /\ echo_at < Position(VgaHeight, 0)
    BY <1>3, <2>0, NextIsSpace DEF PrintChar
  <2>2. /\ todo \in Seq(Items) /\ todo # <<>> /\ jobs # <<>>
        /\ screen' = Written(Head(todo), cursor_row, cursor_col)
        /\ Taken("advance") /\ line' = line /\ echo_at' = echo_at
        /\ cursor_row' = cursor_row /\ cursor_col' = cursor_col
    BY <1>3, <2>0, <2>1 DEF PrintChar, NextIs, Jobs, At
  <2>3. j \in Jobs /\ Replaced(j)
    BY <2>0, <2>2, TakenReplaces, PointNames DEF IInv
  <2>4. j.pc = "advance" /\ j.todo = rest /\ j.kind = "key"
    BY <2>0, <2>1 DEF Jobs
  <2>5. PICK n \in Nat : n = Len(line) - Len(todo)
    <3>1. Len(todo) <= Len(line) /\ Len(line) \in Nat
      BY <2>1 DEF Echoed, Pending, IInv, Typical
    <3> QED BY <2>1, <3>1
  <2>6. /\ Head(todo) = todo[1] /\ rest \in Seq(Items)
        /\ Len(rest) = Len(todo) - 1
        /\ \A i \in 1 .. Len(todo) - 1 : rest[i] = todo[i + 1]
    BY <2>0, <2>2
  <2>7. /\ Len(todo) <= Len(line) /\ Len(line) \in Nat
        /\ \A i \in 1 .. Len(todo) : todo[i] = Space /\ line[n + i] = Space
    BY <2>1, <2>5 DEF Echoed, Pending, IInv, Typical
  <2>8. Head(todo) = line[n + 1]
    <3>1. 1 \in 1 .. Len(todo)
      BY <2>1
    <3> QED BY <2>6, <2>7, <3>1
  <2>9. Pending(rest)'
    <3>1. ASSUME NEW i \in 1 .. Len(todo) - 1
          PROVE  rest[i] = Space /\ line[n + 1 + i] = Space
      <4>1. i + 1 \in 1 .. Len(todo) /\ n + 1 + i = n + (i + 1)
        BY <2>1, <2>5
      <4>2. todo[i + 1] = Space /\ line[n + (i + 1)] = Space
        BY <2>7, <4>1
      <4> QED BY <2>6, <4>1, <4>2
    <3>2. Len(line) - Len(rest) = n + 1
      BY <2>1, <2>5, <2>6, <2>7
    <3>3. Len(rest) <= Len(line)
      BY <2>1, <2>6, <2>7
    <3> QED BY <2>2, <2>6, <3>1, <3>2, <3>3 DEF Pending
  <2>10. Shown(n) /\ EchoPosition("print", cursor_row, cursor_col, echo_at + Len(line) - Len(todo))
    BY <2>1, <2>5 DEF Echoed
  <2>11. echo_at + Len(line) - Len(todo) = echo_at + n
    BY <2>1, <2>5, <2>7
  <2>12. /\ cursor_row \in Rows /\ cursor_col \in Cols
         /\ Position(cursor_row, cursor_col) = echo_at + n
    BY <2>10, <2>11 DEF EchoPosition
  <2>13. Shown(n + 1)'
    <3>1. screen' = Written(line'[n + 1], cursor_row, cursor_col)
      BY <2>2, <2>8
    <3>2. screen \in [Rows -> [Cols -> Glyphs]]
      BY DEF IInv, Typical
    <3> QED BY <2>1, <2>2, <2>10, <2>12, <3>1, <3>2, ShowsOneMore
  <2>14. EchoPosition("advance", cursor_row, cursor_col, echo_at + n + 1)
    BY <2>12 DEF EchoPosition
  <2>15. Len(line') - Len(rest) = n + 1
    BY <2>1, <2>2, <2>5, <2>6, <2>7
  <2>16. echo_at' + Len(line') - Len(rest) = echo_at + n + 1
    BY <2>1, <2>2, <2>5, <2>6, <2>7
  <2>17. PICK r, c : r = cursor_row /\ c = cursor_col
    OBVIOUS
  <2>18. Echoed("advance", rest, r, c)'
    <3>1. EchoPosition("advance", r, c, echo_at + n + 1)
      BY <2>14, <2>17
    <3>2. echo_at' = echo_at
      BY <2>2
    <3> QED BY <2>9, <2>13, <2>15, <2>16, <3>1, <3>2, EchoedNext
  <2> QED BY <2>1, <2>2, <2>3, <2>4, <2>17, <2>18, KeyStepShowing
<1> QED BY <1>1, <1>2, <1>3

\* A statement that moves the cursor moves it with what follows the echo.
LEMMA GotoShowing ==
  ASSUME IInv, Showing, echo_at # Nowhere, NEW pc, NEW to \in Points, At(pc), Goto(to),
         UNCHANGED <<line, screen, echo_at>>, NEW r, NEW c, r = cursor_row', c = cursor_col',
         Top.kind # "display" =>
           /\ to # "restore"
           /\ \A k \in Int : EchoPosition(pc, cursor_row, cursor_col, k) =>
                               EchoPosition(to, r, c, k),
         NEW j, j = [Top EXCEPT !.pc = to],
         (Top.kind = "display" /\ Displaying(Top)) => Displaying(j)'
  PROVE  Showing'
<1>1. jobs # <<>> /\ Top.pc = pc
  BY DEF At
<1>2. Top \in Jobs /\ j \in Jobs /\ Replaced(j)
  BY <1>1, GotoReplaces DEF IInv
<1>3. j.pc = to /\ j.todo = Top.todo /\ j.saved = Top.saved /\ j.kind = Top.kind
  BY <1>2 DEF Jobs
<1>4. CASE Top.kind = "display"
  <2>1. Displaying(Top)
    BY <1>1, <1>4, EchoedByDisplay
  <2>3. Displaying(j)'
    BY <1>4, <2>1
  <2> QED BY <1>1, <1>2, <1>3, <1>4, <2>3, DisplayStepShowing
<1>5. CASE Top.kind # "display"
  <2>1. /\ Len(jobs) = 1 /\ Top.kind = "key"
        /\ Echoed(pc, j.todo, cursor_row, cursor_col)
        /\ echo_at \in Nat /\ echo_at < Position(VgaHeight, 0)
    BY <1>1, <1>3, <1>5, EchoedByKey
  <2>2. PICK k \in Int : k = echo_at + Len(line) - Len(j.todo)
    <3>1. Len(line) \in Nat /\ Len(j.todo) \in Nat
      BY <1>2 DEF IInv, Typical, Jobs
    <3> QED BY <2>1, <3>1
  <2>3. EchoPosition(to, r, c, k)
    BY <1>5, <2>1, <2>2 DEF Echoed
  <2>4. Echoed(j.pc, j.todo, r, c)
    BY <1>3, <2>1, <2>2, <2>3 DEF Echoed
  <2>5. Echoed(j.pc, j.todo, r, c)'
    BY <2>4, EchoedSame
  <2> QED BY <1>2, <1>3, <1>5, <2>1, <2>5, KeyStepShowing
<1> QED BY <1>4, <1>5

\* The display's statements keep it in the rows where it is.
LEMMA DisplayMoves ==
  ASSUME NEW j \in Jobs, j.kind = "display", j.todo = <<>>,
         j.pc \in {"advance", "wrap", "rowUp"} => cursor_row' = 0,
         j.pc \in {"home", "scroll"} => cursor_row' = 1,
         j.pc = "restore" => cursor_row' = j.saved[1],
         j.pc # "lastRow"
  PROVE  Displaying(j)'
BY DEF Displaying

\* The rest of print_char, for a key and for the display.
LEMMA AdvanceShowing == ASSUME IInv, Showing, echo_at # Nowhere, Advance PROVE Showing'
<1>1. /\ At("advance") /\ Goto("wrap") /\ cursor_col' = cursor_col + 1 /\ cursor_row' = cursor_row
      /\ UNCHANGED <<line, screen, echo_at>>
  BY DEF Advance, notCursor
<1>2. PICK j, r, c : j = [Top EXCEPT !.pc = "wrap"] /\ r = cursor_row' /\ c = cursor_col'
  OBVIOUS
<1>3. \A k \in Int : EchoPosition("advance", cursor_row, cursor_col, k) =>
                       EchoPosition("wrap", r, c, k)
  BY <1>1, <1>2, EchoMoves
<1>4. ASSUME Top.kind = "display", Displaying(Top) PROVE Displaying(j)'
  <2>1. Top \in Jobs /\ Top.pc = "advance"
    BY <1>1, RunningAtTop
  <2>2. j \in Jobs /\ j.kind = "display" /\ j.pc = "wrap" /\ j.todo = <<>>
    BY <1>2, <1>4, <2>1, PointNames DEF Jobs, Displaying
  <2> QED BY <1>1, <1>4, <2>1, <2>2, DisplayMoves DEF Displaying
<1> QED BY <1>1, <1>2, <1>3, <1>4, GotoShowing, PointNames

LEMMA RowUpShowing == ASSUME IInv, Showing, echo_at # Nowhere, RowUp PROVE Showing'
<1>1. /\ At("rowUp") /\ Goto("home") /\ cursor_row' = cursor_row + 1 /\ cursor_col' = cursor_col
      /\ UNCHANGED <<line, screen, echo_at>>
  BY DEF RowUp, notCursor
<1>2. PICK j, r, c : j = [Top EXCEPT !.pc = "home"] /\ r = cursor_row' /\ c = cursor_col'
  OBVIOUS
<1>3. \A k \in Int : EchoPosition("rowUp", cursor_row, cursor_col, k) =>
                       EchoPosition("home", r, c, k)
  BY <1>1, <1>2, EchoMoves
<1>4. ASSUME Top.kind = "display", Displaying(Top) PROVE Displaying(j)'
  <2>1. Top \in Jobs /\ Top.pc = "rowUp"
    BY <1>1, RunningAtTop
  <2>2. j \in Jobs /\ j.kind = "display" /\ j.pc = "home" /\ j.todo = <<>>
    BY <1>2, <1>4, <2>1, PointNames DEF Jobs, Displaying
  <2> QED BY <1>1, <1>4, <2>1, <2>2, DisplayMoves DEF Displaying
<1> QED BY <1>1, <1>2, <1>3, <1>4, GotoShowing, PointNames

LEMMA HomeShowing == ASSUME IInv, Showing, echo_at # Nowhere, Home PROVE Showing'
<1>1. /\ At("home") /\ Goto("scroll") /\ cursor_row' = cursor_row /\ cursor_col' = 0
      /\ UNCHANGED <<line, screen, echo_at>>
  BY DEF Home, notCursor
<1>2. PICK j, r, c : j = [Top EXCEPT !.pc = "scroll"] /\ r = cursor_row' /\ c = cursor_col'
  OBVIOUS
<1>3. \A k \in Int : EchoPosition("home", cursor_row, cursor_col, k) =>
                       EchoPosition("scroll", r, c, k)
  BY <1>1, <1>2, EchoMoves
<1>4. ASSUME Top.kind = "display", Displaying(Top) PROVE Displaying(j)'
  <2>1. Top \in Jobs /\ Top.pc = "home"
    BY <1>1, RunningAtTop
  <2>2. j \in Jobs /\ j.kind = "display" /\ j.pc = "scroll" /\ j.todo = <<>>
    BY <1>2, <1>4, <2>1, PointNames DEF Jobs, Displaying
  <2> QED BY <1>1, <1>4, <2>1, <2>2, DisplayMoves DEF Displaying
<1> QED BY <1>1, <1>2, <1>3, <1>4, GotoShowing, PointNames

LEMMA WrapShowing == ASSUME IInv, Showing, echo_at # Nowhere, Wrap PROVE Showing'
<1>0. PICK to : to = IF cursor_col >= VgaWidth THEN "rowUp" ELSE "print"
  OBVIOUS
<1>1. /\ At("wrap") /\ Goto(to) /\ cursor_row' = cursor_row /\ cursor_col' = cursor_col
      /\ UNCHANGED <<line, screen, echo_at>> /\ to \in Points /\ to # "restore"
      /\ to \in {"rowUp", "print"}
  BY <1>0, PointNames DEF Wrap, notCursor
<1>2. PICK j, r, c : j = [Top EXCEPT !.pc = to] /\ r = cursor_row' /\ c = cursor_col'
  OBVIOUS
<1>3. \A k \in Int : EchoPosition("wrap", cursor_row, cursor_col, k) =>
                       EchoPosition(to, r, c, k)
  BY <1>0, <1>1, <1>2, EchoMoves
<1>4. ASSUME Top.kind = "display", Displaying(Top) PROVE Displaying(j)'
  <2>1. Top \in Jobs /\ Top.pc = "wrap"
    BY <1>1, RunningAtTop
  <2>2. j \in Jobs /\ j.kind = "display" /\ j.pc = to /\ j.todo = <<>>
    BY <1>1, <1>2, <1>4, <2>1 DEF Jobs, Displaying
  <2> QED BY <1>1, <1>4, <2>1, <2>2, DisplayMoves DEF Displaying
<1> QED BY <1>1, <1>2, <1>3, <1>4, GotoShowing

\* The display ends in two statements.
LEMMA RestoreRowShowing == ASSUME IInv, Showing, echo_at # Nowhere, RestoreRow PROVE Showing'
<1>1. /\ At("print") /\ Goto("restore") /\ cursor_row' = Top.saved[1]
      /\ UNCHANGED <<line, screen, echo_at>> /\ Top.kind = "display" /\ Top.todo = <<>>
  BY DEF RestoreRow, notCursor
<1>2. PICK j, r, c : j = [Top EXCEPT !.pc = "restore"] /\ r = cursor_row' /\ c = cursor_col'
  OBVIOUS
<1>4. Displaying(j)'
  <2>1. Top \in Jobs
    BY <1>1, RunningAtTop
  <2>2. j \in Jobs /\ j.kind = "display" /\ j.pc = "restore" /\ j.todo = <<>> /\ j.saved = Top.saved
    BY <1>1, <1>2, <2>1, PointNames DEF Jobs
  <2> QED BY <1>1, <2>2, DisplayMoves
<1> QED BY <1>1, <1>2, <1>4, GotoShowing, PointNames

\* Only a key gets to the last row by scrolling.
LEMMA LastRowShowing == ASSUME IInv, Showing, echo_at # Nowhere, LastRow PROVE Showing'
<1>1. /\ At("lastRow") /\ Goto("print") /\ cursor_row' = VgaHeight - 1 /\ cursor_col' = cursor_col
      /\ UNCHANGED <<line, screen, echo_at>>
  BY DEF LastRow, notCursor
<1>2. PICK j, r, c : j = [Top EXCEPT !.pc = "print"] /\ r = cursor_row' /\ c = cursor_col'
  OBVIOUS
<1>3. \A k \in Int : EchoPosition("lastRow", cursor_row, cursor_col, k) =>
                       EchoPosition("print", r, c, k)
  BY <1>1, <1>2, EchoMoves
<1>4. ASSUME Top.kind = "display", Displaying(Top) PROVE Displaying(j)'
  <2>1. Top.pc = "lastRow"
    BY <1>1 DEF At
  <2> QED BY <1>4, <2>1 DEF Displaying
<1> QED BY <1>1, <1>2, <1>3, <1>4, GotoShowing, PointNames

\* A screen that scrolls moves the echo up a row, or out of sight.
LEMMA ScrollShowing == ASSUME IInv, Showing, echo_at # Nowhere, Scroll PROVE Showing'
<1>1. At("scroll") /\ line' = line /\ cursor_row' = cursor_row /\ cursor_col' = cursor_col
  BY DEF Scroll
<1>2. PICK r, c : r = cursor_row' /\ c = cursor_col'
  OBVIOUS
<1>3. Top \in Jobs /\ Top.pc = "scroll" /\ jobs # <<>> /\ cursor_row \in Nat
  BY <1>1, RunningAtTop, BoundedCursor DEF IInv
<1>4. CASE ~(cursor_row >= VgaHeight)
  <2>1. Goto("print") /\ UNCHANGED <<line, screen, echo_at>>
    BY <1>1, <1>4 DEF Scroll
  <2>2. PICK j : j = [Top EXCEPT !.pc = "print"]
    OBVIOUS
  <2>3. \A k \in Int : EchoPosition("scroll", cursor_row, cursor_col, k) =>
                         EchoPosition("print", r, c, k)
    BY <1>1, <1>2, <1>4, EchoMoves
  <2>4. ASSUME Top.kind = "display", Displaying(Top) PROVE Displaying(j)'
    <3>1. j \in Jobs /\ j.kind = "display" /\ j.pc = "print" /\ j.todo = <<>>
      BY <1>3, <2>2, <2>4, PointNames DEF Jobs, Displaying
    <3> QED BY <3>1, DisplayMoves
  <2> QED BY <1>1, <1>2, <2>1, <2>2, <2>3, <2>4, GotoShowing, PointNames
<1>5. CASE cursor_row >= VgaHeight /\ echo_at < VgaWidth
  BY <1>5 DEF Scroll, Showing
<1>6. CASE cursor_row >= VgaHeight /\ ~(echo_at < VgaWidth)
  <2>1. screen' = Scrolled /\ echo_at' = echo_at - VgaWidth /\ Goto("lastRow")
    BY <1>6 DEF Scroll
  <2>2. ASSUME Top.kind = "display" PROVE FALSE
    <3>1. cursor_row = 1 /\ echo_at \in Nat /\ echo_at < Position(VgaHeight, 0)
      BY <1>3, <2>2, EchoedByDisplay DEF Displaying
    <3>2. VgaHeight = 1
      BY <1>6, <3>1, Sizes
    <3>3. 0 \in Int /\ Position(0 + 1, 0) = Position(0, 0) + VgaWidth /\ Position(0, 0) = 0
      BY PositionTypes
    <3>4. Position(VgaHeight, 0) = VgaWidth
      BY <3>2, <3>3, Sizes
    <3> QED BY <1>6, <3>1, <3>4, Sizes
  <2>3. PICK j : j = [Top EXCEPT !.pc = "lastRow"]
    OBVIOUS
  <2>4. /\ Len(jobs) = 1 /\ Top.kind = "key"
        /\ Echoed("scroll", Top.todo, cursor_row, cursor_col)
        /\ echo_at \in Nat /\ echo_at < Position(VgaHeight, 0)
    BY <1>3, <2>2, EchoedByKey
  <2>5. j \in Jobs /\ Replaced(j)
    BY <1>3, <2>1, <2>3, GotoReplaces, PointNames DEF IInv
  <2>6. j.pc = "lastRow" /\ j.kind = "key" /\ j.todo = Top.todo
    BY <1>3, <2>3, <2>4 DEF Jobs
  <2>7. Pending(j.todo) /\ Len(j.todo) \in Nat /\ Len(line) \in Nat /\ Len(j.todo) <= Len(line)
    <3>1. Pending(j.todo)
      BY <2>4, <2>6 DEF Echoed
    <3>2. j.todo \in Seq(Items) /\ line \in Seq(Chars)
      BY <2>5 DEF IInv, Typical, Jobs
    <3>3. Len(j.todo) <= Len(line)
      BY <3>1 DEF Pending
    <3> QED BY <3>1, <3>2, <3>3
  <2>8. PICK n \in Nat : n = Len(line) - Len(j.todo)
    <3> DEFINE a == Len(line)
               b == Len(j.todo)
    <3>1. a \in Nat /\ b \in Nat /\ b <= a
      BY <2>7
    <3> HIDE DEF a, b
    <3>2. a - b \in Nat
      BY <3>1
    <3> QED BY <3>2 DEF a, b
  <2>9. Shown(n) /\ EchoPosition("scroll", cursor_row, cursor_col, echo_at + Len(line) - Len(j.todo))
    BY <2>4, <2>6, <2>8 DEF Echoed
  <2>10. echo_at + Len(line) - Len(j.todo) = echo_at + n
    BY <2>4, <2>7, <2>8
  <2>11. PICK k \in Int : k = echo_at + n /\ EchoPosition("scroll", r, c, k)
    <3>1. r = cursor_row /\ c = cursor_col
      BY <1>1, <1>2
    <3>2. EchoPosition("scroll", r, c, echo_at + Len(line) - Len(j.todo))
      BY <2>9, <3>1
    <3>3. EchoPosition("scroll", r, c, echo_at + n)
      BY <2>10, <3>2
    <3>4. echo_at + n \in Int
      BY <2>4
    <3> QED BY <3>3, <3>4
  <2>12. EchoPosition("lastRow", r, c, k - VgaWidth)
    <3>1. r >= VgaHeight
      BY <1>1, <1>2, <1>6
    <3> QED BY <2>11, <3>1, EchoMoves
  <2>13. echo_at + n <= Position(VgaHeight, 0)
    <3>1. r \in 1 .. VgaHeight /\ Position(r, 0) = k
      BY <2>11 DEF EchoPosition
    <3>2. r = VgaHeight
      BY <1>1, <1>2, <1>6, <3>1, Sizes
    <3> QED BY <2>11, <3>1, <3>2
  <2>14. Shown(n)'
    BY <1>1, <2>1, <2>4, <2>9, <2>13, ShownScrolled
  <2>15. Pending(j.todo)'
    BY <1>1, <2>7 DEF Pending
  <2>16. /\ n = Len(line') - Len(j.todo)
         /\ k - VgaWidth = echo_at' + Len(line') - Len(j.todo)
    BY <1>1, <2>1, <2>4, <2>7, <2>8, <2>11, Sizes
  <2>17. Echoed("lastRow", j.todo, r, c)'
    BY <2>12, <2>14, <2>15, <2>16, EchoedNext
  <2>18. echo_at' < Position(VgaHeight, 0)
    <3>1. VgaHeight \in Int /\ 0 \in Int
      BY Sizes
    <3>2. Position(VgaHeight, 0) \in Int
      BY <3>1, PositionTypes
    <3> QED BY <2>1, <2>4, <3>2, Sizes
  <2> QED BY <1>2, <2>4, <2>5, <2>6, <2>17, <2>18, KeyStepShowing
<1> QED BY <1>4, <1>5, <1>6

\* All statements that move the cursor.
LEMMA MovesShowing ==
  ASSUME IInv, Showing,
         Advance \/ Wrap \/ RowUp \/ Home \/ Scroll \/ LastRow \/ RestoreRow
  PROVE  Showing'
<1>1. CASE echo_at = Nowhere
  <2>1. echo_at' = Nowhere
    BY <1>1, Sizes DEF Advance, Wrap, RowUp, Home, Scroll, LastRow, RestoreRow, notCursor, Nowhere
  <2> QED BY <2>1 DEF Showing, Nowhere
<1>2. CASE echo_at # Nowhere
  BY <1>2, AdvanceShowing, WrapShowing, RowUpShowing, HomeShowing, ScrollShowing,
     LastRowShowing, RestoreRowShowing
<1> QED BY <1>1, <1>2

-----------------------------------------------------------------------------
(* A job ends and the line is still shown.                                 *)

\* What a step has to keep after which nobody prints.
LEMMA NobodyShowing ==
  ASSUME jobs' = <<>>, NEW r, NEW c, r = cursor_row', c = cursor_col',
         echo_at' # Nowhere =>
           echo_at' < Position(VgaHeight, 0) /\ Echoed("print", <<>>, r, c)'
  PROVE  Showing'
<1>1. Position(VgaHeight, 0)' = Position(VgaHeight, 0)
  BY DEF Position
<1> QED BY <1>1 DEF Showing

\* The cursor is back where the display found it.
LEMMA RestoreColShowing == ASSUME IInv, Showing, RestoreCol PROVE Showing'
<1>1. /\ jobs # <<>> /\ Top.pc = "restore" /\ Finished
      /\ cursor_row' = cursor_row /\ cursor_col' = Top.saved[2]
      /\ UNCHANGED <<line, screen, echo_at>>
  BY DEF RestoreCol, At, notCursor
<1>2. /\ jobs' \in Seq(Jobs) /\ Len(jobs') = Len(jobs) - 1
      /\ \A i \in 1 .. Len(jobs) - 1 : jobs'[i] = jobs[i]
      /\ Len(jobs) \in Nat /\ Len(jobs) > 0 /\ Len(jobs) <= 3
  BY <1>1, FinishedJobs DEF IInv
<1>3. Top.kind = "display"
  <2>1. Len(jobs) \in 1 .. Len(jobs)
    BY <1>2
  <2> QED BY <1>1, <2>1 DEF IInv, Stacked, Top
<1>4. CASE echo_at = Nowhere
  BY <1>1, <1>4 DEF Showing
<1>5. CASE echo_at # Nowhere
  <2>1. /\ Len(jobs) \in {1, 2} /\ Displaying(Top) /\ EchoedBelow(Len(jobs), Top.saved)
        /\ echo_at \in Nat /\ echo_at < Position(VgaHeight, 0)
    BY <1>1, <1>3, <1>5, EchoedByDisplay
  <2>2. PICK r, c : r = cursor_row' /\ c = cursor_col'
    OBVIOUS
  <2>3. r = Top.saved[1] /\ c = Top.saved[2]
    BY <1>1, <2>1, <2>2 DEF Displaying
  <2>4. CASE Len(jobs) = 1
    <3>1. jobs' = <<>>
      BY <1>2, <2>4, EmptySeq
    <3>2. Echoed("print", <<>>, r, c)
      BY <2>1, <2>3, <2>4 DEF EchoedBelow
    <3>3. Echoed("print", <<>>, r, c)'
      BY <1>1, <3>2, EchoedSame
    <3> QED BY <1>1, <2>1, <2>2, <3>1, <3>3, NobodyShowing
  <2>5. CASE Len(jobs) = 2
    <3>1. PICK k : k = jobs[1]
      OBVIOUS
    <3>2. Len(jobs') = 1 /\ jobs'[1] = k
      BY <1>2, <2>5, <3>1
    <3>3. k.kind = "key" /\ Echoed(k.pc, k.todo, r, c)
      BY <2>1, <2>3, <2>5, <3>1 DEF EchoedBelow
    <3>4. Echoed(k.pc, k.todo, r, c)'
      BY <1>1, <3>3, EchoedSame
    <3>5. echo_at' < Position(VgaHeight, 0)'
      BY <1>1, <2>1 DEF Position
    <3> QED BY <2>2, <3>2, <3>3, <3>4, <3>5 DEF Showing
  <2> QED BY <2>1, <2>4, <2>5
<1> QED BY <1>4, <1>5

\* Nothing is left to print.
LEMMA NothingPending == ASSUME line' \in Seq(Chars) PROVE Pending(<<>>)'
BY DEF Pending

\* A key that ends behind its prompt begins a new echo.
LEMMA FinishShowing == ASSUME IInv, Showing, Finish PROVE Showing'
<1>1. /\ At("print") /\ Top.todo = <<>> /\ Top.kind # "display" /\ Finished
      /\ cursor_row' = cursor_row /\ cursor_col' = cursor_col
      /\ line' = line /\ screen' = screen
      /\ echo_at' = IF echo_at = Nowhere /\ line = <<>> /\ Len(jobs) = 1
                      THEN Position(cursor_row, cursor_col) ELSE echo_at
  BY DEF Finish
<1>2. /\ jobs # <<>> /\ Top.pc = "print" /\ Top \in Jobs
      /\ cursor_row \in 0 .. RowFloor /\ cursor_col \in 0 .. VgaWidth - 1
  BY <1>1, RunningAtTop DEF RowLimit, ColLimit
<1>3. /\ Len(jobs') = Len(jobs) - 1 /\ jobs' \in Seq(Jobs)
  BY <1>1, <1>2, FinishedJobs DEF IInv
<1>4. PICK r, c : r = cursor_row' /\ c = cursor_col'
  OBVIOUS
<1>5. CASE echo_at # Nowhere
  <2>1. /\ Len(jobs) = 1
        /\ Echoed("print", <<>>, cursor_row, cursor_col)
        /\ echo_at \in Nat /\ echo_at < Position(VgaHeight, 0)
    BY <1>1, <1>2, <1>5, EchoedByKey
  <2>2. jobs' = <<>>
    BY <1>3, <2>1, EmptySeq
  <2>3. echo_at' = echo_at
    BY <1>1, <1>5
  <2>4. Echoed("print", <<>>, r, c)
    BY <1>1, <1>4, <2>1
  <2>5. Echoed("print", <<>>, r, c)'
    BY <1>1, <2>3, <2>4, EchoedSame
  <2> QED BY <1>4, <2>1, <2>2, <2>3, <2>5, NobodyShowing
<1>6. CASE echo_at = Nowhere /\ ~(line = <<>> /\ Len(jobs) = 1)
  BY <1>1, <1>6 DEF Showing
<1>7. CASE echo_at = Nowhere /\ line = <<>> /\ Len(jobs) = 1
  <2>1. jobs' = <<>>
    BY <1>3, <1>7, EmptySeq
  <2>2. RowFloor = VgaHeight - 1
    BY <1>2, <1>7, Floors DEF IInv
  <2>3. r \in Rows /\ c \in Cols
    BY <1>1, <1>2, <1>4, <2>2 DEF Rows, Cols
  <2>4. echo_at' = Position(r, c)
    BY <1>1, <1>4, <1>7
  <2>5. r \in Int /\ c \in Int /\ 0 \in Int /\ r + 1 \in Int /\ VgaHeight \in Int /\ r + 1 <= VgaHeight /\ c < VgaWidth
    BY <2>3, Sizes DEF Rows, Cols
  <2>6. Position(r, c) = Position(r, 0) + c /\ Position(r, 0) \in Int
    BY <2>5, PositionTypes
  <2>7. Position(r + 1, 0) = Position(r, 0) + VgaWidth
    BY <2>5, PositionTypes
  <2>8. Position(r + 1, 0) <= Position(VgaHeight, 0) /\ Position(VgaHeight, 0) \in Int
    BY <2>5, PositionGrows, PositionTypes
  <2>9. echo_at' < Position(VgaHeight, 0) /\ echo_at' \in Int
    BY <2>4, <2>5, <2>6, <2>7, <2>8, Sizes
  <2>10. line' = <<>> /\ Len(line') = 0 /\ line' \in Seq(Chars)
    BY <1>1, <1>7
  <2>11. Pending(<<>>)'
    BY <2>10, NothingPending
  <2>12. Shown(0)'
    BY DEF Shown
  <2>13. 0 = Len(line') - Len(<<>>)
    BY <2>10
  <2>14. EchoPosition("print", r, c, Position(r, c))
    BY <2>3 DEF EchoPosition
  <2>15. Position(r, c) = echo_at' + Len(line') - Len(<<>>)
    BY <2>4, <2>9, <2>10
  <2>16. Echoed("print", <<>>, r, c)'
    BY <2>11, <2>12, <2>13, <2>14, <2>15, EchoedNext
  <2> QED BY <1>4, <2>1, <2>9, <2>16, NobodyShowing
<1> QED BY <1>5, <1>6, <1>7

-----------------------------------------------------------------------------
(* A key changes the line and what is shown of it.                         *)

\* Between two keys the cursor is behind the echo.
LEMMA EchoedIdle ==
  ASSUME IInv, Showing, echo_at # Nowhere, jobs = <<>>
  PROVE  /\ cursor_row \in Rows /\ cursor_col \in Cols
         /\ line \in Seq(Chars) /\ Len(line) \in Nat
         /\ Position(cursor_row, cursor_col) = echo_at + Len(line)
         /\ Shown(Len(line))
         /\ echo_at \in Nat /\ echo_at < Position(VgaHeight, 0)
<1>1. line \in Seq(Chars) /\ Len(line) \in Nat /\ echo_at \in Nat
  BY DEF IInv, Typical
<1>2. Len(jobs) = 0 /\ Len(<<>>) = 0
  OBVIOUS
<1>3. echo_at < Position(VgaHeight, 0) /\ Echoed("print", <<>>, cursor_row, cursor_col)
  BY <1>2 DEF Showing
<1>4. /\ Len(line) - Len(<<>>) = Len(line)
      /\ echo_at + Len(line) - Len(<<>>) = echo_at + Len(line)
  BY <1>1, <1>2
<1>5. Shown(Len(line))
  BY <1>3, <1>4 DEF Echoed
<1>6. EchoPosition("print", cursor_row, cursor_col, echo_at + Len(line))
  BY <1>3, <1>4 DEF Echoed
<1>7. /\ cursor_row \in Rows /\ cursor_col \in Cols
      /\ Position(cursor_row, cursor_col) = echo_at + Len(line)
  BY <1>6 DEF EchoPosition
<1> QED BY <1>1, <1>3, <1>5, <1>7

\* A key that writes a character has the rest of the spaces still to print.
LEMMA KeyStartsShowing ==
  ASSUME IInv, Showing, echo_at # Nowhere, jobs = <<>>, MayHandleKey, InPlace,
         NEW todo \in Seq(Items), KeyJob("advance", todo), line' \in Seq(Chars),
         NEW glyph, screen' = Written(glyph, cursor_row, cursor_col),
         cursor_row' = cursor_row, cursor_col' = cursor_col,
         Len(line') = Len(line) + 1 + Len(todo), line'[Len(line) + 1] = glyph,
         \A i \in 1 .. Len(line) : line'[i] = line[i],
         \A i \in 1 .. Len(todo) : todo[i] = Space /\ line'[Len(line) + 1 + i] = Space
  PROVE  Showing'
<1>1. /\ cursor_row \in Rows /\ cursor_col \in Cols
      /\ line \in Seq(Chars) /\ Len(line) \in Nat
      /\ Position(cursor_row, cursor_col) = echo_at + Len(line)
      /\ Shown(Len(line))
      /\ echo_at \in Nat /\ echo_at < Position(VgaHeight, 0)
  BY EchoedIdle
<1>2. PICK n \in Nat, m \in Nat : n = Len(line) /\ m = Len(todo)
  BY <1>1
<1>3. echo_at' = echo_at
  BY DEF InPlace
<1>4. Shown(n + 1)'
  <2>1. screen \in [Rows -> [Cols -> Glyphs]]
    BY DEF IInv, Typical
  <2>2. screen' = Written(line'[n + 1], cursor_row, cursor_col)
    BY <1>2
  <2> QED BY <1>1, <1>2, <1>3, <2>1, <2>2, ShowsOneMore
<1>5. Len(line') = n + 1 + m /\ Len(line') - Len(todo) = n + 1
  BY <1>2
<1>6. Pending(todo)'
  <2>1. Len(todo) <= Len(line')
    BY <1>2, <1>5
  <2>2. ASSUME NEW i \in 1 .. Len(todo)
        PROVE  todo[i] = Space /\ line'[Len(line') - Len(todo) + i] = Space
    <3>1. todo[i] = Space /\ line'[Len(line) + 1 + i] = Space
      OBVIOUS
    <3>2. Len(line') - Len(todo) + i = Len(line) + 1 + i
      BY <1>2, <1>5
    <3> QED BY <3>1, <3>2
  <2> QED BY <2>1, <2>2 DEF Pending
<1>7. PICK r, c, k : r = cursor_row' /\ c = cursor_col' /\ k = echo_at + n + 1
  OBVIOUS
<1>8. EchoPosition("advance", r, c, k)
  <2>1. r \in Rows /\ c \in Cols /\ Position(r, c) + 1 = k
    BY <1>1, <1>2, <1>7
  <2> QED BY <2>1 DEF EchoPosition
<1>9. k = echo_at' + Len(line') - Len(todo)
  BY <1>1, <1>2, <1>3, <1>5, <1>7
<1>10. Echoed("advance", todo, r, c)'
  BY <1>4, <1>5, <1>6, <1>8, <1>9, EchoedNext
<1>11. jobs' = <<[kind |-> "key", pc |-> "advance", todo |-> todo, saved |-> <<0, 0>>]>>
  BY DEF KeyJob, Started
<1>12. /\ Len(jobs') = 1 /\ jobs'[1].kind = "key"
       /\ jobs'[1].pc = "advance" /\ jobs'[1].todo = todo
  BY <1>11
<1>13. echo_at' < Position(VgaHeight, 0)'
  BY <1>1, <1>3 DEF Position
<1> QED BY <1>7, <1>10, <1>12, <1>13 DEF Showing

\* A character is shown behind the line, and added to it.
LEMMA TypeCharShowing == ASSUME IInv, Showing, NEW c \in Typed, TypeChar(c) PROVE Showing'
<1>1. CASE echo_at = Nowhere \/ jobs # <<>>
  BY <1>1 DEF TypeChar, InPlace, Showing
<1>2. CASE echo_at # Nowhere /\ jobs = <<>>
  <2>1. c \in Chars /\ line \in Seq(Chars) /\ Len(line) <= MaxLine
    BY ConsoleAssumption DEF IInv, Typical
  <2>2. line' \in Seq(Chars) /\ line' = Append(line, c)
    BY <2>1, LineTypes DEF TypeChar
  <2>3. /\ Len(line') = Len(line) + 1 /\ line'[Len(line) + 1] = c
        /\ \A i \in 1 .. Len(line) : line'[i] = line[i] /\ Len(line) \in Nat
    BY <2>1, <2>2
  <2>4. <<>> \in Seq(Items) /\ Len(<<>>) = 0 /\ Len(line) \in Nat
    BY <2>1
  <2>5. Len(line') = Len(line) + 1 + Len(<<>>)
    BY <2>3, <2>4
  <2>6. \A i \in 1 .. Len(<<>>) : <<>>[i] = Space /\ line'[Len(line) + 1 + i] = Space
    BY <2>4
  <2>7. /\ MayHandleKey /\ InPlace /\ KeyJob("advance", <<>>)
        /\ screen' = Written(c, cursor_row, cursor_col)
        /\ cursor_row' = cursor_row /\ cursor_col' = cursor_col
    BY DEF TypeChar
  <2> QED BY <1>2, <2>2, <2>3, <2>4, <2>5, <2>6, <2>7, KeyStartsShowing
<1> QED BY <1>1, <1>2

\* A tab's spaces: at least one, at the end of the line.
LEMMA SpacesAdded ==
  ASSUME line \in Seq(Chars), Len(line) <= MaxLine, NEW n \in Nat \ {0}, AddSpaces(n)
  PROVE  \E m \in Nat :
           /\ line' \in Seq(Chars) /\ Len(line') = Len(line) + 1 + m
           /\ \A i \in 1 .. Len(line) : line'[i] = line[i]
           /\ \A i \in Len(line) + 1 .. Len(line) + 1 + m : line'[i] = Space
<1> USE LineAssumption
<1>1. PICK a \in Nat : a = Len(line)
  OBVIOUS
<1> DEFINE k == IF n < Room THEN n ELSE Room
           spaces == [i \in 1 .. k |-> Space]
<1>2. k \in Nat /\ k >= 1
  BY <1>1 DEF AddSpaces, Room
<1>3. spaces \in Seq(Chars) /\ Len(spaces) = k /\ \A i \in 1 .. k : spaces[i] = Space
  BY <1>2
<1>4. line' = line \o spaces
  BY DEF AddSpaces
<1> HIDE DEF spaces, k
<1>5. /\ line' \in Seq(Chars) /\ Len(line') = a + k
      /\ \A i \in 1 .. a + k : line'[i] = IF i <= a THEN line[i] ELSE spaces[i - a]
  BY <1>1, <1>3, <1>4, ConcatProperties
<1>6. /\ \A i \in 1 .. a : line'[i] = line[i]
      /\ \A i \in a + 1 .. a + k : line'[i] = Space
  <2>1. \A i \in 1 .. a : i \in 1 .. a + k /\ i <= a
    BY <1>1, <1>2
  <2>2. \A i \in a + 1 .. a + k : i \in 1 .. a + k /\ ~(i <= a) /\ i - a \in 1 .. k
    BY <1>1, <1>2
  <2> QED BY <1>3, <1>5, <2>1, <2>2
<1>7. PICK m \in Nat : m = k - 1
  BY <1>2
<1>8. a + k = a + 1 + m
  BY <1>1, <1>2, <1>7
<1>9. /\ Len(line') = a + 1 + m
      /\ \A i \in a + 1 .. a + 1 + m : line'[i] = Space
  BY <1>5, <1>6, <1>8
<1> QED BY <1>1, <1>5, <1>6, <1>9

\* The first space of a tab is shown, the others are pending.
LEMMA TypeTabShowing == ASSUME IInv, Showing, TypeTab PROVE Showing'
<1>1. CASE echo_at = Nowhere \/ jobs # <<>>
  BY <1>1 DEF TypeTab, InPlace, Showing
<1>2. CASE echo_at # Nowhere /\ jobs = <<>>
  <2>1. line \in Seq(Chars) /\ Len(line) <= MaxLine
    BY DEF IInv, Typical
  <2>2. PICK n \in Nat \ {0} : n = TabStop - (cursor_col % TabStop)
    <3>1. cursor_col \in Nat
      BY BoundedCursor, Sizes DEF IInv
    <3> QED BY <3>1, Sizes
  <2>3. PICK m \in Nat :
           /\ line' \in Seq(Chars) /\ Len(line') = Len(line) + 1 + m
           /\ \A i \in 1 .. Len(line) : line'[i] = line[i]
           /\ \A i \in Len(line) + 1 .. Len(line) + 1 + m : line'[i] = Space
    BY <2>1, <2>2, SpacesAdded DEF TypeTab
  <2>4. PICK a \in Nat : a = Len(line)
    BY <2>1
  <2>5. PICK todo : todo = SubSeq(line', a + 2, a + 1 + m)
    OBVIOUS
  <2>6. \A i \in a + 1 .. a + 1 + m : line'[i] = Space
    BY <2>3, <2>4
  <2>7. Space \in Items
    BY LineAssumption DEF Items, Glyphs
  <2>8. /\ todo \in Seq(Items) /\ Len(todo) = m
        /\ \A i \in 1 .. m : todo[i] = line'[a + 1 + i]
    <3>1. \A i \in a + 2 .. a + 1 + m : line'[i] \in Items
      BY <2>6, <2>7
    <3>2. a + 2 \in Int /\ a + 1 + m \in Int
      OBVIOUS
    <3>3. /\ SubSeq(line', a + 2, a + 1 + m) \in Seq(Items)
          /\ Len(SubSeq(line', a + 2, a + 1 + m)) =
               IF a + 2 <= a + 1 + m THEN (a + 1 + m) - (a + 2) + 1 ELSE 0
          /\ \A i \in 1 .. (a + 1 + m) - (a + 2) + 1 :
               SubSeq(line', a + 2, a + 1 + m)[i] = line'[a + 2 + i - 1]
      BY <3>1, <3>2, SubSeqProperties
    <3>4. Len(todo) = m
      BY <2>5, <3>3
    <3>5. ASSUME NEW i \in 1 .. m PROVE todo[i] = line'[a + 1 + i]
      <4>1. i \in 1 .. (a + 1 + m) - (a + 2) + 1 /\ a + 2 + i - 1 = a + 1 + i
        OBVIOUS
      <4> QED BY <2>5, <3>3, <4>1
    <3> QED BY <2>5, <3>3, <3>4, <3>5
  <2>9. ASSUME NEW i \in 1 .. Len(todo)
        PROVE  todo[i] = Space /\ line'[Len(line) + 1 + i] = Space
    <3>1. i \in 1 .. m /\ a + 1 + i \in a + 1 .. a + 1 + m
      BY <2>8
    <3> QED BY <2>4, <2>6, <2>8, <3>1
  <2>10. line'[Len(line) + 1] = Space
    <3>1. a + 1 \in a + 1 .. a + 1 + m
      OBVIOUS
    <3> QED BY <2>4, <2>6, <3>1
  <2>11. Len(line') = Len(line) + 1 + Len(todo)
    BY <2>3, <2>8
  <2>12. /\ MayHandleKey /\ InPlace
         /\ screen' = Written(Space, cursor_row, cursor_col)
         /\ cursor_row' = cursor_row /\ cursor_col' = cursor_col
    BY DEF TypeTab
  <2>13. KeyJob("advance", todo)
    <3>1. KeyJob("advance", SubSeq(line', Len(line) + 2, Len(line')))
      BY DEF TypeTab
    <3>2. Len(line) + 2 = a + 2 /\ Len(line') = a + 1 + m
      BY <2>3, <2>4
    <3> QED BY <2>5, <3>1, <3>2
  <2> QED BY <1>2, <2>3, <2>8, <2>9, <2>10, <2>11, <2>12, <2>13, KeyStartsShowing
<1> QED BY <1>1, <1>2

\* The last character goes from the line and from the screen.
LEMMA BackspaceShowing == ASSUME IInv, Showing, Backspace PROVE Showing'
<1>1. CASE echo_at = Nowhere \/ jobs # <<>>
  BY <1>1 DEF Backspace, InPlace, Showing
<1>2. CASE echo_at # Nowhere /\ jobs = <<>>
  <2>1. /\ cursor_row \in Rows /\ cursor_col \in Cols
        /\ line \in Seq(Chars) /\ Len(line) \in Nat
        /\ Position(cursor_row, cursor_col) = echo_at + Len(line)
        /\ Shown(Len(line))
        /\ echo_at \in Nat /\ echo_at < Position(VgaHeight, 0)
    BY <1>2, EchoedIdle
  <2>2. /\ line # <<>> /\ line' = Front(line) /\ echo_at' = echo_at /\ jobs' = <<>>
        /\ screen' = Written(Space, Before[1], Before[2])
        /\ cursor_row' = Before[1] /\ cursor_col' = Before[2]
    BY <1>2 DEF Backspace, DeleteChar, InPlace
  <2>3. PICK n \in Nat : Len(line) = n + 1
    <3>1. Len(line) \in Nat /\ Len(line) # 0
      BY <2>1, <2>2, EmptySeq
    <3>2. Len(line) - 1 \in Nat /\ Len(line) = (Len(line) - 1) + 1
      BY <3>1
    <3> QED BY <3>2
  <2>4. /\ line' \in Seq(Chars) /\ Len(line') = n
        /\ \A i \in 1 .. n : line'[i] = line[i]
    BY <2>1, <2>2, <2>3 DEF Front
  <2>5. PICK r, c : r = Before[1] /\ c = Before[2]
    OBVIOUS
  <2>6. r \in Rows /\ c \in Cols /\ Position(r, c) = echo_at + n
    <3>1. /\ cursor_row \in Int /\ cursor_col \in Int /\ 0 \in Int
          /\ cursor_col - 1 \in Int /\ cursor_row - 1 \in Int /\ VgaWidth - 1 \in Int
          /\ VgaWidth \in Int
      BY <2>1, Sizes DEF Rows, Cols
    <3>2. CASE cursor_col > 0
      <4>1. r = cursor_row /\ c = cursor_col - 1
        BY <2>5, <3>2 DEF Before
      <4>2. Position(cursor_row, (cursor_col - 1) + 1) = Position(cursor_row, cursor_col - 1) + 1
        BY <3>1, PositionTypes
      <4>3. (cursor_col - 1) + 1 = cursor_col /\ Position(cursor_row, cursor_col - 1) \in Int
        BY <3>1, PositionTypes
      <4>4. c \in Cols
        BY <2>1, <3>1, <3>2, <4>1 DEF Cols
      <4>5. Position(r, c) + 1 = echo_at + (n + 1) /\ Position(r, c) \in Int
        BY <2>1, <2>3, <4>1, <4>2, <4>3
      <4> QED BY <2>1, <4>1, <4>4, <4>5
    <3>3. CASE cursor_col = 0 /\ cursor_row > 0
      <4>1. r = cursor_row - 1 /\ c = VgaWidth - 1
        BY <2>5, <3>3 DEF Before
      <4>2. Position((cursor_row - 1) + 1, 0) = Position(cursor_row - 1, 0) + VgaWidth
        BY <3>1, PositionTypes
      <4>3. Position(cursor_row - 1, VgaWidth - 1) = Position(cursor_row - 1, 0) + (VgaWidth - 1)
        BY <3>1, PositionTypes
      <4>4. (cursor_row - 1) + 1 = cursor_row /\ Position(cursor_row - 1, 0) \in Int
        BY <3>1, PositionTypes
      <4>5. r \in Rows /\ c \in Cols
        BY <2>1, <3>1, <3>3, <4>1, Sizes DEF Rows, Cols
      <4>6. Position(cursor_row, 0) = echo_at + (n + 1)
        BY <2>1, <2>3, <3>3
      <4> QED BY <2>1, <3>1, <4>1, <4>2, <4>3, <4>4, <4>5, <4>6
    <3>4. CASE cursor_col = 0 /\ cursor_row = 0
      <4>1. Position(0, 0) = 0
        BY <3>1, PositionTypes
      <4> QED BY <2>1, <2>3, <3>4, <4>1
    <3>5. cursor_col >= 0 /\ cursor_row >= 0
      BY <2>1 DEF Rows, Cols
    <3> QED BY <3>1, <3>2, <3>3, <3>4, <3>5
  <2>7. Shown(n)
    <3>1. \A i \in 1 .. n : i \in 1 .. Len(line)
      BY <2>3
    <3> QED BY <2>1, <3>1 DEF Shown
  <2>8. Shown(n)'
    <3>1. r \in Int /\ c \in Int /\ screen \in [Rows -> [Cols -> Glyphs]]
      BY <2>6 DEF Rows, Cols, IInv, Typical
    <3>2. \A i \in 1 .. n : Position(r, c) # echo_at + i - 1
      BY <2>1, <2>6
    <3>3. screen' = Written(Space, r, c)
      BY <2>2, <2>5
    <3> QED BY <2>1, <2>2, <2>4, <2>7, <3>1, <3>2, <3>3, ShownElsewhere
  <2>9. Pending(<<>>)'
    BY <2>4, NothingPending
  <2>10. PICK k : k = echo_at + n
    OBVIOUS
  <2>11. EchoPosition("print", r, c, k)
    BY <2>6, <2>10 DEF EchoPosition
  <2>12. n = Len(line') - Len(<<>>) /\ k = echo_at' + Len(line') - Len(<<>>)
    BY <2>1, <2>2, <2>4, <2>10
  <2>13. Echoed("print", <<>>, r, c)'
    BY <2>8, <2>9, <2>11, <2>12, EchoedNext
  <2> QED BY <2>1, <2>2, <2>5, <2>13, NobodyShowing
<1> QED BY <1>1, <1>2

-----------------------------------------------------------------------------
(* The display comes and the line is still shown.                          *)

\* What the display does not write over is still shown behind it.
LEMMA EchoedBehind ==
  ASSUME IInv, NEW pc, NEW todo, Len(todo) \in Nat, NEW r, NEW c, Echoed(pc, todo, r, c),
         echo_at \in Nat, line' = line, echo_at' = echo_at,
         screen' = Written(Text, 0, DisplayCol),
         \A i \in 1 .. Len(line) : echo_at + i - 1 # DisplayCol
  PROVE  Echoed(pc, todo, r, c)'
<1>1. Pending(todo) /\ Shown(Len(line) - Len(todo))
  BY DEF Echoed
<1>2. Len(todo) <= Len(line) /\ Len(line) \in Nat
  BY <1>1 DEF Pending, IInv, Typical
<1>3. PICK n \in Nat : n = Len(line) - Len(todo) /\ n <= Len(line)
  <2>1. Len(line) - Len(todo) \in Nat /\ Len(line) - Len(todo) <= Len(line)
    BY <1>2
  <2> QED BY <2>1
<1>4. Shown(n)'
  <2>1. 0 \in Int /\ DisplayCol \in Int /\ screen \in [Rows -> [Cols -> Glyphs]]
    BY Sizes DEF IInv, Typical
  <2>2. Position(0, DisplayCol) = DisplayCol
    BY <2>1, PositionTypes
  <2>3. \A i \in 1 .. n : Position(0, DisplayCol) # echo_at + i - 1
    <3>1. \A i \in 1 .. n : i \in 1 .. Len(line)
      BY <1>2, <1>3
    <3> QED BY <2>2, <3>1
  <2>4. \A i \in 1 .. n : line'[i] = line[i]
    OBVIOUS
  <2>5. Shown(n)
    BY <1>1, <1>3
  <2> QED BY <2>1, <2>3, <2>4, <2>5, ShownElsewhere
<1>5. Pending(todo)'
  BY <1>1 DEF Pending
<1>6. PICK k : k = echo_at + Len(line) - Len(todo)
  OBVIOUS
<1>7. EchoPosition(pc, r, c, k)
  BY <1>6 DEF Echoed
<1>8. n = Len(line') - Len(todo) /\ k = echo_at' + Len(line') - Len(todo)
  BY <1>3, <1>6
<1> QED BY <1>4, <1>5, <1>7, <1>8, EchoedNext

\* The display writes over the line, and there is no echo, or next to it.
LEMMA DisplayStartShowing == ASSUME IInv, Showing, DisplayStart PROVE Showing'
<1>1. CASE echo_at' = Nowhere
  BY <1>1 DEF Showing
<1>2. CASE echo_at' # Nowhere
  <2>1. /\ echo_at' = echo_at /\ echo_at # Nowhere
        /\ \A i \in 1 .. Len(line) : echo_at + i - 1 \notin DisplayCells
    BY <1>2 DEF DisplayStart
  <2>2. \A i \in 1 .. Len(line) : echo_at + i - 1 # DisplayCol
    <3>1. Len(Display) = 1
      BY DEF Display
    <3>2. DisplayCol \in DisplayCells
      BY <3>1, Sizes DEF DisplayCells
    <3> QED BY <2>1, <3>2
  <2>3. PICK r, c, j : /\ r = cursor_row /\ c = cursor_col
                       /\ j = [kind |-> "display", pc |-> "advance", todo |-> <<>>,
                               saved |-> <<r, c>>]
    OBVIOUS
  <2>4. /\ jobs' = Append(jobs, j) /\ cursor_row' = 0 /\ ~Running("display")
        /\ screen' = Written(Text, 0, DisplayCol) /\ line' = line
    BY <2>3 DEF DisplayStart, Started, Display
  <2>5. j \in Jobs /\ j.kind = "display" /\ j.todo = <<>> /\ j.pc = "advance" /\ j.saved = <<r, c>>
    <3>1. r \in Nat /\ c \in Nat
      BY <2>3, BoundedCursor, Sizes DEF IInv
    <3>2. <<>> \in Seq(Items)
      OBVIOUS
    <3> QED BY <2>3, <3>1, <3>2, PointNames DEF Jobs
  <2>6. Displaying(j)'
    BY <2>4, <2>5, DisplayMoves
  <2>7. jobs \in Seq(Jobs) /\ echo_at \in Nat
    BY <2>1 DEF IInv, Typical
  <2>8. CASE jobs = <<>>
    <3>1. echo_at < Position(VgaHeight, 0) /\ Echoed("print", <<>>, r, c)
      <4>1. Len(jobs) = 0
        BY <2>8
      <4> QED BY <2>1, <2>3, <4>1 DEF Showing
    <3>2. Len(<<>>) \in Nat
      OBVIOUS
    <3>3. Echoed("print", <<>>, r, c)'
      BY <2>1, <2>2, <2>4, <2>7, <3>1, <3>2, EchoedBehind
    <3>4. Len(jobs') = 1 /\ jobs'[1] = j
      BY <2>4, <2>8
    <3>5. echo_at' < Position(VgaHeight, 0)'
      BY <2>1, <3>1 DEF Position
    <3>6. jobs'[1].saved[1] = r /\ jobs'[1].saved[2] = c
      BY <2>5, <3>4
    <3> QED BY <2>6, <3>3, <3>4, <3>5, <3>6 DEF Showing
  <2>9. CASE jobs # <<>>
    <3>1. Len(jobs) \in Nat /\ Len(jobs) > 0 /\ Len(jobs) \in 1 .. Len(jobs)
      BY <2>9, JobCount DEF IInv
    <3>2. Top.kind # "display"
      BY <2>4, <3>1 DEF Running, Top
    <3>3. /\ Len(jobs) = 1 /\ Top = jobs[1] /\ Top.kind = "key"
          /\ Echoed(Top.pc, Top.todo, cursor_row, cursor_col)
          /\ echo_at < Position(VgaHeight, 0)
      BY <2>1, <2>9, <3>2, EchoedByKey
    <3>4. PICK key \in Jobs : key = jobs[1]
      BY <2>7, <3>1
    <3>5. Len(key.todo) \in Nat /\ key.kind = "key" /\ Echoed(key.pc, key.todo, r, c)
      BY <2>3, <3>3, <3>4 DEF Jobs
    <3>6. Echoed(key.pc, key.todo, r, c)'
      BY <2>1, <2>2, <2>4, <2>7, <3>5, EchoedBehind
    <3>7. Len(jobs') = 2 /\ jobs'[1] = key /\ jobs'[2] = j
      <4>1. /\ Len(Append(jobs, j)) = Len(jobs) + 1
            /\ \A i \in 1 .. Len(jobs) : Append(jobs, j)[i] = jobs[i]
            /\ Append(jobs, j)[Len(jobs) + 1] = j
        BY <2>5, <2>7, AppendProperties
      <4>2. Len(jobs) + 1 = 2 /\ 1 \in 1 .. Len(jobs)
        BY <3>3
      <4> QED BY <2>4, <3>4, <4>1, <4>2
    <3>8. echo_at' < Position(VgaHeight, 0)'
      BY <2>1, <3>3 DEF Position
    <3>9. jobs'[2].saved[1] = r /\ jobs'[2].saved[2] = c
      BY <2>5, <3>7
    <3> QED BY <2>6, <3>5, <3>6, <3>7, <3>8, <3>9 DEF Showing
  <2> QED BY <2>8, <2>9
<1> QED BY <1>1, <1>2

-----------------------------------------------------------------------------
(* What the screen shows is the line.                                      *)

EInv == IInv /\ Showing

\* The boot shows nothing yet.
LEMMA InitEInv == Init => EInv
BY InitIInv DEF EInv, Showing, Init

\* Every step keeps what is shown.
LEMMA NextShowing == ASSUME EInv, [Next]_vars PROVE Showing'
<1> USE DEF EInv
<1>1. CASE Printing
  BY <1>1, PrintsShowing, MovesShowing, RestoreColShowing, FinishShowing DEF Printing
<1>2. CASE Key
  <2>1. ASSUME Enter PROVE Showing'
    BY <2>1 DEF Enter, Showing
  <2> QED BY <1>2, <2>1, TypeCharShowing, TypeTabShowing, BackspaceShowing DEF Key
<1>3. CASE ShellStart
  BY <1>3 DEF ShellStart, Showing
<1>4. CASE DisplayStart
  BY <1>4, DisplayStartShowing
<1>5. CASE UNCHANGED vars
  <2>1. /\ UNCHANGED <<line, screen, echo_at>>
        /\ jobs' = jobs /\ cursor_row' = cursor_row /\ cursor_col' = cursor_col
    BY <1>5 DEF vars
  <2>2. PICK js, r, c : js = jobs /\ r = cursor_row /\ c = cursor_col
    OBVIOUS
  <2>3. \A pc, todo, row, col : Echoed(pc, todo, row, col) => Echoed(pc, todo, row, col)'
    BY <2>1, EchoedSame
  <2>4. \A j : Displaying(j) => Displaying(j)'
    BY <2>1 DEF Displaying
  <2>5. echo_at # Nowhere =>
          /\ echo_at < Position(VgaHeight, 0)
          /\ \/ js = <<>> /\ Echoed("print", <<>>, r, c)
             \/ Len(js) = 1 /\ js[1].kind = "key" /\ Echoed(js[1].pc, js[1].todo, r, c)
             \/ /\ Len(js) = 1 /\ Displaying(js[1])
                /\ Echoed("print", <<>>, js[1].saved[1], js[1].saved[2])
             \/ /\ Len(js) = 2 /\ js[1].kind = "key" /\ Displaying(js[2])
                /\ Echoed(js[1].pc, js[1].todo, js[2].saved[1], js[2].saved[2])
    BY <2>2 DEF Showing
  <2>6. js = jobs' /\ r = cursor_row' /\ c = cursor_col'
    BY <2>1, <2>2
  <2>7. Position(VgaHeight, 0)' = Position(VgaHeight, 0)
    BY DEF Position
  <2> QED BY <2>1, <2>3, <2>4, <2>5, <2>6, <2>7 DEF Showing
<1> QED BY <1>1, <1>2, <1>3, <1>4, <1>5 DEF Next

\* It always holds.
LEMMA EchoInvariance == Spec => []EInv
<1>1. EInv /\ [Next]_vars => EInv'
  BY NextIInv, NextShowing DEF EInv
<1> QED BY InitEInv, <1>1, PTL DEF Spec

\* Between two keys the user sees the line that handle_command will get: the
\* cells from the prompt to the cursor hold its characters, whatever the size
\* of the screen, however far the line has made it scroll, and wherever in a
\* key the display has borrowed the cursor.
THEOREM EchoCorrect == Spec => []EchoMatchesLine
<1>1. EInv => EchoMatchesLine
  <2> SUFFICES ASSUME EInv, jobs = <<>>, echo_at # Nowhere
               PROVE  /\ Position(cursor_row, cursor_col) = echo_at + Len(line)
                      /\ \A i \in DOMAIN line :
                           screen[(echo_at + i - 1) \div VgaWidth]
                                 [(echo_at + i - 1) % VgaWidth] = line[i]
    BY DEF EchoMatchesLine
  <2>1. /\ cursor_row \in Rows /\ cursor_col \in Cols
        /\ line \in Seq(Chars) /\ Len(line) \in Nat
        /\ Position(cursor_row, cursor_col) = echo_at + Len(line)
        /\ Shown(Len(line))
        /\ echo_at \in Nat
    BY EchoedIdle DEF EInv
  <2>2. Position(cursor_row, cursor_col) < Position(VgaHeight, 0)
    <3>1. /\ cursor_row \in Int /\ cursor_row + 1 \in Int /\ cursor_row + 1 <= VgaHeight
          /\ cursor_col \in Int /\ 0 \in Int /\ VgaHeight \in Int /\ cursor_col < VgaWidth
      BY <2>1, Sizes DEF Rows, Cols
    <3>2. /\ Position(cursor_row, cursor_col) = Position(cursor_row, 0) + cursor_col
          /\ Position(cursor_row, 0) \in Int
      BY <3>1, PositionTypes
    <3>3. Position(cursor_row + 1, 0) = Position(cursor_row, 0) + VgaWidth
      BY <3>1, PositionTypes
    <3>4. Position(cursor_row + 1, 0) <= Position(VgaHeight, 0) /\ Position(VgaHeight, 0) \in Int
      BY <3>1, PositionGrows, PositionTypes
    <3> QED BY <3>1, <3>2, <3>3, <3>4, Sizes
  <2>3. Position(VgaHeight, 0) \in Int
    <3>1. VgaHeight \in Int /\ 0 \in Int
      BY Sizes
    <3> QED BY <3>1, PositionTypes
  <2>4. ASSUME NEW i \in 1 .. Len(line)
        PROVE  screen[(echo_at + i - 1) \div VgaWidth][(echo_at + i - 1) % VgaWidth] = line[i]
    <3>1. PICK k \in Nat : k = echo_at + i - 1 /\ k < Position(VgaHeight, 0)
      <4>1. echo_at + i - 1 \in Nat /\ echo_at + i - 1 < echo_at + Len(line)
        BY <2>1
      <4>2. echo_at + i - 1 < Position(VgaHeight, 0)
        BY <2>1, <2>2, <2>3, <4>1
      <4> QED BY <4>1, <4>2
    <3>2. /\ k \div VgaWidth \in Rows /\ k % VgaWidth \in Cols
          /\ Position(k \div VgaWidth, k % VgaWidth) = k
      BY <3>1, PositionFound
    <3>3. screen[k \div VgaWidth][k % VgaWidth] = line[i]
      BY <2>1, <3>1, <3>2 DEF Shown
    <3> QED BY <3>1, <3>3
  <2>5. DOMAIN line = 1 .. Len(line)
    BY <2>1
  <2> QED BY <2>1, <2>4, <2>5
<1> QED BY <1>1, EchoInvariance, PTL

=============================================================================
