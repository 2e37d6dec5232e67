-------------------------- MODULE FileSystemProofs --------------------------
(***************************************************************************)
(* Ownership of blocks, for every size of the table, the disk and a        *)
(* directory's block, and whatever paths and data the calls are made with. *)
(***************************************************************************)
EXTENDS FileSystem, FiniteSetTheorems, SequenceTheorems, WellFoundedInduction, TLAPS

-----------------------------------------------------------------------------
(* Least elements.                                                         *)

LEMMA LeastExists ==
  ASSUME NEW S, S \subseteq Nat, S # {}
  PROVE  \E x \in S : \A y \in S : x <= y
<1>1. IsWellFoundedOn(OpToRel(<, Nat), Nat)
  BY NatLessThanWellFounded
<1>2. \E x \in S : \A y \in S : ~(<<y, x>> \in OpToRel(<, Nat))
  BY <1>1, WFMin
<1>3. PICK x \in S : \A y \in S : ~(<<y, x>> \in OpToRel(<, Nat))
  BY <1>2
<1>4. \A y \in S : ~(y < x)
  BY <1>3 DEF OpToRel
<1> QED BY <1>4

LEMMA MinIsLeast ==
  ASSUME NEW S, S \subseteq Nat, S # {}
  PROVE  Min(S) \in S /\ \A y \in S : Min(S) <= y
BY LeastExists DEF Min

-----------------------------------------------------------------------------
(* Ownership without counting.  first is what the entries' first_block     *)
(* fields hold.                                                            *)

Marks == Blocks \cup {None, End}

Tables == [Blocks -> Marks]

Owned(first, fat) ==
  /\ \A i, j \in Files : first[i] \in Blocks /\ first[i] = first[j] => i = j
  /\ \A c, d \in Blocks : fat[c] \in Blocks /\ fat[c] = fat[d] => c = d
  /\ \A i \in Files, c \in Blocks : first[i] \in Blocks => fat[c] # first[i]
  /\ \A i \in Files : first[i] \in Blocks => fat[first[i]] # None
  /\ \A c \in Blocks : fat[c] \in Blocks => fat[fat[c]] # None

\* No entry begins with block b and no block is linked to it.
Unclaimed(first, fat, b) ==
  (\A i \in Files : first[i] # b) /\ (\A c \in Blocks : fat[c] # b)

LEMMA MarksAreNoBlocks == None \notin Blocks /\ End \notin Blocks /\ None # End
BY FileSystemAssumption DEF None, End, Blocks

LEMMA FreeIsUnclaimed ==
  ASSUME NEW first, NEW fat, Owned(first, fat), NEW b \in FreeBlocks(fat)
  PROVE  b \in Blocks /\ Unclaimed(first, fat, b)
BY DEF Owned, FreeBlocks, Unclaimed

\* Blocks can be freed together if nothing else leads to one of them.
LEMMA FreeingKeepsOwned ==
  ASSUME NEW first, NEW fat \in Tables, Owned(first, fat),
         NEW gone \in SUBSET Blocks,
         \A i \in Files : first[i] \notin gone,
         \A c \in Blocks \ gone : fat[c] \notin gone
  PROVE  Owned(first, [c \in Blocks |-> IF c \in gone THEN None ELSE fat[c]])
BY MarksAreNoBlocks DEF Owned, Tables

\* What free_blocks frees is closed under links, and nothing smaller is.
LEMMA ReachedIsLeast ==
  ASSUME NEW fat, NEW b
  PROVE  /\ Reached(fat, b) \subseteq Blocks
         /\ b \in Blocks => b \in Reached(fat, b)
         /\ \A c \in Reached(fat, b) : fat[c] \in Blocks => fat[c] \in Reached(fat, b)
         /\ \A S \in SUBSET Blocks :
              b \in S /\ (\A c \in S : fat[c] \in Blocks => fat[c] \in S)
                => Reached(fat, b) \subseteq S
BY DEF Reached

\* A chain that entry i gives up: nobody else leads to a block of it.
LEMMA FreeChain ==
  ASSUME NEW first, NEW fat \in Tables, Owned(first, fat), NEW i \in Files,
         NEW rest, \A j \in Files : rest[j] = IF j = i THEN None ELSE first[j]
  PROVE  /\ free_blocks(fat, first[i]) \in Tables
         /\ Owned(rest, free_blocks(fat, first[i]))
<1> DEFINE gone == Reached(fat, first[i])
<1>1. gone \in SUBSET Blocks
  BY ReachedIsLeast
<1>2. Owned(rest, fat)
  BY MarksAreNoBlocks DEF Owned
<1>3. ASSUME NEW g \in gone, g # first[i], \A c \in gone : fat[c] # g PROVE FALSE
  <2>1. first[i] \in gone \ {g}
    BY <1>3 DEF Reached
  <2>2. \A c \in gone \ {g} : fat[c] \in Blocks => fat[c] \in gone \ {g}
    BY <1>3, ReachedIsLeast
  <2>3. gone \ {g} \in SUBSET Blocks
    BY <1>1
  <2>4. gone \subseteq gone \ {g}
    <3> DEFINE others == gone \ {g}
    <3>1. /\ others \in SUBSET Blocks /\ first[i] \in others
          /\ \A c \in others : fat[c] \in Blocks => fat[c] \in others
      BY <2>1, <2>2, <2>3
    <3> HIDE DEF others
    <3>2. Reached(fat, first[i]) \subseteq others
      BY <3>1, ReachedIsLeast
    <3> QED BY <3>2 DEF others
  <2> QED BY <2>4
<1>4. ASSUME NEW j \in Files, rest[j] \in gone PROVE FALSE
  <2>1. j # i /\ rest[j] = first[j] /\ first[j] \in Blocks
    BY <1>1, <1>4, MarksAreNoBlocks
  <2>2. first[j] # first[i] /\ \A c \in Blocks : fat[c] # first[j]
    BY <2>1 DEF Owned
  <2> HIDE DEF gone
  <2> QED BY <1>1, <1>3, <1>4, <2>1, <2>2
<1>5. ASSUME NEW c \in Blocks \ gone, fat[c] \in gone PROVE FALSE
  <2>1. fat[c] \in Blocks
    BY <1>1, <1>5
  <2>2. fat[c] # first[i] /\ \A d \in gone : fat[d] # fat[c]
    BY <1>1, <1>5, <2>1 DEF Owned
  <2> HIDE DEF gone
  <2> QED BY <1>3, <1>5, <2>2
<1>6. free_blocks(fat, first[i]) = [c \in Blocks |-> IF c \in gone THEN None ELSE fat[c]]
  BY DEF free_blocks
<1> HIDE DEF gone
<1>7. free_blocks(fat, first[i]) \in Tables
  BY <1>6 DEF Tables, Marks
<1> QED BY <1>1, <1>2, <1>4, <1>5, <1>6, <1>7, FreeingKeepsOwned

\* A free block can be taken as the end of a chain of its own.
LEMMA TakeBlock ==
  ASSUME NEW first, NEW fat \in Tables, Owned(first, fat), NEW new \in FreeBlocks(fat)
  PROVE  /\ [fat EXCEPT ![new] = End] \in Tables
         /\ Owned(first, [fat EXCEPT ![new] = End])
         /\ Unclaimed(first, [fat EXCEPT ![new] = End], new)
BY FreeIsUnclaimed, MarksAreNoBlocks DEF Owned, Unclaimed, Tables, Marks, FreeBlocks

\* A block that was taken in vain is freed again.
LEMMA UndoTake ==
  ASSUME NEW first, NEW fat \in Tables, Owned(first, fat), NEW new \in Blocks,
         fat[new] = End, Unclaimed(first, fat, new)
  PROVE  /\ free_blocks(fat, new) \in Tables
         /\ Owned(first, free_blocks(fat, new))
<1>1. Reached(fat, new) = {new}
  <2> DEFINE only == {new}
  <2>1. /\ only \in SUBSET Blocks /\ new \in only
        /\ \A c \in only : fat[c] \in Blocks => fat[c] \in only
    BY MarksAreNoBlocks
  <2> HIDE DEF only
  <2>2. Reached(fat, new) \subseteq only
    BY <2>1, ReachedIsLeast
  <2>3. new \in Reached(fat, new)
    BY ReachedIsLeast
  <2> QED BY <2>2, <2>3 DEF only
<1>2. free_blocks(fat, new) = [c \in Blocks |-> IF c \in {new} THEN None ELSE fat[c]]
  BY <1>1 DEF free_blocks
<1>3. free_blocks(fat, new) \in Tables
  BY <1>2 DEF Tables, Marks
<1>4. /\ \A j \in Files : first[j] \notin {new}
      /\ \A c \in Blocks \ {new} : fat[c] \notin {new}
  BY DEF Unclaimed
<1>5. Owned(first, [c \in Blocks |-> IF c \in {new} THEN None ELSE fat[c]])
  <2> DEFINE only == {new}
  <2>1. /\ only \in SUBSET Blocks
        /\ \A j \in Files : first[j] \notin only
        /\ \A c \in Blocks \ only : fat[c] \notin only
    BY <1>4
  <2> HIDE DEF only
  <2>2. Owned(first, [c \in Blocks |-> IF c \in only THEN None ELSE fat[c]])
    BY <2>1, FreeingKeepsOwned
  <2> QED BY <2>2 DEF only
<1> QED BY <1>2, <1>3, <1>5

\* A taken block becomes the first of an entry.
LEMMA GiveBlock ==
  ASSUME NEW first, NEW fat \in Tables, Owned(first, fat), NEW new,
         new \in Blocks => Unclaimed(first, fat, new) /\ fat[new] # None,
         NEW i \in Files,
         NEW given, \A j \in Files : given[j] = IF j = i THEN new ELSE first[j]
  PROVE  Owned(given, fat)
BY DEF Owned, Unclaimed

\* A free block is linked behind any block, or behind none.
LEMMA LinkBlock ==
  ASSUME NEW first, NEW fat \in Tables, Owned(first, fat), NEW new \in FreeBlocks(fat),
         NEW last
  PROVE  LET grown == [fat EXCEPT ![new] = End, ![last] = new]
         IN  /\ grown \in Tables
             /\ Owned(first, grown)
             /\ \A b \in Blocks \ {new} :
                  Unclaimed(first, fat, b) => Unclaimed(first, grown, b)
             /\ \A b \in Blocks : fat[b] # None => grown[b] # None
BY FreeIsUnclaimed, MarksAreNoBlocks DEF Owned, Unclaimed, Tables, Marks, FreeBlocks

-----------------------------------------------------------------------------
(* Data is written to free blocks, linked in their order.                  *)

LEMMA LinkedValue ==
  ASSUME NEW fat, NEW bs \in SUBSET Blocks, NEW b \in Blocks
  PROVE  /\ b \notin bs => Linked(fat, bs)[b] = fat[b]
         /\ b \in bs => \/ /\ Linked(fat, bs)[b] = End
                           /\ \A c \in bs : c <= b
                        \/ /\ Linked(fat, bs)[b] \in bs /\ Linked(fat, bs)[b] > b
                           /\ \A c \in bs : c > b => c >= Linked(fat, bs)[b]
<1>1. CASE b \notin bs
  BY <1>1 DEF Linked
<1>2. CASE b \in bs /\ \A c \in bs : c <= b
  BY <1>2 DEF Linked
<1>3. CASE b \in bs /\ ~\A c \in bs : c <= b
  <2> DEFINE later == {c \in bs : c > b}
  <2>1. later \subseteq Nat /\ later # {}
    <3>1. bs \subseteq Nat /\ b \in Nat
      BY DEF Blocks
    <3>2. PICK c \in bs : ~(c <= b)
      BY <1>3
    <3>3. c \in later
      BY <3>1, <3>2
    <3> QED BY <3>1, <3>3
  <2>2. Min(later) \in later /\ \A c \in later : Min(later) <= c
    BY <2>1, MinIsLeast
  <2>3. Linked(fat, bs)[b] = Min(later)
    BY <1>3 DEF Linked
  <2> QED BY <1>3, <2>2, <2>3
<1> QED BY <1>1, <1>2, <1>3

LEMMA LinkedKeepsOwned ==
  ASSUME NEW first, NEW fat \in Tables, Owned(first, fat),
         NEW bs \in SUBSET FreeBlocks(fat), NEW i \in Files,
         NEW given, \A j \in Files :
           given[j] = IF j = i THEN (IF bs = {} THEN None ELSE Min(bs)) ELSE first[j]
  PROVE  Linked(fat, bs) \in Tables /\ Owned(given, Linked(fat, bs))
<1> DEFINE new == Linked(fat, bs)
<1>1. bs \subseteq Blocks /\ Blocks \subseteq Nat
  BY DEF FreeBlocks, Blocks
<1>2. \A b \in Blocks :
        /\ b \notin bs => new[b] = fat[b]
        /\ b \in bs => \/ new[b] = End /\ \A c \in bs : c <= b
                       \/ /\ new[b] \in bs /\ new[b] > b
                          /\ \A c \in bs : c > b => c >= new[b]
  BY <1>1, LinkedValue
<1>3. \A b \in bs : Unclaimed(first, fat, b)
  BY FreeIsUnclaimed
<1>4. bs # {} => Min(bs) \in bs /\ \A c \in bs : Min(bs) <= c
  BY <1>1, MinIsLeast
<1>5. new \in Tables
  <2>1. new = [b \in Blocks |-> new[b]]
    BY DEF Linked
  <2>2. \A b \in Blocks : new[b] \in Marks
    BY <1>1, <1>2 DEF Tables, Marks
  <2> HIDE DEF new
  <2> QED BY <2>1, <2>2 DEF Tables
<1> HIDE DEF new
<1>6. \A c, d \in Blocks : new[c] \in Blocks /\ new[c] = new[d] => c = d
  <2> SUFFICES ASSUME NEW c \in Blocks, NEW d \in Blocks,
                      new[c] \in Blocks, new[c] = new[d]
               PROVE  c = d
    OBVIOUS
  <2>1. CASE c \in bs /\ d \in bs
    BY <2>1, <1>1, <1>2, MarksAreNoBlocks
  <2>2. CASE c \in bs /\ d \notin bs
    BY <2>2, <1>2, <1>3, MarksAreNoBlocks DEF Unclaimed
  <2>3. CASE c \notin bs /\ d \in bs
    BY <2>3, <1>2, <1>3, MarksAreNoBlocks DEF Unclaimed
  <2>4. CASE c \notin bs /\ d \notin bs
    BY <2>4, <1>2 DEF Owned
  <2> QED BY <2>1, <2>2, <2>3, <2>4
<1>7. \A c \in Blocks : new[c] \in Blocks => new[new[c]] # None
  BY <1>1, <1>2, MarksAreNoBlocks DEF Owned
<1>8. ASSUME NEW j \in Files, given[j] \in Blocks
      PROVE  /\ new[given[j]] # None
             /\ \A c \in Blocks : new[c] # given[j]
             /\ \A k \in Files : given[k] = given[j] => k = j
  <2>1. CASE j = i
    <3>1. bs # {} /\ given[j] = Min(bs)
      BY <1>8, <2>1, MarksAreNoBlocks
    <3>2. new[Min(bs)] # None
      BY <3>1, <1>1, <1>2, <1>4, MarksAreNoBlocks
    <3>3. ASSUME NEW c \in Blocks, new[c] = Min(bs) PROVE FALSE
      <4>1. Min(bs) \in bs /\ Min(bs) \in Blocks
        BY <3>1, <1>1, <1>4
      <4>2. CASE c \in bs
        <5>1. new[c] > c /\ Min(bs) <= c
          BY <3>1, <3>3, <4>1, <4>2, <1>2, <1>4, MarksAreNoBlocks
        <5>2. c \in Nat /\ Min(bs) \in Nat
          BY <4>1, <1>1
        <5> QED BY <3>3, <5>1, <5>2
      <4>3. CASE c \notin bs
        <5>1. new[c] = fat[c] /\ fat[c] # Min(bs)
          BY <4>1, <4>3, <1>2, <1>3 DEF Unclaimed
        <5> QED BY <3>3, <5>1
      <4> QED BY <4>2, <4>3
    <3>4. \A k \in Files : k # i => given[k] # Min(bs)
      BY <3>1, <1>3, <1>4 DEF Unclaimed
    <3> QED BY <2>1, <3>1, <3>2, <3>3, <3>4
  <2>2. CASE j # i
    <3>1. given[j] = first[j] /\ first[j] \notin bs
      BY <1>3, <2>2 DEF Unclaimed
    <3>2. new[first[j]] # None
      BY <1>2, <1>8, <3>1 DEF Owned
    <3>3. \A c \in Blocks : new[c] # first[j]
      BY <1>2, <1>8, <3>1, MarksAreNoBlocks DEF Owned
    <3>4. \A k \in Files : given[k] = first[j] => k = j
      BY <1>4, <1>8, <2>2, <3>1, MarksAreNoBlocks DEF Owned
    <3> QED BY <3>1, <3>2, <3>3, <3>4
  <2> QED BY <2>1, <2>2
<1>9. Owned(given, new)
  BY <1>6, <1>7, <1>8 DEF Owned
<1> QED BY <1>5, <1>9 DEF new

-----------------------------------------------------------------------------
(* States of the buffer.                                                   *)

FirstBlocks(s) == [i \in Files |-> s.files[i].first_block]

\* What the calls need of the buffer's shape.
Shape(s) ==
  /\ DOMAIN s = {"files", "num_files", "fat", "block"}
  /\ DOMAIN s.files = Files
  /\ \A i \in Files : "first_block" \in DOMAIN s.files[i]
  /\ s.fat \in Tables

Good(s) == Shape(s) /\ Owned(FirstBlocks(s), s.fat)

LEMMA ShapeOfFat ==
  ASSUME NEW s, Shape(s), NEW fat \in Tables
  PROVE  LET t == [s EXCEPT !.fat = fat]
         IN  Shape(t) /\ FirstBlocks(t) = FirstBlocks(s) /\ t.fat = fat
BY DEF Shape, FirstBlocks

\* The counting form of Owned.
LEMMA GoodIsOneOwner == ASSUME Good(fs) PROVE BlocksHaveOneOwner
<1> SUFFICES ASSUME NEW b \in Blocks
             PROVE  LET owners == {i \in Files : fs.files[i].first_block = b}
                        links  == {c \in Blocks : fs.fat[c] = b}
                    IN  /\ Cardinality(owners) + Cardinality(links) <= 1
                        /\ owners \cup links # {} => fs.fat[b] # None
  BY DEF BlocksHaveOneOwner
<1> DEFINE owners == {i \in Files : fs.files[i].first_block = b}
           links  == {c \in Blocks : fs.fat[c] = b}
<1>1. \A i \in Files : fs.files[i].first_block = FirstBlocks(fs)[i]
  BY DEF FirstBlocks
<1>2. \A i, j \in owners : i = j
  BY <1>1 DEF Good, Owned
<1>3. \A c, d \in links : c = d
  BY DEF Good, Owned
<1>4. owners = {} \/ links = {}
  BY <1>1 DEF Good, Owned
<1>5. owners \cup links # {} => fs.fat[b] # None
  BY <1>1 DEF Good, Owned
<1> HIDE DEF owners, links
<1>6. \A S : (\A x, y \in S : x = y) => S = {} \/ \E x : S = {x}
  OBVIOUS
<1>7. \A S : S = {} => Cardinality(S) = 0
  BY FS_EmptySet
<1>8. \A S : (\E x : S = {x}) => Cardinality(S) = 1
  BY FS_Singleton
<1>9. Cardinality(owners) \in {0, 1} /\ Cardinality(links) \in {0, 1}
  BY <1>2, <1>3, <1>6, <1>7, <1>8
<1>10. Cardinality(owners) = 0 \/ Cardinality(links) = 0
  BY <1>4, <1>7
<1> QED BY <1>5, <1>9, <1>10 DEF owners, links

LEMMA FirstIndices == 0 \in Files /\ 1 \in Blocks
<1>1. MaxFiles \in 1 .. 255
  BY FileSystemAssumption
<1>2. MaxBlocks \in 2 .. 65534
  BY FileSystemAssumption
<1>3. 0 \in 0 .. MaxFiles - 1
  BY <1>1
<1>4. 1 \in 1 .. MaxBlocks - 1
  BY <1>2
<1> QED BY <1>3, <1>4 DEF Files, Blocks

LEMMA InitGood == Init => Good(fs)
<1> SUFFICES ASSUME Init PROVE Good(fs) OBVIOUS
<1>1. 0 \in Files /\ 1 \in Blocks
  BY FirstIndices
<1>2. fs.fat = [b \in Blocks |-> IF b = 1 THEN End ELSE None]
  BY DEF Init
<1>3. /\ DOMAIN fs = {"files", "num_files", "fat", "block"}
      /\ DOMAIN fs.files = Files
      /\ \A i \in Files : /\ "first_block" \in DOMAIN fs.files[i]
                         /\ fs.files[i].first_block = IF i = 0 THEN 1 ELSE None
  BY DEF Init, ClearedEntry
<1>4. fs.fat \in Tables
  BY <1>2 DEF Tables, Marks
<1>5. \A i \in Files : FirstBlocks(fs)[i] = IF i = 0 THEN 1 ELSE None
  BY <1>3 DEF FirstBlocks
<1>6. Owned(FirstBlocks(fs), fs.fat)
  BY <1>1, <1>2, <1>5, MarksAreNoBlocks DEF Owned
<1> QED BY <1>3, <1>4, <1>6 DEF Good, Shape

-----------------------------------------------------------------------------
(* The calls.                                                              *)

LEMMA MinOfFree ==
  /\ \A fat : FreeBlocks(fat) # {} => Min(FreeBlocks(fat)) \in FreeBlocks(fat)
  /\ \A s : FreeEntries(s) # {} => Min(FreeEntries(s)) \in Files
<1>1. \A fat : FreeBlocks(fat) \subseteq Nat
  BY DEF FreeBlocks, Blocks
<1>2. \A s : FreeEntries(s) \subseteq Nat /\ FreeEntries(s) \subseteq Files
  BY DEF FreeEntries, Files
<1> QED BY <1>1, <1>2, MinIsLeast

\* A new child changes the table only where the directory grows.
LEMMA AddChildGood ==
  ASSUME NEW s, Good(s), NEW d, NEW child, CanAddChild(s, d)
  PROVE  LET t == add_child_to_directory(s, d, child)
         IN  /\ Good(t) /\ FirstBlocks(t) = FirstBlocks(s)
             /\ \A b \in Blocks :
                  Unclaimed(FirstBlocks(s), s.fat, b) /\ s.fat[b] # None
                    => Unclaimed(FirstBlocks(s), t.fat, b) /\ t.fat[b] # None
<1> DEFINE slots == SlotsOf(s, d)
           holes == {k \in DOMAIN slots : slots[k] = NoParent}
           chain == Chain(s.fat, s.files[d].first_block)
           new   == Min(FreeBlocks(s.fat))
           t     == add_child_to_directory(s, d, child)
<1>1. CASE holes # {}
  <2>1. t = SetSlot(s, d, Min(holes), child)
    BY <1>1 DEF add_child_to_directory
  <2>2. /\ DOMAIN t = DOMAIN s /\ t.files = s.files /\ t.fat = s.fat
    BY <2>1 DEF SetSlot, Good, Shape
  <2> HIDE DEF t
  <2>3. Good(t) /\ FirstBlocks(t) = FirstBlocks(s)
    BY <2>2 DEF Good, Shape, FirstBlocks
  <2> QED BY <2>2, <2>3 DEF t
<1>2. CASE holes = {}
  <2> DEFINE last == chain[Len(chain)]
             grown == [s.fat EXCEPT ![new] = End, ![last] = new]
  <2>1. new \in FreeBlocks(s.fat)
    BY <1>2, MinOfFree DEF CanAddChild
  <2>2. t = [s EXCEPT !.fat[new] = End, !.fat[last] = new,
                      !.block[new] = [NoChildren EXCEPT ![1] = child]]
    BY <1>2 DEF add_child_to_directory
  <2> HIDE DEF last, new, slots, holes, chain
  <2>3. /\ DOMAIN t = DOMAIN s /\ t.files = s.files /\ t.fat = grown
    BY <2>2 DEF Good, Shape
  <2>4. /\ grown \in Tables
        /\ Owned(FirstBlocks(s), grown)
        /\ \A b \in Blocks \ {new} : Unclaimed(FirstBlocks(s), s.fat, b)
              => Unclaimed(FirstBlocks(s), grown, b)
        /\ \A b \in Blocks : s.fat[b] # None => grown[b] # None
    BY <2>1, LinkBlock DEF Good, Shape
  <2>5. s.fat[new] = None
    BY <2>1 DEF FreeBlocks
  <2> HIDE DEF t, grown
  <2>6. Good(t) /\ FirstBlocks(t) = FirstBlocks(s)
    BY <2>3, <2>4 DEF Good, Shape, FirstBlocks
  <2> QED BY <2>3, <2>4, <2>5, <2>6 DEF t
<1> QED BY <1>1, <1>2

\* A new entry with no block, or with one that nobody claims.
LEMMA EnterGood ==
  ASSUME NEW s, Good(s), NEW i \in Files, NEW p, NEW d, NEW is_directory, NEW new,
         new \in Blocks => Unclaimed(FirstBlocks(s), s.fat, new) /\ s.fat[new] # None
  PROVE  Good(Enter(s, i, p, d, is_directory, new))
<1> DEFINE t == Enter(s, i, p, d, is_directory, new)
<1>1. /\ DOMAIN t = DOMAIN s /\ DOMAIN t.files = DOMAIN s.files /\ t.fat = s.fat
      /\ \A j \in Files : /\ "first_block" \in DOMAIN t.files[j]
                         /\ t.files[j].first_block =
                              IF j = i THEN new ELSE s.files[j].first_block
  BY DEF Enter, Good, Shape
<1> HIDE DEF t
<1>2. \A j \in Files : FirstBlocks(t)[j] = IF j = i THEN new ELSE FirstBlocks(s)[j]
  BY <1>1 DEF FirstBlocks
<1>3. Owned(FirstBlocks(t), t.fat)
  BY <1>1, <1>2, GiveBlock DEF Good, Shape
<1> QED BY <1>1, <1>3 DEF Good, Shape, t

LEMMA CreateFileGood ==
  ASSUME Good(fs), NEW p, fs_create_file(p) PROVE Good(fs')
<1> DEFINE d == find_entry(fs, ParentPath(p))
           i == Min(FreeEntries(fs))
<1>1. CASE fs' = fs
  BY <1>1
<1>2. CASE /\ FreeEntries(fs) # {} /\ CanAddChild(fs, d)
           /\ fs' = Enter(add_child_to_directory(fs, d, i), i, p, d, FALSE, None)
  <2>1. Good(add_child_to_directory(fs, d, i))
    BY <1>2, AddChildGood
  <2>2. i \in Files
    BY <1>2, MinOfFree
  <2> QED BY <1>2, <2>1, <2>2, EnterGood, MarksAreNoBlocks
<1> QED BY <1>1, <1>2 DEF fs_create_file, Return, Become, Creatable

LEMMA CreateDirectoryGood ==
  ASSUME Good(fs), NEW p, fs_create_directory(p) PROVE Good(fs')
<1> DEFINE d == find_entry(fs, ParentPath(p))
           i == Min(FreeEntries(fs))
           new == Min(FreeBlocks(fs.fat))
           taken == [fs EXCEPT !.fat[new] = End, !.block[new] = NoChildren]
<1>1. CASE fs' = fs
  BY <1>1
<1>2. CASE FreeEntries(fs) # {} /\ FreeBlocks(fs.fat) # {}
           /\ \/ /\ CanAddChild(taken, d)
                 /\ fs' = Enter(add_child_to_directory(taken, d, i), i, p, d, TRUE, new)
              \/ fs' = [taken EXCEPT !.fat = free_blocks(@, new)]
  <2>1. new \in FreeBlocks(fs.fat) /\ new \in Blocks /\ i \in Files
    BY <1>2, MinOfFree DEF FreeBlocks
  <2> HIDE DEF new, i, d
  <2>2. /\ DOMAIN taken = DOMAIN fs /\ taken.files = fs.files
        /\ taken.fat = [fs.fat EXCEPT ![new] = End]
    BY DEF Good, Shape
  <2> HIDE DEF taken
  <2>3. FirstBlocks(taken) = FirstBlocks(fs)
    BY <2>2 DEF FirstBlocks
  <2>4. /\ taken.fat \in Tables /\ Owned(FirstBlocks(taken), taken.fat)
        /\ Unclaimed(FirstBlocks(taken), taken.fat, new)
    BY <2>1, <2>2, <2>3, TakeBlock DEF Good, Shape
  <2>5. taken.fat[new] = End
    BY <2>1, <2>2 DEF Good, Shape, Tables
  <2>6. Good(taken)
    BY <2>2, <2>4 DEF Good, Shape
  <2>7. CASE CanAddChild(taken, d)
             /\ fs' = Enter(add_child_to_directory(taken, d, i), i, p, d, TRUE, new)
    <3> DEFINE grown == add_child_to_directory(taken, d, i)
    <3>1. /\ Good(grown) /\ FirstBlocks(grown) = FirstBlocks(taken)
          /\ Unclaimed(FirstBlocks(grown), grown.fat, new) /\ grown.fat[new] # None
      BY <2>1, <2>4, <2>5, <2>6, <2>7, AddChildGood, MarksAreNoBlocks
    <3> HIDE DEF grown
    <3>2. Good(Enter(grown, i, p, d, TRUE, new))
      BY <2>1, <3>1, EnterGood
    <3> QED BY <2>7, <3>2 DEF grown
  <2>8. CASE fs' = [taken EXCEPT !.fat = free_blocks(@, new)]
    <3>1. /\ free_blocks(taken.fat, new) \in Tables
          /\ Owned(FirstBlocks(taken), free_blocks(taken.fat, new))
      BY <2>1, <2>4, <2>5, UndoTake
    <3>2. fs' = [taken EXCEPT !.fat = free_blocks(taken.fat, new)]
      BY <2>8
    <3> QED BY <2>6, <3>1, <3>2, ShapeOfFat DEF Good
  <2> QED BY <1>2, <2>7, <2>8
<1> QED BY <1>1, <1>2 DEF fs_create_directory, Return, Become, Creatable

\* Clearing a slot of a directory changes no table.
LEMMA RemoveChildKeeps ==
  ASSUME NEW s, Shape(s), NEW d, NEW child
  PROVE  LET t == remove_child_from_directory(s, d, child)
         IN  DOMAIN t = DOMAIN s /\ t.files = s.files /\ t.fat = s.fat
BY DEF remove_child_from_directory, SetSlot, Shape

LEMMA DeleteGood ==
  ASSUME Good(fs), NEW p, fs_delete_file(p) PROVE Good(fs')
<1> DEFINE i == find_entry(fs, p)
           s == remove_child_from_directory(fs, FoundParent(fs, p), i)
           left == free_blocks(fs.fat, fs.files[i].first_block)
<1>1. CASE fs' = fs
  BY <1>1
<1>2. CASE /\ Deletable(i)
           /\ fs' = [s EXCEPT !.fat = free_blocks(@, fs.files[i].first_block),
                              !.files[i] = ClearedEntry, !.num_files = @ - 1]
  <2>1. i \in Files
    BY <1>2 DEF Deletable
  <2>2. DOMAIN s = DOMAIN fs /\ s.files = fs.files /\ s.fat = fs.fat
    BY RemoveChildKeeps DEF Good
  <2> HIDE DEF i, s
  <2>3. /\ DOMAIN fs' = DOMAIN fs /\ DOMAIN fs'.files = Files /\ fs'.fat = left
        /\ \A j \in Files : /\ "first_block" \in DOMAIN fs'.files[j]
                           /\ fs'.files[j].first_block =
                                IF j = i THEN None ELSE fs.files[j].first_block
    BY <1>2, <2>1, <2>2 DEF Good, Shape, ClearedEntry
  <2>4. \A j \in Files :
          FirstBlocks(fs')[j] = IF j = i THEN None ELSE FirstBlocks(fs)[j]
    BY <2>3 DEF FirstBlocks
  <2>5. fs.files[i].first_block = FirstBlocks(fs)[i]
    BY <2>1 DEF FirstBlocks
  <2>6. left \in Tables /\ Owned(FirstBlocks(fs'), left)
    BY <2>1, <2>4, <2>5, FreeChain DEF Good, Shape
  <2> QED BY <2>3, <2>6 DEF Good, Shape
<1> QED BY <1>1, <1>2 DEF fs_delete_file, Return, Become

LEMMA WriteGood ==
  ASSUME Good(fs), NEW p, NEW content, fs_write_file(p, content) PROVE Good(fs')
<1> DEFINE i    == find_entry(fs, p)
           left == free_blocks(fs.fat, fs.files[i].first_block)
           bs   == allocate_block(left, Len(content))
           rest == [j \in Files |-> IF j = i THEN None ELSE FirstBlocks(fs)[j]]
           data == [b \in Blocks |->
                      IF b \in bs THEN content[1 + Cardinality({c \in bs : c < b})]
                                  ELSE fs.block[b]]
<1>1. CASE fs' = fs
  BY <1>1
<1>2. ASSUME IsFile(fs, i)
      PROVE  /\ i \in Files /\ left \in Tables /\ Owned(rest, left)
             /\ bs \subseteq FreeBlocks(left)
  <2>1. i \in Files
    BY <1>2 DEF IsFile
  <2> HIDE DEF i
  <2>2. fs.files[i].first_block = FirstBlocks(fs)[i]
    BY <2>1 DEF FirstBlocks
  <2>3. \A j \in Files : rest[j] = IF j = i THEN None ELSE FirstBlocks(fs)[j]
    OBVIOUS
  <2> HIDE DEF rest
  <2>4. left \in Tables /\ Owned(rest, left)
    BY <2>1, <2>2, <2>3, FreeChain DEF Good, Shape
  <2>5. bs \subseteq FreeBlocks(left)
    BY DEF allocate_block
  <2> QED BY <2>1, <2>4, <2>5
<1>3. CASE IsFile(fs, i) /\ fs' = FailedWrite(i, left)
  <2>1. i \in Files /\ left \in Tables /\ Owned(rest, left)
    BY <1>2, <1>3
  <2> HIDE DEF i, left
  <2>2. fs' = [fs EXCEPT !.fat = left, !.files[i].first_block = None]
    BY <1>3 DEF FailedWrite
  <2>3. /\ DOMAIN fs' = DOMAIN fs /\ DOMAIN fs'.files = Files /\ fs'.fat = left
        /\ \A j \in Files : /\ "first_block" \in DOMAIN fs'.files[j]
                           /\ fs'.files[j].first_block =
                                IF j = i THEN None ELSE fs.files[j].first_block
    BY <2>1, <2>2 DEF Good, Shape
  <2>4. FirstBlocks(fs') = rest
    BY <2>3 DEF FirstBlocks
  <2> HIDE DEF rest
  <2> QED BY <2>1, <2>3, <2>4 DEF Good, Shape
<1>4. CASE /\ IsFile(fs, i)
           /\ fs' = [fs EXCEPT
                       !.fat = Linked(left, bs), !.block = data,
                       !.files[i].first_block = IF bs = {} THEN None ELSE Min(bs),
                       !.files[i].size = Len(content)]
  <2>1. /\ i \in Files /\ left \in Tables /\ Owned(rest, left)
        /\ bs \subseteq FreeBlocks(left)
    BY <1>2, <1>4
  <2> HIDE DEF i, left, bs, data
  <2> DEFINE b == IF bs = {} THEN None ELSE Min(bs)
  <2>2. /\ DOMAIN fs' = DOMAIN fs /\ DOMAIN fs'.files = Files
        /\ fs'.fat = Linked(left, bs)
        /\ \A j \in Files : /\ "first_block" \in DOMAIN fs'.files[j]
                           /\ fs'.files[j].first_block =
                                IF j = i THEN b ELSE fs.files[j].first_block
    BY <1>4, <2>1 DEF Good, Shape
  <2>3. \A j \in Files : FirstBlocks(fs')[j] = IF j = i THEN b ELSE rest[j]
    BY <2>2 DEF FirstBlocks
  <2> HIDE DEF rest
  <2>4. Linked(left, bs) \in Tables /\ Owned(FirstBlocks(fs'), Linked(left, bs))
    BY <2>1, <2>3, LinkedKeepsOwned
  <2> QED BY <2>2, <2>4 DEF Good, Shape
<1> QED BY <1>1, <1>3, <1>4 DEF fs_write_file, Return, Become

-----------------------------------------------------------------------------
(* The theorem.                                                            *)

GoodState == Good(fs)

LEMMA NextGood == GoodState /\ [Next]_vars => GoodState'
<1> SUFFICES ASSUME Good(fs), [Next]_vars PROVE Good(fs') BY DEF GoodState
<1>1. CASE fs_init
  <2>1. PICK chunk \in Chunks : SampleCall(chunk)
    BY <1>1 DEF fs_init
  <2>2. \/ fs' = fs
        \/ \E p : fs_create_file(p) \/ fs_create_directory(p)
        \/ \E p, content : fs_write_file(p, content)
    BY <2>1 DEF SampleCall, IfDone
  <2> QED BY <2>2, CreateFileGood, CreateDirectoryGood, WriteGood
<1>2. CASE Call
  BY <1>2, CreateFileGood, CreateDirectoryGood, DeleteGood, WriteGood DEF Call
<1>3. CASE UNCHANGED vars
  BY <1>3 DEF vars
<1> QED BY <1>1, <1>2, <1>3 DEF Next

\* No two files share a block, no chain joins another or comes back to itself,
\* and nothing leads to a free block, after any sequence of calls.
THEOREM OneOwnerCorrect == Spec => []BlocksHaveOneOwner
<1>1. Init => GoodState
  BY InitGood DEF GoodState
<1>2. GoodState => BlocksHaveOneOwner
  BY GoodIsOneOwner DEF GoodState
<1> QED BY <1>1, <1>2, NextGood, PTL DEF Spec

-----------------------------------------------------------------------------
(* Chains block by block: the walk along the table, what of it belongs to  *)
(* an entry, and how a chain that is linked, cut or extended looks.        *)

\* What a walk is: at[i] comes after at[i - 1], for as long as there are blocks.
Walks(fat, b, n, at) ==
  at = [i \in 1 .. n |->
          IF i = 1 THEN b ELSE IF at[i - 1] \in Blocks THEN fat[at[i - 1]] ELSE None]

\* There is such a walk.
LEMMA WalksOfEveryLength ==
  ASSUME NEW fat, NEW b, NEW n \in Nat \ {0} PROVE \E at : Walks(fat, b, n, at)
<1> DEFINE none == {m \in Nat \ {0} : \A at : ~Walks(fat, b, m, at)}
<1> SUFFICES ASSUME none # {} PROVE FALSE OBVIOUS
<1>1. PICK m \in none : \A k \in none : m <= k
  BY LeastExists
<1>2. CASE m = 1
  <2>1. Walks(fat, b, 1, [i \in 1 .. 1 |-> b])
    BY DEF Walks
  <2> QED BY <1>1, <1>2, <2>1
<1>3. CASE m # 1
  <2>1. m - 1 \in Nat \ {0} /\ m - 1 \notin none /\ m \in Nat
    BY <1>1, <1>3
  <2>2. PICK at : Walks(fat, b, m - 1, at)
    BY <2>1
  <2> DEFINE next == IF at[m - 1] \in Blocks THEN fat[at[m - 1]] ELSE None
             longer == [i \in 1 .. m |-> IF i < m THEN at[i] ELSE next]
  <2>3. Walks(fat, b, m, longer)
    <3>1. /\ \A i \in 1 .. m - 1 : longer[i] = at[i] /\ i < m
          /\ longer[m] = next
      BY <2>1
    <3>2. longer = [i \in 1 .. m |-> longer[i]]
      OBVIOUS
    <3>3. ASSUME NEW i \in 1 .. m
          PROVE  longer[i] = IF i = 1 THEN b ELSE IF longer[i - 1] \in Blocks
                               THEN fat[longer[i - 1]] ELSE None
      <4>1. CASE i < m
        <5>1. i \in 1 .. m - 1 /\ (i # 1 => i - 1 \in 1 .. m - 1)
          BY <4>1, <2>1
        <5>2. at[i] = IF i = 1 THEN b ELSE IF at[i - 1] \in Blocks
                                THEN fat[at[i - 1]] ELSE None
          BY <5>1, <2>2 DEF Walks
        <5> HIDE DEF longer
        <5> QED BY <5>1, <5>2, <3>1
      <4>2. CASE i = m
        BY <4>2, <1>3, <2>1, <3>1
      <4> QED BY <2>1, <4>1, <4>2
    <3> HIDE DEF longer
    <3> QED BY <3>2, <3>3 DEF Walks
  <2> QED BY <1>1, <2>3
<1> QED BY <1>2, <1>3

LEMMA SizeOfDisk == MaxBlocks \in Nat /\ MaxBlocks >= 2
BY FileSystemAssumption

\* Walk follows the table, block by block.
LEMMA WalkSteps ==
  ASSUME NEW fat, NEW b
  PROVE  /\ Walk(fat, b)[1] = b
         /\ \A i \in 1 .. MaxBlocks - 1 :
              Walk(fat, b)[i + 1] = IF Walk(fat, b)[i] \in Blocks
                                      THEN fat[Walk(fat, b)[i]] ELSE None
<1>1. Walk(fat, b) = CHOOSE at : Walks(fat, b, MaxBlocks, at)
  BY DEF Walk, Walks
<1>2. Walks(fat, b, MaxBlocks, Walk(fat, b))
  BY <1>1, SizeOfDisk, WalksOfEveryLength
<1>3. \A i \in 1 .. MaxBlocks - 1 :
        i + 1 \in 1 .. MaxBlocks /\ i + 1 # 1 /\ (i + 1) - 1 = i
  BY SizeOfDisk
<1>4. 1 \in 1 .. MaxBlocks
  BY SizeOfDisk
<1> QED BY <1>2, <1>3, <1>4 DEF Walks

\* Once it has left the blocks it does not come back.
LEMMA WalkEnds ==
  ASSUME NEW fat, NEW b
  PROVE  \E m \in 0 .. MaxBlocks :
           {j \in 1 .. MaxBlocks : Walk(fat, b)[j] \in Blocks} = 1 .. m
<1> DEFINE at  == Walk(fat, b)
           on  == {j \in 1 .. MaxBlocks : at[j] \in Blocks}
           off == {j \in 1 .. MaxBlocks : at[j] \notin Blocks}
<1>1. CASE off = {}
  BY <1>1, SizeOfDisk
<1>2. CASE off # {}
  <2>1. PICK m \in off : \A j \in off : m <= j
    <3>1. off \subseteq Nat
      BY SizeOfDisk
    <3> QED BY <1>2, <3>1, LeastExists
  <2>2. ASSUME NEW j \in on, j > m PROVE FALSE
    <3> DEFINE back == {i \in on : i > m}
    <3>1. PICK i \in back : \A k \in back : i <= k
      <4>1. back \subseteq Nat /\ j \in back
        BY SizeOfDisk, <2>2
      <4> HIDE DEF back
      <4> QED BY <4>1, LeastExists
    <3>2. /\ i - 1 \in 1 .. MaxBlocks - 1 /\ i - 1 \notin back /\ i - 1 >= m
          /\ i = (i - 1) + 1
      BY <2>1, <3>1, SizeOfDisk
    <3>3. at[i - 1] \notin Blocks
      <4>1. i - 1 \in 1 .. MaxBlocks /\ (i - 1 = m \/ i - 1 > m)
        BY <2>1, <3>2, SizeOfDisk
      <4>2. at[m] \notin Blocks
        BY <2>1
      <4> QED BY <3>2, <4>1, <4>2
    <3>4. at[i] = None
      BY <3>2, <3>3, WalkSteps
    <3> QED BY <3>1, <3>4, MarksAreNoBlocks
  <2>3. on = 1 .. m - 1
    BY <2>1, <2>2, SizeOfDisk
  <2> QED BY <2>1, <2>3, SizeOfDisk
<1> QED BY <1>1, <1>2

\* A chain is a sequence of blocks, each linked to the next.
LEMMA ChainShape ==
  ASSUME NEW fat, NEW b
  PROVE  LET q == Chain(fat, b)
         IN  /\ q \in Seq(Blocks) /\ Len(q) \in 0 .. MaxBlocks
             /\ DOMAIN q = 1 .. Len(q)
             /\ \A i \in 1 .. Len(q) : q[i] \in Blocks
             /\ b \in Blocks <=> Len(q) > 0
             /\ b \in Blocks => q[1] = b
             /\ \A i \in 1 .. Len(q) - 1 : q[i + 1] = fat[q[i]]
             /\ Len(q) > 0 /\ Len(q) < MaxBlocks => fat[q[Len(q)]] \notin Blocks
<1> DEFINE at == Walk(fat, b)
           q  == Chain(fat, b)
<1>1. PICK m \in 0 .. MaxBlocks : {j \in 1 .. MaxBlocks : at[j] \in Blocks} = 1 .. m
  BY WalkEnds
<1>2. m \in Nat /\ m <= MaxBlocks /\ MaxBlocks \in Nat
  BY SizeOfDisk
<1>3. Cardinality(1 .. m) = m
  BY <1>2, FS_Interval
<1>4. q = [i \in 1 .. m |-> at[i]]
  BY <1>1, <1>3 DEF Chain
<1>5. \A i \in 1 .. m : at[i] \in Blocks
  BY <1>1
<1>6. m < MaxBlocks => at[m + 1] \notin Blocks
  BY <1>1, <1>2
<1> HIDE DEF at, q
<1>7. q \in Seq(Blocks) /\ Len(q) = m
  BY <1>2, <1>4, <1>5
<1>8. /\ at[1] = b
      /\ \A i \in 1 .. MaxBlocks - 1 :
           at[i + 1] = IF at[i] \in Blocks THEN fat[at[i]] ELSE None
  BY WalkSteps DEF at
<1>9. b \in Blocks <=> m > 0
  <2>1. m > 0 => 1 \in 1 .. m
    BY <1>2
  <2>2. m = 0 => b \notin Blocks
    BY <1>6, <1>8, SizeOfDisk
  <2> QED BY <1>2, <1>5, <1>8, <2>1, <2>2
<1>10. \A i \in 1 .. m - 1 : q[i + 1] = fat[q[i]]
  BY <1>2, <1>4, <1>5, <1>8
<1>11. m > 0 /\ m < MaxBlocks => fat[q[m]] \notin Blocks
  BY <1>2, <1>4, <1>5, <1>6, <1>8
<1>12. m > 0 => q[1] = b
  BY <1>2, <1>4, <1>8
<1>13. \A i \in 1 .. m : q[i] \in Blocks
  BY <1>4, <1>5
<1>14. DOMAIN q = 1 .. m
  BY <1>4
<1> QED BY <1>2, <1>7, <1>9, <1>10, <1>11, <1>12, <1>13, <1>14 DEF q

\* Whatever sequence has this shape is the chain.
LEMMA ChainIsUnique ==
  ASSUME NEW fat, NEW b, NEW m \in 0 .. MaxBlocks - 1, NEW q \in [1 .. m -> Blocks],
         m = 0 => b \notin Blocks,
         m > 0 => q[1] = b /\ fat[q[m]] \notin Blocks,
         \A i \in 1 .. m - 1 : q[i + 1] = fat[q[i]]
  PROVE  Chain(fat, b) = q /\ Len(Chain(fat, b)) = m
<1> DEFINE c == Chain(fat, b)
<1>1. /\ Len(c) \in 0 .. MaxBlocks /\ DOMAIN c = 1 .. Len(c) /\ c \in Seq(Blocks)
      /\ \A i \in 1 .. Len(c) : c[i] \in Blocks
      /\ b \in Blocks <=> Len(c) > 0
      /\ b \in Blocks => c[1] = b
      /\ \A i \in 1 .. Len(c) - 1 : c[i + 1] = fat[c[i]]
      /\ Len(c) > 0 /\ Len(c) < MaxBlocks => fat[c[Len(c)]] \notin Blocks
  BY ChainShape
<1>2. m \in Nat /\ m < MaxBlocks /\ MaxBlocks \in Nat /\ Len(c) \in Nat
  BY <1>1, SizeOfDisk
<1> HIDE DEF c
<1>3. \A i \in 1 .. m : i <= Len(c) /\ c[i] = q[i]
  <2> DEFINE bad == {i \in 1 .. m : ~(i <= Len(c) /\ c[i] = q[i])}
  <2> SUFFICES ASSUME bad # {} PROVE FALSE OBVIOUS
  <2>1. PICK i \in bad : \A j \in bad : i <= j
    <3>1. bad \subseteq Nat OBVIOUS
    <3> HIDE DEF bad
    <3> QED BY <3>1, LeastExists
  <2>2. i # 1
    BY <1>1, <1>2, <2>1
  <2>3. /\ i - 1 \in 1 .. m - 1 /\ i - 1 \notin bad /\ (i - 1) + 1 = i
        /\ i \in Nat
    BY <2>1, <2>2
  <2>4. i - 1 <= Len(c) /\ c[i - 1] = q[i - 1]
    BY <2>3, <1>2
  <2>5. q[i] = fat[q[i - 1]] /\ q[i] \in Blocks
    BY <2>1, <2>3
  <2>6. CASE Len(c) = i - 1
    BY <2>6, <2>3, <2>4, <2>5, <1>1, <1>2
  <2>7. CASE Len(c) > i - 1
    <3>1. i - 1 \in 1 .. Len(c) - 1 /\ i <= Len(c)
      BY <2>3, <2>7, <1>2
    <3>2. c[i] = fat[c[i - 1]]
      BY <3>1, <2>3, <1>1
    <3> QED BY <2>1, <2>4, <2>5, <3>1, <3>2
  <2> QED BY <1>2, <2>3, <2>4, <2>6, <2>7
<1>4. Len(c) <= m
  <2> SUFFICES ASSUME Len(c) > m PROVE FALSE BY <1>2
  <2>1. CASE m = 0
    BY <2>1, <1>1, <1>2
  <2>2. CASE m > 0
    <3>1. c[m + 1] = fat[c[m]] /\ c[m + 1] \in Blocks /\ c[m] = q[m]
      BY <1>1, <1>2, <1>3, <2>2
    <3> QED BY <2>2, <3>1
  <2> QED BY <1>2, <2>1, <2>2
<1>5. Len(c) = m
  BY <1>2, <1>3, <1>4
<1> QED BY <1>1, <1>3, <1>5 DEF c

\* There are fewer blocks than MaxBlocks.
LEMMA DistinctBlocks ==
  ASSUME NEW m \in Nat, NEW q \in [1 .. m -> Blocks],
         \A i, j \in 1 .. m : q[i] = q[j] => i = j
  PROVE  m < MaxBlocks
<1>1. IsFiniteSet(Blocks) /\ Cardinality(Blocks) = MaxBlocks - 1
  BY SizeOfDisk, FS_Interval DEF Blocks
<1>2. IsFiniteSet(1 .. m) /\ Cardinality(1 .. m) = m
  BY FS_Interval
<1>3. ~(Cardinality(Blocks) < Cardinality(1 .. m))
  BY <1>1, <1>2, FS_PigeonHole
<1> QED BY <1>1, <1>2, <1>3, SizeOfDisk

\* An entry's chain comes to no block twice, and all its blocks are allocated.
LEMMA EntryChain ==
  ASSUME NEW first, NEW fat, Owned(first, fat), NEW i \in Files
  PROVE  LET q == Chain(fat, first[i])
         IN  /\ \A k, l \in 1 .. Len(q) : q[k] = q[l] => k = l
             /\ \A k \in 1 .. Len(q) : fat[q[k]] # None
             /\ Len(q) < MaxBlocks
             /\ Len(q) > 0 => fat[q[Len(q)]] \notin Blocks
<1> DEFINE q == Chain(fat, first[i])
<1>1. /\ Len(q) \in 0 .. MaxBlocks /\ q \in Seq(Blocks)
      /\ \A k \in 1 .. Len(q) : q[k] \in Blocks
      /\ first[i] \in Blocks <=> Len(q) > 0
      /\ first[i] \in Blocks => q[1] = first[i]
      /\ \A k \in 1 .. Len(q) - 1 : q[k + 1] = fat[q[k]]
      /\ Len(q) > 0 /\ Len(q) < MaxBlocks => fat[q[Len(q)]] \notin Blocks
  BY ChainShape
<1> HIDE DEF q
<1>2. Len(q) \in Nat
  BY <1>1, SizeOfDisk
<1>3. \A k \in 1 .. Len(q) :
        \/ k = 1 /\ q[k] = first[i] /\ first[i] \in Blocks
        \/ /\ k - 1 \in 1 .. Len(q) - 1 /\ k - 1 \in 1 .. Len(q)
           /\ q[k] = fat[q[k - 1]]
  <2> SUFFICES ASSUME NEW k \in 1 .. Len(q), k # 1
               PROVE  /\ k - 1 \in 1 .. Len(q) - 1 /\ k - 1 \in 1 .. Len(q)
                      /\ q[k] = fat[q[k - 1]]
    BY <1>1, <1>2
  <2>1. k - 1 \in 1 .. Len(q) - 1 /\ k - 1 \in 1 .. Len(q) /\ (k - 1) + 1 = k
    BY <1>2
  <2> QED BY <2>1, <1>1
<1>4. ASSUME NEW k \in 1 .. Len(q), NEW l \in 1 .. Len(q), q[k] = q[l], k # l
      PROVE  FALSE
  <2> DEFINE twice == {n \in 1 .. Len(q) : \E m \in 1 .. Len(q) : n < m /\ q[n] = q[m]}
  <2>1. twice # {} /\ twice \subseteq Nat
    BY <1>2, <1>4
  <2>2. PICK n \in twice : \A m \in twice : n <= m
    <3> HIDE DEF twice
    <3> QED BY <2>1, LeastExists
  <2>3. PICK m \in 1 .. Len(q) : n < m /\ q[n] = q[m]
    BY <2>2
  <2>4. n \in 1 .. Len(q) /\ n \in Nat /\ m \in Nat /\ m # 1
    BY <2>3
  <2>5. m - 1 \in 1 .. Len(q) /\ q[m] = fat[q[m - 1]]
    BY <1>3, <2>4
  <2>6. CASE n = 1
    BY <1>1, <1>3, <2>3, <2>4, <2>5, <2>6 DEF Owned
  <2>7. CASE n # 1
    <3>1. n - 1 \in 1 .. Len(q) /\ q[n] = fat[q[n - 1]]
      BY <1>3, <2>4, <2>7
    <3>2. q[n - 1] = q[m - 1]
      BY <1>1, <2>3, <2>4, <2>5, <3>1 DEF Owned
    <3>3. n - 1 \in twice
      BY <2>3, <2>4, <2>5, <3>1, <3>2
    <3> QED BY <2>2, <2>4, <3>3
  <2> QED BY <2>6, <2>7
<1>5. \A k \in 1 .. Len(q) : fat[q[k]] # None
  BY <1>1, <1>3 DEF Owned
<1>6. Len(q) < MaxBlocks
  <2>1. q \in [1 .. Len(q) -> Blocks]
    BY <1>1
  <2> QED BY <1>2, <1>4, <2>1, DistinctBlocks
<1> QED BY <1>1, <1>4, <1>5, <1>6 DEF q

\* The chains of two entries have no block in common.
LEMMA ChainsAreDisjoint ==
  ASSUME NEW first, NEW fat, Owned(first, fat), NEW i \in Files, NEW j \in Files, i # j
  PROVE  LET q == Chain(fat, first[i])
             r == Chain(fat, first[j])
         IN  \A k \in 1 .. Len(q), l \in 1 .. Len(r) : q[k] # r[l]
<1> DEFINE q == Chain(fat, first[i])
           r == Chain(fat, first[j])
           common == {k \in 1 .. Len(q) : \E l \in 1 .. Len(r) : q[k] = r[l]}
<1>1. /\ Len(q) \in Nat
      /\ \A k \in 1 .. Len(q) : q[k] \in Blocks
      /\ first[i] \in Blocks => q[1] = first[i]
      /\ \A k \in 1 .. Len(q) - 1 : q[k + 1] = fat[q[k]]
      /\ first[i] \in Blocks <=> Len(q) > 0
  BY ChainShape, SizeOfDisk
<1>2. /\ Len(r) \in Nat
      /\ \A k \in 1 .. Len(r) : r[k] \in Blocks
      /\ first[j] \in Blocks => r[1] = first[j]
      /\ \A k \in 1 .. Len(r) - 1 : r[k + 1] = fat[r[k]]
      /\ first[j] \in Blocks <=> Len(r) > 0
  BY ChainShape, SizeOfDisk
<1> SUFFICES ASSUME common # {} PROVE FALSE OBVIOUS
<1> HIDE DEF q, r
<1>3. PICK k \in common : \A m \in common : k <= m
  <2>1. common \subseteq Nat OBVIOUS
  <2> HIDE DEF common
  <2> QED BY <2>1, LeastExists
<1>4. PICK l \in 1 .. Len(r) : q[k] = r[l]
  BY <1>3
<1>5. k \in 1 .. Len(q) /\ q[k] \in Blocks /\ r[l] \in Blocks
  BY <1>1, <1>2, <1>3
<1>6. /\ k = 1 => q[k] = first[i] /\ first[i] \in Blocks
      /\ l = 1 => r[l] = first[j] /\ first[j] \in Blocks
  BY <1>1, <1>2, <1>5
<1>7. k # 1 => k - 1 \in 1 .. Len(q) /\ q[k] = fat[q[k - 1]] /\ q[k - 1] \in Blocks
  <2> SUFFICES ASSUME k # 1 PROVE k - 1 \in 1 .. Len(q) /\ q[k] = fat[q[k - 1]]
    BY <1>1
  <2>1. k - 1 \in 1 .. Len(q) - 1 /\ (k - 1) + 1 = k
    BY <1>1, <1>5
  <2> QED BY <1>1, <2>1
<1>8. l # 1 => l - 1 \in 1 .. Len(r) /\ r[l] = fat[r[l - 1]] /\ r[l - 1] \in Blocks
  <2> SUFFICES ASSUME l # 1 PROVE l - 1 \in 1 .. Len(r) /\ r[l] = fat[r[l - 1]]
    BY <1>2
  <2>1. l - 1 \in 1 .. Len(r) - 1 /\ (l - 1) + 1 = l
    BY <1>2
  <2> QED BY <1>2, <2>1
<1>9. CASE k = 1 \/ l = 1
  BY <1>4, <1>5, <1>6, <1>7, <1>8, <1>9 DEF Owned
<1>10. CASE k # 1 /\ l # 1
  <2>1. q[k - 1] = r[l - 1]
    BY <1>4, <1>5, <1>7, <1>8, <1>10 DEF Owned
  <2>2. k - 1 \in common
    BY <1>7, <1>8, <1>10, <2>1
  <2> QED BY <1>3, <1>5, <2>2
<1> QED BY <1>9, <1>10

\* The blocks on an entry's chain are those that free_blocks comes to.
LEMMA ChainIsReached ==
  ASSUME NEW first, NEW fat, Owned(first, fat), NEW i \in Files
  PROVE  Range(Chain(fat, first[i])) = Reached(fat, first[i])
<1> DEFINE q == Chain(fat, first[i])
           gone == Reached(fat, first[i])
<1>1. /\ Len(q) \in Nat /\ DOMAIN q = 1 .. Len(q)
      /\ \A k \in 1 .. Len(q) : q[k] \in Blocks
      /\ first[i] \in Blocks <=> Len(q) > 0
      /\ first[i] \in Blocks => q[1] = first[i]
      /\ \A k \in 1 .. Len(q) - 1 : q[k + 1] = fat[q[k]]
  BY ChainShape, SizeOfDisk
<1>2. Len(q) > 0 => fat[q[Len(q)]] \notin Blocks
  BY EntryChain
<1>3. /\ gone \subseteq Blocks
      /\ first[i] \in Blocks => first[i] \in gone
      /\ \A c \in gone : fat[c] \in Blocks => fat[c] \in gone
      /\ \A S \in SUBSET Blocks :
           first[i] \in S /\ (\A c \in S : fat[c] \in Blocks => fat[c] \in S)
             => gone \subseteq S
  BY ReachedIsLeast
<1>4. first[i] \notin Blocks => gone = {}
  BY DEF Reached
<1> HIDE DEF q, gone
<1>5. Range(q) = {q[k] : k \in 1 .. Len(q)}
  BY <1>1 DEF Range
<1>6. ASSUME NEW c \in Range(q), fat[c] \in Blocks PROVE fat[c] \in Range(q)
  <2>1. PICK k \in 1 .. Len(q) : c = q[k]
    BY <1>5
  <2>2. k # Len(q)
    BY <1>2, <1>6, <2>1
  <2>3. k \in 1 .. Len(q) - 1 /\ k + 1 \in 1 .. Len(q)
    <3>1. Len(q) \in Nat /\ k \in 1 .. Len(q)
      BY <1>1, <2>1
    <3> QED BY <2>2, <3>1
  <2> QED BY <1>1, <1>5, <2>1, <2>3
<1>7. gone \subseteq Range(q)
  <2>1. CASE first[i] \in Blocks
    <3>1. first[i] \in Range(q) /\ Range(q) \subseteq Blocks
      BY <1>1, <1>5, <2>1
    <3> QED BY <1>3, <1>6, <3>1
  <2> QED BY <1>4, <2>1
<1>8. Range(q) \subseteq gone
  <2> DEFINE out == {k \in 1 .. Len(q) : q[k] \notin gone}
  <2> SUFFICES ASSUME out # {} PROVE FALSE BY <1>5
  <2>1. PICK k \in out : \A m \in out : k <= m
    <3>1. out \subseteq Nat OBVIOUS
    <3> HIDE DEF out
    <3> QED BY <3>1, LeastExists
  <2>2. k # 1
    BY <1>1, <1>3, <2>1
  <2>3. k - 1 \in 1 .. Len(q) - 1 /\ k - 1 \in 1 .. Len(q) /\ (k - 1) + 1 = k /\ k \in Nat
    BY <1>1, <2>1, <2>2
  <2>4. q[k - 1] \in gone
    BY <2>1, <2>3
  <2>5. q[k] = fat[q[k - 1]] /\ q[k] \in Blocks
    BY <1>1, <2>1, <2>3
  <2> QED BY <1>3, <2>1, <2>4, <2>5
<1> QED BY <1>7, <1>8 DEF q, gone

\* A chain is left alone by whatever leaves its blocks alone.
LEMMA ChainKept ==
  ASSUME NEW first, NEW fat, Owned(first, fat), NEW i \in Files, NEW other,
         \A c \in Range(Chain(fat, first[i])) : other[c] = fat[c]
  PROVE  Chain(other, first[i]) = Chain(fat, first[i])
<1> DEFINE q == Chain(fat, first[i])
<1>1. /\ Len(q) \in Nat /\ DOMAIN q = 1 .. Len(q) /\ q \in Seq(Blocks)
      /\ first[i] \in Blocks <=> Len(q) > 0
      /\ first[i] \in Blocks => q[1] = first[i]
      /\ \A k \in 1 .. Len(q) - 1 : q[k + 1] = fat[q[k]]
  BY ChainShape, SizeOfDisk
<1>2. Len(q) < MaxBlocks /\ (Len(q) > 0 => fat[q[Len(q)]] \notin Blocks)
  BY EntryChain
<1>3. \A c \in Range(q) : other[c] = fat[c]
  OBVIOUS
<1> HIDE DEF q
<1>4. \A k \in 1 .. Len(q) : other[q[k]] = fat[q[k]]
  BY <1>1, <1>3 DEF Range
<1>5. Len(q) \in 0 .. MaxBlocks - 1 /\ q \in [1 .. Len(q) -> Blocks]
  BY <1>1, <1>2, SizeOfDisk
<1>6. Len(q) > 0 => Len(q) \in 1 .. Len(q)
  BY <1>1
<1>7. \A k \in 1 .. Len(q) - 1 : q[k + 1] = other[q[k]]
  BY <1>1, <1>4
<1>8. Chain(other, first[i]) = q
  BY <1>1, <1>2, <1>4, <1>5, <1>6, <1>7, ChainIsUnique
<1> QED BY <1>8 DEF q

\* A block linked behind the last one lengthens the chain by itself.
LEMMA ChainGrows ==
  ASSUME NEW first, NEW fat \in Tables, Owned(first, fat), NEW i \in Files,
         first[i] \in Blocks, NEW new \in FreeBlocks(fat)
  PROVE  LET q == Chain(fat, first[i])
         IN  Chain([fat EXCEPT ![new] = End, ![q[Len(q)]] = new], first[i])
               = Append(q, new)
<1> DEFINE q == Chain(fat, first[i])
           n == Len(q)
           r == Append(q, new)
           grown == [fat EXCEPT ![new] = End, ![q[n]] = new]
<1>1. /\ n \in Nat /\ n > 0 /\ DOMAIN q = 1 .. n /\ q \in Seq(Blocks)
      /\ \A k \in 1 .. n : q[k] \in Blocks
      /\ q[1] = first[i]
      /\ \A k \in 1 .. n - 1 : q[k + 1] = fat[q[k]]
  BY ChainShape, SizeOfDisk
<1>2. /\ \A k, l \in 1 .. n : q[k] = q[l] => k = l
      /\ \A k \in 1 .. n : fat[q[k]] # None
  BY EntryChain
<1>3. new \in Blocks /\ fat[new] = None
  BY DEF FreeBlocks
<1> HIDE DEF q, n
<1>4. /\ r \in Seq(Blocks) /\ Len(r) = n + 1 /\ r[n + 1] = new
      /\ \A k \in 1 .. n : r[k] = q[k]
  BY <1>1, <1>3, AppendProperties DEF n
<1> HIDE DEF r
<1>5. \A k \in 1 .. n : q[k] # new
  BY <1>2, <1>3
<1>6. n \in 1 .. n
  BY <1>1
<1>7. /\ grown[q[n]] = new
      /\ \A k \in 1 .. n - 1 : grown[q[k]] = fat[q[k]]
      /\ grown[new] = End
  BY <1>1, <1>2, <1>3, <1>5, <1>6 DEF Tables
<1> HIDE DEF grown
<1>8. \A k \in 1 .. n + 1 : k \in 1 .. n \/ k = n + 1
  BY <1>1
<1>9. \A k, l \in 1 .. n + 1 : r[k] = r[l] => k = l
  BY <1>2, <1>4, <1>5, <1>8
<1>10. r \in [1 .. n + 1 -> Blocks] /\ n + 1 \in Nat
  BY <1>1, <1>4
<1>11. n + 1 < MaxBlocks
  BY <1>9, <1>10, DistinctBlocks
<1>12. n + 1 \in 0 .. MaxBlocks - 1
  BY <1>1, <1>11, SizeOfDisk
<1>13. \A k \in 1 .. (n + 1) - 1 : r[k + 1] = grown[r[k]]
  <2> SUFFICES ASSUME NEW k \in 1 .. n PROVE r[k + 1] = grown[r[k]]
    BY <1>1
  <2>1. CASE k = n
    BY <2>1, <1>4, <1>7
  <2>2. CASE k # n
    <3>1. k \in 1 .. n - 1 /\ k + 1 \in 1 .. n
      BY <1>1, <2>2
    <3> QED BY <3>1, <1>1, <1>4, <1>7
  <2> QED BY <2>1, <2>2
<1>14. r[1] = first[i] /\ grown[r[n + 1]] \notin Blocks
  <2>1. 1 \in 1 .. n
    BY <1>1
  <2> QED BY <2>1, <1>1, <1>4, <1>7, MarksAreNoBlocks
<1>15. Chain(grown, first[i]) = r
  BY <1>1, <1>10, <1>12, <1>13, <1>14, ChainIsUnique
<1> QED BY <1>15 DEF q, n, r, grown

\* A block that ends a chain and is its first is all of it; no block, no chain.
LEMMA ShortChains ==
  ASSUME NEW fat, NEW b
  PROVE  /\ b \notin Blocks => Chain(fat, b) = <<>> /\ Len(Chain(fat, b)) = 0
         /\ b \in Blocks /\ fat[b] = End =>
              Chain(fat, b) = <<b>> /\ Len(Chain(fat, b)) = 1
<1>1. CASE b \notin Blocks
  <2>1. Chain(fat, b) \in Seq(Blocks) /\ Len(Chain(fat, b)) = 0
    BY <1>1, ChainShape, SizeOfDisk
  <2>2. Chain(fat, b) = <<>>
    BY <2>1, EmptySeq
  <2> QED BY <1>1, <2>1, <2>2
<1>2. CASE b \in Blocks /\ fat[b] = End
  <2> DEFINE q == <<b>>
             m == 1
  <2>1. /\ q \in [1 .. m -> Blocks] /\ q[1] = b /\ m \in 0 .. MaxBlocks - 1
        /\ \A k \in 1 .. m - 1 : q[k + 1] = fat[q[k]]
        /\ m # 0 /\ fat[q[m]] \notin Blocks
    BY <1>2, SizeOfDisk, MarksAreNoBlocks
  <2> HIDE DEF q, m
  <2>2. Chain(fat, b) = q /\ Len(Chain(fat, b)) = m
    BY <2>1, ChainIsUnique
  <2> QED BY <1>2, <2>2 DEF q, m
<1>3. CASE b \in Blocks /\ fat[b] # End
  BY <1>3
<1> QED BY <1>1, <1>2, <1>3

\* What is listed without repetition is counted by its places.
LEMMA CountImage ==
  ASSUME NEW m \in Nat, NEW S, NEW q,
         S = {q[k] : k \in 1 .. m}, \A k, l \in 1 .. m : q[k] = q[l] => k = l
  PROVE  Cardinality(S) = m /\ IsFiniteSet(S)
<1> DEFINE f == [k \in 1 .. m |-> q[k]]
<1>1. f \in Bijection(1 .. m, S)
  BY DEF Bijection, Injection, Surjection, IsInjective
<1>2. ExistsBijection(1 .. m, S)
  BY <1>1 DEF ExistsBijection
<1>3. Cardinality(S) = m
  BY <1>2, FS_CountingElements
<1>4. IsFiniteSet(S)
  BY <1>2, FS_NatBijection
<1> QED BY <1>3, <1>4

\* The chain of linked blocks has them all, in their order: the k-th block is
\* the one with k - 1 before it.
LEMMA LinkedChain ==
  ASSUME NEW fat, NEW bs \in SUBSET Blocks, bs # {}
  PROVE  LET q == Chain(Linked(fat, bs), Min(bs))
         IN  /\ Range(q) = bs /\ Len(q) = Cardinality(bs) /\ Len(q) < MaxBlocks
             /\ \A k \in 1 .. Len(q) : Cardinality({c \in bs : c < q[k]}) = k - 1
<1> DEFINE new == Linked(fat, bs)
           q   == Chain(new, Min(bs))
<1>1. bs \subseteq Nat /\ Blocks \subseteq Nat
  BY DEF Blocks
<1>2. Min(bs) \in bs /\ \A c \in bs : Min(bs) <= c
  BY <1>1, MinIsLeast
<1>3. \A b \in bs : \/ new[b] = End /\ \A c \in bs : c <= b
                    \/ /\ new[b] \in bs /\ new[b] > b
                       /\ \A c \in bs : c > b => c >= new[b]
  BY LinkedValue
<1>4. /\ Len(q) \in Nat /\ DOMAIN q = 1 .. Len(q) /\ q \in Seq(Blocks)
      /\ \A k \in 1 .. Len(q) : q[k] \in Blocks
      /\ Len(q) > 0 /\ q[1] = Min(bs)
      /\ \A k \in 1 .. Len(q) - 1 : q[k + 1] = new[q[k]]
      /\ Len(q) < MaxBlocks => new[q[Len(q)]] \notin Blocks
  BY <1>2, ChainShape, SizeOfDisk
<1> HIDE DEF q, new
<1> DEFINE n == Len(q)
<1>5. n \in Nat /\ n > 0
  BY <1>4
<1>6. \A k \in 1 .. n : q[k] = new[q[k - 1]] \/ k = 1
  <2> SUFFICES ASSUME NEW k \in 1 .. n, k # 1 PROVE q[k] = new[q[k - 1]]
    OBVIOUS
  <2>1. k - 1 \in 1 .. n - 1 /\ (k - 1) + 1 = k
    BY <1>5
  <2> QED BY <1>4, <2>1
<1>7. \A k \in 1 .. n : q[k] \in bs
  <2> DEFINE out == {k \in 1 .. n : q[k] \notin bs}
  <2> SUFFICES ASSUME out # {} PROVE FALSE OBVIOUS
  <2>1. PICK k \in out : \A m \in out : k <= m
    <3>1. out \subseteq Nat OBVIOUS
    <3> HIDE DEF out
    <3> QED BY <3>1, LeastExists
  <2>2. k # 1
    BY <1>2, <1>4, <2>1
  <2>3. k - 1 \in 1 .. n /\ k \in Nat /\ k \in 1 .. n
    BY <1>5, <2>1, <2>2
  <2>4. q[k - 1] \in bs
    BY <2>1, <2>3
  <2>5. q[k] = new[q[k - 1]] /\ q[k] \in Blocks
    BY <1>4, <1>6, <2>2, <2>3
  <2> QED BY <1>3, <2>1, <2>4, <2>5, MarksAreNoBlocks
<1>8. ASSUME NEW k \in 1 .. n, NEW l \in 1 .. n, k < l PROVE q[k] < q[l]
  <2> DEFINE bad == {m \in 1 .. n : k < m /\ ~(q[k] < q[m])}
  <2> SUFFICES ASSUME bad # {} PROVE FALSE BY <1>8
  <2>1. PICK m \in bad : \A j \in bad : m <= j
    <3>1. bad \subseteq Nat OBVIOUS
    <3> HIDE DEF bad
    <3> QED BY <3>1, LeastExists
  <2>2. m - 1 \in 1 .. n /\ m # 1 /\ m \in Nat /\ k \in Nat /\ m - 1 >= k
    BY <1>5, <2>1
  <2>3. q[m] > q[m - 1]
    <3>1. q[m] = new[q[m - 1]] /\ q[m - 1] \in bs /\ q[m] \in Blocks
      BY <1>4, <1>6, <1>7, <2>1, <2>2
    <3> QED BY <1>3, <3>1, MarksAreNoBlocks
  <2>4. m - 1 = k \/ q[k] < q[m - 1]
    BY <2>1, <2>2
  <2>5. q[k] \in Nat /\ q[m] \in Nat /\ q[m - 1] \in Nat
    BY <1>1, <1>7, <2>1, <2>2
  <2> QED BY <2>1, <2>3, <2>4, <2>5
<1>9. \A k, l \in 1 .. n : q[k] = q[l] => k = l
  <2> SUFFICES ASSUME NEW k \in 1 .. n, NEW l \in 1 .. n, q[k] = q[l], k # l
               PROVE  FALSE
    OBVIOUS
  <2>1. k < l \/ l < k
    OBVIOUS
  <2>2. q[k] < q[l] \/ q[l] < q[k]
    BY <1>8, <2>1
  <2>3. q[k] \in Nat /\ q[l] \in Nat
    BY <1>1, <1>7
  <2> QED BY <2>2, <2>3
<1>10. n < MaxBlocks
  <2>1. q \in [1 .. n -> Blocks]
    BY <1>4
  <2> QED BY <1>5, <1>9, <2>1, DistinctBlocks
<1>11. \A c \in bs : c <= q[n]
  <2>1. n \in 1 .. n
    BY <1>5
  <2>2. new[q[n]] \notin Blocks /\ q[n] \in bs
    BY <1>4, <1>7, <1>10, <2>1
  <2> QED BY <1>3, <2>2
<1>12. ASSUME NEW b \in bs PROVE \E k \in 1 .. n : q[k] = b
  <2> DEFINE above == {k \in 1 .. n : q[k] >= b}
  <2>1. above # {} /\ above \subseteq Nat
    <3>1. n \in 1 .. n
      BY <1>5
    <3>2. b <= q[n] /\ b \in Nat /\ q[n] \in Nat
      BY <1>1, <1>7, <1>11, <3>1
    <3> QED BY <3>1, <3>2
  <2>2. PICK k \in above : \A j \in above : k <= j
    <3> HIDE DEF above
    <3> QED BY <2>1, LeastExists
  <2>3. CASE k = 1
    <3>1. q[1] = Min(bs) /\ 1 \in 1 .. n /\ q[1] >= b
      BY <1>4, <1>5, <2>2, <2>3
    <3>2. Min(bs) <= b /\ b \in Nat /\ Min(bs) \in Nat
      BY <1>1, <1>2
    <3> QED BY <3>1, <3>2
  <2>4. CASE k # 1
    <3>1. k - 1 \in 1 .. n /\ k \in Nat /\ k \in 1 .. n
      BY <1>5, <2>2, <2>4
    <3>2. q[k - 1] \in bs /\ q[k] \in bs /\ q[k] = new[q[k - 1]]
      BY <1>6, <1>7, <2>4, <3>1
    <3>3. q[k - 1] \in Nat /\ q[k] \in Nat /\ b \in Nat
      BY <1>1, <3>2
    <3>4. b > q[k - 1]
      BY <2>2, <3>1, <3>3
    <3>5. b >= q[k]
      BY <1>3, <3>2, <3>3, <3>4
    <3> QED BY <2>2, <3>1, <3>3, <3>5
  <2> QED BY <2>3, <2>4
<1>13. bs = {q[k] : k \in 1 .. n}
  BY <1>7, <1>12
<1>14. Cardinality(bs) = n
  BY <1>5, <1>9, <1>13, CountImage
<1>15. ASSUME NEW k \in 1 .. n
       PROVE  Cardinality({c \in bs : c < q[k]}) = k - 1
  <2> DEFINE S == {c \in bs : c < q[k]}
             m == k - 1
  <2>1. m \in Nat /\ m < k /\ \A j \in 1 .. m : j \in 1 .. n /\ j < k
    BY <1>5
  <2>2. S = {q[j] : j \in 1 .. m}
    <3>1. ASSUME NEW j \in 1 .. m PROVE q[j] \in S
      BY <1>7, <1>8, <2>1
    <3>2. ASSUME NEW c \in S PROVE \E j \in 1 .. m : c = q[j]
      <4>1. PICK j \in 1 .. n : q[j] = c
        BY <1>12
      <4>2. j < k
        <5>1. j = k \/ k < j \/ j < k
          BY <1>5
        <5>2. q[k] \in Nat /\ q[j] \in Nat /\ q[j] < q[k]
          BY <1>1, <1>7, <4>1
        <5>3. ~(k < j)
          BY <1>8, <5>2
        <5> QED BY <5>1, <5>2, <5>3
      <4> QED BY <4>1, <4>2, <1>5
    <3> QED BY <3>1, <3>2
  <2>3. \A i, j \in 1 .. m : q[i] = q[j] => i = j
    BY <1>9, <2>1
  <2> HIDE DEF S, m
  <2>4. Cardinality(S) = m
    BY <2>1, <2>2, <2>3, CountImage
  <2> QED BY <2>4 DEF S, m
<1>16. Range(q) = bs
  BY <1>4, <1>13 DEF Range
<1> QED BY <1>10, <1>14, <1>15, <1>16 DEF q, new
=============================================================================
