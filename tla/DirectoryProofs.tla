-------------------------- MODULE DirectoryProofs ---------------------------
(***************************************************************************)
(* Directories and files, for every size of the table, the disk and a      *)
(* directory's block, and whatever paths and data the calls are made with: *)
(* what directories list, what fs_get_stats counts, whose data a call      *)
(* changes, and that what is written is read back.                         *)
(***************************************************************************)
EXTENDS FileSystemProofs

-----------------------------------------------------------------------------
(* The slots of a directory are counted along its chain.                   *)

ChainOf(s, i)  == Chain(s.fat, s.files[i].first_block)
BlocksOf(s, i) == Range(ChainOf(s, i))

\* An entry's blocks are those its chain lists, its last block among them.
LEMMA BlocksOfChain ==
  ASSUME NEW s, NEW i
  PROVE  /\ BlocksOf(s, i) \subseteq Blocks
         /\ BlocksOf(s, i) = {ChainOf(s, i)[k] : k \in 1 .. Len(ChainOf(s, i))}
         /\ Len(ChainOf(s, i)) \in Nat
         /\ \A k \in 1 .. Len(ChainOf(s, i)) : ChainOf(s, i)[k] \in BlocksOf(s, i)
         /\ s.files[i].first_block \in Blocks =>
              /\ Len(ChainOf(s, i)) \in 1 .. Len(ChainOf(s, i))
              /\ ChainOf(s, i)[Len(ChainOf(s, i))] \in BlocksOf(s, i)
<1> DEFINE q == ChainOf(s, i)
<1>1. /\ Len(q) \in Nat /\ DOMAIN q = 1 .. Len(q)
      /\ \A k \in 1 .. Len(q) : q[k] \in Blocks
      /\ s.files[i].first_block \in Blocks <=> Len(q) > 0
  BY ChainShape, SizeOfDisk DEF ChainOf
<1>2. BlocksOf(s, i) = {q[k] : k \in 1 .. Len(q)}
  BY <1>1 DEF BlocksOf, Range
<1> HIDE DEF q
<1>3. s.files[i].first_block \in Blocks => Len(q) \in 1 .. Len(q)
  BY <1>1
<1> QED BY <1>1, <1>2, <1>3 DEF q

\* Where slot k of a directory with chain q is.
BlockAt(q, k) == q[(k - 1) \div MaxChildren + 1]
SlotAt(k)     == ((k - 1) % MaxChildren) + 1

\* The k-th slot of a directory is in one of its blocks.
LEMMA SlotPosition ==
  ASSUME NEW n \in Nat, NEW k \in 1 .. n * MaxChildren
  PROVE  /\ (k - 1) \div MaxChildren + 1 \in 1 .. n
         /\ SlotAt(k) \in Slots
         /\ k = ((k - 1) \div MaxChildren) * MaxChildren + SlotAt(k)
<1>1. MaxChildren \in Nat \ {0}
  BY FileSystemAssumption
<1> DEFINE q == (k - 1) \div MaxChildren
           r == (k - 1) % MaxChildren
<1>2. q \in Nat /\ r \in 0 .. MaxChildren - 1 /\ k - 1 = q * MaxChildren + r
  BY <1>1
<1> HIDE DEF q, r
<1>3. q < n
  <2> SUFFICES ASSUME q >= n PROVE FALSE BY <1>2
  <2>1. q * MaxChildren >= n * MaxChildren
    BY <1>1, <1>2
  <2> QED BY <1>1, <1>2, <2>1
<1> QED BY <1>1, <1>2, <1>3 DEF Slots, SlotAt, q, r

\* Every slot of every block has a place.
LEMMA PositionOfSlot ==
  ASSUME NEW n \in Nat, NEW j \in 1 .. n, NEW c \in Slots
  PROVE  LET k == (j - 1) * MaxChildren + c
         IN  /\ k \in 1 .. n * MaxChildren
             /\ (k - 1) \div MaxChildren + 1 = j
             /\ SlotAt(k) = c
<1> DEFINE k == (j - 1) * MaxChildren + c
<1>1. MaxChildren \in Nat \ {0} /\ c \in 1 .. MaxChildren
  BY FileSystemAssumption DEF Slots
<1>2. (j - 1) * MaxChildren + MaxChildren = j * MaxChildren
  BY <1>1
<1>3. j * MaxChildren <= n * MaxChildren
  BY <1>1
<1>4. (j - 1) * MaxChildren \in Nat
  BY <1>1
<1>5. k \in 1 .. n * MaxChildren
  BY <1>1, <1>2, <1>3, <1>4
<1>6. (k - 1) \div MaxChildren = j - 1
  BY <1>1
<1>7. (k - 1) % MaxChildren = c - 1
  BY <1>1
<1> QED BY <1>1, <1>5, <1>6, <1>7 DEF SlotAt

\* The slots of a directory are those of the blocks on its chain.
LEMMA SlotsAreCells ==
  ASSUME NEW s, NEW d
  PROVE  LET slots == SlotsOf(s, d)
             q     == ChainOf(s, d)
         IN  /\ DOMAIN slots = 1 .. Len(q) * MaxChildren
             /\ DOMAIN slots \subseteq Nat
             /\ \A k \in DOMAIN slots :
                  /\ BlockAt(q, k) \in BlocksOf(s, d) /\ SlotAt(k) \in Slots
                  /\ slots[k] = s.block[BlockAt(q, k)][SlotAt(k)]
             /\ \A b \in BlocksOf(s, d), c \in Slots :
                  \E k \in DOMAIN slots :
                    b = BlockAt(q, k) /\ c = SlotAt(k) /\ slots[k] = s.block[b][c]
<1> DEFINE slots == SlotsOf(s, d)
           q     == ChainOf(s, d)
<1>1. slots = [k \in 1 .. Len(q) * MaxChildren |-> s.block[BlockAt(q, k)][SlotAt(k)]]
  BY DEF SlotsOf, ChainOf, BlockAt, SlotAt
<1>2. /\ Len(q) \in Nat /\ BlocksOf(s, d) = {q[k] : k \in 1 .. Len(q)}
  BY BlocksOfChain
<1> HIDE DEF slots, q
<1>3. ASSUME NEW k \in DOMAIN slots
      PROVE  /\ BlockAt(q, k) \in BlocksOf(s, d) /\ SlotAt(k) \in Slots
             /\ slots[k] = s.block[BlockAt(q, k)][SlotAt(k)]
  <2>1. k \in 1 .. Len(q) * MaxChildren
    BY <1>1
  <2> QED BY <1>1, <1>2, <2>1, SlotPosition DEF BlockAt
<1>4. ASSUME NEW b \in BlocksOf(s, d), NEW c \in Slots
      PROVE  \E k \in DOMAIN slots :
               b = BlockAt(q, k) /\ c = SlotAt(k) /\ slots[k] = s.block[b][c]
  <2>1. PICK j \in 1 .. Len(q) : b = q[j]
    BY <1>2
  <2> DEFINE k == (j - 1) * MaxChildren + c
  <2>2. /\ k \in 1 .. Len(q) * MaxChildren
        /\ (k - 1) \div MaxChildren + 1 = j
        /\ SlotAt(k) = c
    BY <1>2, PositionOfSlot
  <2> HIDE DEF k
  <2> QED BY <1>1, <2>1, <2>2 DEF BlockAt
<1>5. DOMAIN slots = 1 .. Len(q) * MaxChildren
  BY <1>1
<1>6. DOMAIN slots \subseteq Nat
  BY <1>5
<1> QED BY <1>3, <1>4, <1>5, <1>6 DEF slots, q

\* If the chain comes to no block twice, no two slots are the same place.
LEMMA SlotsAreDistinct ==
  ASSUME NEW s, NEW d, NEW k \in DOMAIN SlotsOf(s, d), NEW l \in DOMAIN SlotsOf(s, d),
         \A i, j \in 1 .. Len(ChainOf(s, d)) :
           ChainOf(s, d)[i] = ChainOf(s, d)[j] => i = j,
         BlockAt(ChainOf(s, d), k) = BlockAt(ChainOf(s, d), l), SlotAt(k) = SlotAt(l)
  PROVE  k = l
<1> DEFINE n == Len(ChainOf(s, d))
<1>1. n \in Nat
  BY BlocksOfChain
<1>2. DOMAIN SlotsOf(s, d) = 1 .. n * MaxChildren
  BY SlotsAreCells
<1> HIDE DEF n
<1>3. /\ (k - 1) \div MaxChildren + 1 \in 1 .. n
      /\ k = ((k - 1) \div MaxChildren) * MaxChildren + SlotAt(k)
  BY <1>1, <1>2, SlotPosition
<1>4. /\ (l - 1) \div MaxChildren + 1 \in 1 .. n
      /\ l = ((l - 1) \div MaxChildren) * MaxChildren + SlotAt(l)
  BY <1>1, <1>2, SlotPosition
<1>5. (k - 1) \div MaxChildren + 1 = (l - 1) \div MaxChildren + 1
  BY <1>3, <1>4 DEF BlockAt, n
<1>6. (k - 1) \div MaxChildren = (l - 1) \div MaxChildren
  <2> DEFINE a == (k - 1) \div MaxChildren
             b == (l - 1) \div MaxChildren
  <2>1. a + 1 \in 1 .. n /\ b + 1 \in 1 .. n /\ a + 1 = b + 1
    BY <1>3, <1>4, <1>5
  <2>2. a \in Int /\ b \in Int
    <3>1. k \in Int /\ l \in Int /\ MaxChildren \in Nat \ {0}
      BY <1>2, FileSystemAssumption
    <3> QED BY <3>1
  <2> HIDE DEF a, b
  <2>3. a = b
    BY <2>1, <2>2
  <2> QED BY <2>3 DEF a, b
<1> QED BY <1>3, <1>4, <1>6

-----------------------------------------------------------------------------
(* A path is looked up one name after the other.                           *)

\* A lookup one name after the other.
Lookups(s, names, n, at) ==
  at = [i \in 0 .. n |-> IF i = 0 THEN Root(s) ELSE Child(s, at[i - 1], names[i])]

\* There is such a lookup.
LEMMA LookupsOfEveryLength ==
  ASSUME NEW s, NEW names, NEW n \in Nat PROVE \E at : Lookups(s, names, n, at)
<1> DEFINE none == {m \in Nat : \A at : ~Lookups(s, names, m, at)}
<1> SUFFICES ASSUME none # {} PROVE FALSE OBVIOUS
<1>1. PICK m \in none : \A k \in none : m <= k
  BY LeastExists
<1>2. CASE m = 0
  <2>1. Lookups(s, names, 0, [i \in 0 .. 0 |-> Root(s)])
    BY DEF Lookups
  <2> QED BY <1>1, <1>2, <2>1
<1>3. CASE m # 0
  <2>1. m - 1 \in Nat /\ m - 1 \notin none /\ m \in Nat
    BY <1>1, <1>3
  <2>2. PICK at : Lookups(s, names, m - 1, at)
    BY <2>1
  <2> DEFINE next == Child(s, at[m - 1], names[m])
             longer == [i \in 0 .. m |-> IF i < m THEN at[i] ELSE next]
  <2>3. Lookups(s, names, m, longer)
    <3>1. /\ \A i \in 0 .. m - 1 : longer[i] = at[i] /\ i < m
          /\ longer[m] = next
      BY <2>1
    <3>2. longer = [i \in 0 .. m |-> longer[i]]
      OBVIOUS
    <3>3. ASSUME NEW i \in 0 .. m
          PROVE  longer[i] = IF i = 0 THEN Root(s) ELSE Child(s, longer[i - 1], names[i])
      <4>1. CASE i < m
        <5>1. i \in 0 .. m - 1 /\ (i # 0 => i - 1 \in 0 .. m - 1)
          BY <4>1, <2>1
        <5>2. at[i] = IF i = 0 THEN Root(s) ELSE Child(s, at[i - 1], names[i])
          BY <5>1, <2>2 DEF Lookups
        <5> HIDE DEF longer
        <5> QED BY <5>1, <5>2, <3>1
      <4>2. CASE i = m
        <5>1. m - 1 \in 0 .. m - 1
          BY <2>1
        <5> HIDE DEF longer
        <5> QED BY <4>2, <1>3, <3>1, <5>1
      <4> QED BY <2>1, <4>1, <4>2
    <3> HIDE DEF longer
    <3> QED BY <3>2, <3>3 DEF Lookups
  <2> QED BY <1>1, <2>3
<1> QED BY <1>2, <1>3

\* The same names give the same.
LEMMA LookupsAgree ==
  ASSUME NEW s, NEW names, NEW others, NEW n \in Nat, NEW m \in Nat,
         NEW at, Lookups(s, names, n, at), NEW to, Lookups(s, others, m, to),
         NEW k \in Nat, k <= n, k <= m, \A i \in 1 .. k : names[i] = others[i]
  PROVE  at[k] = to[k]
<1> DEFINE bad == {i \in 0 .. k : at[i] # to[i]}
<1> SUFFICES ASSUME bad # {} PROVE FALSE OBVIOUS
<1>1. PICK i \in bad : \A j \in bad : i <= j
  <2>1. bad \subseteq Nat OBVIOUS
  <2> HIDE DEF bad
  <2> QED BY <2>1, LeastExists
<1>2. i \in 0 .. n /\ i \in 0 .. m /\ i \in 0 .. k
  BY <1>1
<1>3. /\ at[i] = IF i = 0 THEN Root(s) ELSE Child(s, at[i - 1], names[i])
      /\ to[i] = IF i = 0 THEN Root(s) ELSE Child(s, to[i - 1], others[i])
  BY <1>2 DEF Lookups
<1>4. i # 0
  BY <1>1, <1>3
<1>5. i - 1 \in 0 .. k /\ i \in 1 .. k /\ i \in Nat
  BY <1>2, <1>4
<1>6. at[i - 1] = to[i - 1]
  BY <1>1, <1>5
<1> QED BY <1>1, <1>3, <1>4, <1>5, <1>6

\* resolve_path looks one name up after the other.
LEMMA ResolveIsLookup ==
  ASSUME NEW s, NEW names, Len(names) \in Nat
  PROVE  \E at : Lookups(s, names, Len(names), at) /\ Resolve(s, names) = at[Len(names)]
<1> DEFINE n == Len(names)
           at == CHOOSE f : Lookups(s, names, n, f)
<1>1. Lookups(s, names, n, at)
  BY LookupsOfEveryLength
<1>2. Resolve(s, names) = at[n]
  BY DEF Resolve, Lookups
<1> QED BY <1>1, <1>2

LEMMA FrontOfPath ==
  ASSUME NEW S, NEW c \in Seq(S), Len(c) > 0
  PROVE  /\ ParentPath(c) \in Seq(S) /\ Len(ParentPath(c)) = Len(c) - 1
         /\ \A i \in 1 .. Len(c) - 1 : ParentPath(c)[i] = c[i]
<1> DEFINE n == Len(c) - 1
<1>1. n \in Nat /\ 1 \in Int /\ n \in Int /\ \A i \in 1 .. n : c[i] \in S
  OBVIOUS
<1>2. /\ SubSeq(c, 1, n) \in Seq(S)
      /\ Len(SubSeq(c, 1, n)) = IF 1 <= n THEN n - 1 + 1 ELSE 0
      /\ \A i \in 1 .. n - 1 + 1 : SubSeq(c, 1, n)[i] = c[1 + i - 1]
  BY <1>1, SubSeqProperties
<1> HIDE DEF n
<1>3. Len(SubSeq(c, 1, n)) = n /\ \A i \in 1 .. n : SubSeq(c, 1, n)[i] = c[i]
  BY <1>1, <1>2
<1>4. ParentPath(c) = SubSeq(c, 1, n)
  BY DEF ParentPath, n
<1> QED BY <1>2, <1>3, <1>4 DEF n

\* The last name is looked up in what the ones before it lead to.
LEMMA ResolveLast ==
  ASSUME NEW s, NEW names, NEW S, names \in Seq(S)
  PROVE  /\ Len(names) = 0 => Resolve(s, names) = Root(s)
         /\ Len(names) > 0 =>
              Resolve(s, names) = Child(s, Resolve(s, ParentPath(names)), names[Len(names)])
<1>1. Len(names) \in Nat
  OBVIOUS
<1>2. PICK at : Lookups(s, names, Len(names), at) /\ Resolve(s, names) = at[Len(names)]
  BY <1>1, ResolveIsLookup
<1>3. CASE Len(names) = 0
  BY <1>2, <1>3 DEF Lookups
<1>4. CASE Len(names) > 0
  <2> DEFINE front == ParentPath(names)
             n == Len(names)
  <2>1. Len(front) = n - 1 /\ \A i \in 1 .. n - 1 : front[i] = names[i]
    BY <1>4, FrontOfPath
  <2> HIDE DEF front
  <2>2. n - 1 \in Nat /\ n \in Nat /\ n - 1 \in 0 .. n /\ n \in 0 .. n /\ n # 0
    BY <1>1, <1>4
  <2>3. PICK to : Lookups(s, front, n - 1, to) /\ Resolve(s, front) = to[n - 1]
    BY <2>1, <2>2, ResolveIsLookup
  <2>4. at[n - 1] = to[n - 1]
    BY <1>2, <2>1, <2>2, <2>3, LookupsAgree
  <2>5. at[n] = Child(s, at[n - 1], names[n])
    BY <1>2, <2>2 DEF Lookups
  <2> QED BY <1>2, <1>4, <2>3, <2>4, <2>5 DEF front
<1> QED BY <1>1, <1>3, <1>4


LEMMA ComponentsAreNames ==
  ASSUME NEW p \in Seq(PathNames)
  PROVE  \E S : Components(p) \in Seq(S)
<1>1. \E S : PathCopy(p) \in Seq(S)
  <2> DEFINE at[i \in 1 .. Len(p)] == IF i = 1 THEN 1 ELSE at[i - 1] + p[i - 1].len + 1
             kept == {i \in 1 .. Len(p) : at[i] <= MaxName}
             S == {CutAt(p[i], MaxName - at[i]) : i \in 1 .. Cardinality(kept)}
  <2>1. PathCopy(p) = [i \in 1 .. Cardinality(kept) |-> CutAt(p[i], MaxName - at[i])]
    BY DEF PathCopy
  <2>2. IsFiniteSet(kept) /\ Cardinality(kept) \in Nat
    <3>1. Len(p) \in Nat
      OBVIOUS
    <3>2. IsFiniteSet(1 .. Len(p))
      BY <3>1, FS_Interval
    <3>3. kept \in SUBSET (1 .. Len(p))
      OBVIOUS
    <3> HIDE DEF kept
    <3> QED BY <3>2, <3>3, FS_Subset, FS_CardinalityType
  <2> HIDE DEF at, kept
  <2>3. PathCopy(p) \in Seq(S)
    BY <2>1, <2>2
  <2> QED BY <2>3
<1>2. PICK S : PathCopy(p) \in Seq(S)
  BY <1>1
<1>3. CASE Components(p) = PathCopy(p)
  BY <1>2, <1>3
<1>4. CASE PathCopy(p) # <<>> /\ Components(p) = ParentPath(PathCopy(p))
  <2>1. Len(PathCopy(p)) > 0
    BY <1>2, <1>4, EmptySeq
  <2> QED BY <1>2, <1>4, <2>1, FrontOfPath
<1> QED BY <1>3, <1>4 DEF Components

-----------------------------------------------------------------------------
(* The parts of the invariant: the root, what a directory's slots hold, and *)
(* where an entry is found.                                                *)

Dir(s, d) == d \in Files /\ Used(s, d) /\ s.files[d].is_directory

Typed(s) ==
  /\ DOMAIN s = {"files", "num_files", "fat", "block"}
  /\ s.files \in [Files -> Entries] /\ s.num_files \in Nat
  /\ s.fat \in Tables /\ DOMAIN s.block = Blocks

\* The root is entry 0.
Rooted(s) == Dir(s, 0) /\ s.files[0].parent_index = NoParent

Children == [Slots -> Files \cup {NoParent}]

\* A directory has blocks, and what is on its chain are tables of children.
Directories(s) ==
  \A d \in Files : Dir(s, d) =>
    /\ s.files[d].first_block \in Blocks
    /\ \A b \in BlocksOf(s, d) : s.block[b] \in Children

\* A place in directory d that holds entry i.
Holds(s, d, i) == \E b \in BlocksOf(s, d), c \in Slots : s.block[b][c] = i

\* An entry other than the root is in its parent.
Parented(s) ==
  \A i \in Files \ {0} : Used(s, i) =>
    /\ Dir(s, s.files[i].parent_index)
    /\ Holds(s, s.files[i].parent_index, i)

LEMMA RootIsFirst == ASSUME NEW s, Rooted(s) PROVE Root(s) = 0
<1> DEFINE roots == {i \in Files : /\ Used(s, i) /\ s.files[i].is_directory
                                   /\ s.files[i].parent_index = NoParent}
<1>1. 0 \in roots /\ roots \subseteq Nat
  BY DEF Rooted, Dir, Files
<1>2. Min(roots) \in roots /\ \A j \in roots : Min(roots) <= j
  BY <1>1, MinIsLeast
<1> HIDE DEF roots
<1>3. Min(roots) = 0
  <2>1. Min(roots) \in Nat /\ Min(roots) <= 0
    BY <1>1, <1>2
  <2> QED BY <2>1
<1> QED BY <1>3 DEF Root, roots

LEMMA FilesAreNumbers == Files \subseteq Nat /\ NotFound \notin Files /\ NoParent \notin Files
BY FileSystemAssumption DEF Files, NotFound, NoParent

\* What find_child finds is in use, has the name, and is in a slot of the
\* directory.
LEMMA ChildIsHeld ==
  ASSUME NEW s, NEW d, NEW name, Child(s, d, name) # NotFound
  PROVE  /\ Child(s, d, name) \in Files /\ Used(s, Child(s, d, name))
         /\ s.files[Child(s, d, name)].name = name
         /\ d # NotFound /\ s.files[d].is_directory
         /\ Holds(s, d, Child(s, d, name))
<1> DEFINE slots == SlotsOf(s, d)
           hits  == {k \in DOMAIN slots : /\ slots[k] \in Files /\ Used(s, slots[k])
                                          /\ s.files[slots[k]].name = name}
<1>1. /\ d # NotFound /\ s.files[d].is_directory /\ hits # {}
      /\ Child(s, d, name) = slots[Min(hits)]
  BY DEF Child
<1>2. hits \subseteq Nat
  BY SlotsAreCells
<1>3. Min(hits) \in hits
  BY <1>1, <1>2, MinIsLeast
<1>4. /\ Min(hits) \in DOMAIN slots /\ slots[Min(hits)] \in Files
      /\ Used(s, slots[Min(hits)]) /\ s.files[slots[Min(hits)]].name = name
  BY <1>3
<1> HIDE DEF hits
<1>5. Holds(s, d, slots[Min(hits)])
  BY <1>4, SlotsAreCells DEF Holds
<1> QED BY <1>1, <1>4, <1>5

\* What resolve_path finds is in use.
LEMMA ResolvedIsUsed ==
  ASSUME NEW s, Rooted(s), NEW T, NEW names \in Seq(T)
  PROVE  /\ \/ Resolve(s, names) = NotFound
            \/ Resolve(s, names) \in Files /\ Used(s, Resolve(s, names))
         /\ Len(names) = 0 => Resolve(s, names) = 0
<1>1. CASE Len(names) = 0
  <2>1. Root(s) = 0 /\ 0 \in Files /\ Used(s, 0)
    BY RootIsFirst DEF Rooted, Dir
  <2> QED BY <1>1, <2>1, ResolveLast
<1>2. CASE Len(names) > 0
  <2>1. Resolve(s, names) = Child(s, Resolve(s, ParentPath(names)), names[Len(names)])
    BY <1>2, ResolveLast
  <2> QED BY <1>2, <2>1, ChildIsHeld
<1>3. Len(names) \in Nat
  OBVIOUS
<1> QED BY <1>1, <1>2, <1>3

\* What find_entry gives is in use, and if it is not the root, the directory
\* that it gives as its parent holds it.
LEMMA FoundIsUsed ==
  ASSUME NEW s, Rooted(s), NEW p \in Seq(PathNames)
  PROVE  LET i == find_entry(s, p)
         IN  /\ i = NotFound \/ (i \in Files /\ Used(s, i))
             /\ i \in Files /\ i # 0 =>
                  Dir(s, FoundParent(s, p)) /\ Holds(s, FoundParent(s, p), i)
<1>1. PICK S : Components(p) \in Seq(S)
  BY ComponentsAreNames
<1> DEFINE names == Components(p)
           front == ParentPath(names)
<1>2. find_entry(s, p) = Resolve(s, names) /\ FoundParent(s, p) = Resolve(s, front)
  BY DEF find_entry, FoundParent
<1>3. ASSUME Resolve(s, names) \in Files, Resolve(s, names) # 0
      PROVE  Dir(s, Resolve(s, front)) /\ Holds(s, Resolve(s, front), Resolve(s, names))
  <2>1. Len(names) > 0
    <3>1. Len(names) \in Nat /\ Len(names) # 0
      BY <1>1, <1>3, ResolvedIsUsed
    <3> QED BY <3>1
  <2>2. front \in Seq(S)
    BY <1>1, <2>1, FrontOfPath
  <2>3. Resolve(s, front) = NotFound \/ (Resolve(s, front) \in Files /\ Used(s, Resolve(s, front)))
    BY <2>2, ResolvedIsUsed
  <2>4. Resolve(s, names) = Child(s, Resolve(s, front), names[Len(names)])
    BY <1>1, <2>1, ResolveLast
  <2> HIDE DEF names, front
  <2> QED BY <1>3, <2>3, <2>4, ChildIsHeld, FilesAreNumbers DEF Dir
<1> QED BY <1>1, <1>2, <1>3, ResolvedIsUsed

-----------------------------------------------------------------------------
(* add_child_to_directory.                                                 *)

LEMMA TypedIsShaped == ASSUME NEW s, Typed(s) PROVE Shape(s)
BY DEF Typed, Shape, Entries

LEMMA FirstOfEntry ==
  ASSUME NEW s, NEW i \in Files
  PROVE  /\ FirstBlocks(s)[i] = s.files[i].first_block
         /\ ChainOf(s, i) = Chain(s.fat, FirstBlocks(s)[i])
BY DEF FirstBlocks, ChainOf

\* Entry i is now in slot nc of block nb of directory d, which was empty or is
\* in a new block.
Added(s, t, d, i, nb, nc) ==
  /\ nb \in Blocks /\ nc \in Slots
  /\ BlocksOf(t, d) = BlocksOf(s, d) \cup {nb}
  /\ nb \in BlocksOf(s, d) => s.block[nb] \in Children /\ s.block[nb][nc] = NoParent
  /\ nb \notin BlocksOf(s, d) => nb \in FreeBlocks(s.fat)
  /\ t.block = [s.block EXCEPT ![nb] =
                  [(IF nb \in BlocksOf(s, d) THEN s.block[nb] ELSE NoChildren)
                     EXCEPT ![nc] = i]]
  /\ \A b \in Blocks \ BlocksOf(t, d) : t.fat[b] = s.fat[b]
  /\ \A b \in Blocks : t.fat[b] # None <=> (s.fat[b] # None \/ b = nb)

\* add_child_to_directory writes one free slot of the directory, in a block
\* it had or in one that no chain had.
LEMMA AddChildEffect ==
  ASSUME NEW s, Typed(s), Owned(FirstBlocks(s), s.fat), Directories(s),
         NEW d, Dir(s, d), NEW i \in Files, CanAddChild(s, d)
  PROVE  LET t == add_child_to_directory(s, d, i)
         IN  /\ Typed(t) /\ t.files = s.files /\ t.num_files = s.num_files
             /\ Owned(FirstBlocks(t), t.fat)
             /\ \A j \in Files \ {d} : ChainOf(t, j) = ChainOf(s, j)
             /\ \E nb, nc : Added(s, t, d, i, nb, nc)
<1> DEFINE slots == SlotsOf(s, d)
           holes == {k \in DOMAIN slots : slots[k] = NoParent}
           chain == ChainOf(s, d)
           new   == Min(FreeBlocks(s.fat))
           t     == add_child_to_directory(s, d, i)
<1>1. d \in Files /\ s.files[d].first_block \in Blocks
  BY DEF Dir, Directories
<1>2. /\ DOMAIN slots \subseteq Nat
      /\ \A k \in DOMAIN slots :
           /\ BlockAt(chain, k) \in BlocksOf(s, d) /\ SlotAt(k) \in Slots
           /\ slots[k] = s.block[BlockAt(chain, k)][SlotAt(k)]
  BY SlotsAreCells
<1>3. Good(s)
  BY TypedIsShaped DEF Good
<1>4. Owned(FirstBlocks(t), t.fat)
  BY <1>3, AddChildGood DEF Good
<1>5. BlocksOf(s, d) \subseteq Blocks
  BY BlocksOfChain
<1>6. CASE holes # {}
  <2> DEFINE k  == Min(holes)
             nb == BlockAt(chain, k)
             nc == SlotAt(k)
  <2>1. k \in DOMAIN slots /\ slots[k] = NoParent
    <3>1. holes \subseteq Nat
      BY <1>2
    <3>2. Min(holes) \in holes
      BY <1>6, <3>1, MinIsLeast
    <3> QED BY <3>2
  <2>2. t = [s EXCEPT !.block[nb][nc] = i]
    BY <1>6 DEF add_child_to_directory, SetSlot, BlockAt, SlotAt, ChainOf
  <2> HIDE DEF k, slots, holes, t
  <2>3. /\ nb \in BlocksOf(s, d) /\ nc \in Slots /\ s.block[nb][nc] = NoParent
        /\ nb \in Blocks
    BY <1>2, <1>5, <2>1
  <2> HIDE DEF nb, nc, chain
  <2>4. /\ DOMAIN t = DOMAIN s /\ t.files = s.files /\ t.fat = s.fat
        /\ t.num_files = s.num_files
        /\ t.block = [s.block EXCEPT ![nb] = [s.block[nb] EXCEPT ![nc] = i]]
    BY <2>2 DEF Typed
  <2>5. \A j : ChainOf(t, j) = ChainOf(s, j)
    BY <2>4 DEF ChainOf
  <2>6. BlocksOf(t, d) = BlocksOf(s, d)
    BY <2>5 DEF BlocksOf
  <2>7. s.block[nb] \in Children
    BY <1>1, <2>3 DEF Directories
  <2>8. s.fat[nb] # None
    BY <1>1, <2>3, EntryChain, BlocksOfChain, FirstOfEntry
  <2>9. Added(s, t, d, i, nb, nc)
    BY <2>3, <2>4, <2>6, <2>7, <2>8 DEF Added
  <2>10. Typed(t)
    BY <2>4 DEF Typed
  <2> QED BY <1>4, <2>4, <2>5, <2>9, <2>10 DEF t
<1>7. CASE holes = {}
  <2> DEFINE last == chain[Len(chain)]
             grown == [s.fat EXCEPT ![new] = End, ![last] = new]
  <2>1. new \in FreeBlocks(s.fat)
    BY <1>7, MinOfFree DEF CanAddChild
  <2>2. t = [s EXCEPT !.fat[new] = End, !.fat[last] = new,
                      !.block[new] = [NoChildren EXCEPT ![1] = i]]
    BY <1>7 DEF add_child_to_directory, ChainOf
  <2>3. last \in BlocksOf(s, d)
    BY <1>1, BlocksOfChain
  <2>4. s.fat[last] # None /\ last \in Blocks
    BY <1>1, <1>5, <2>3, EntryChain, BlocksOfChain, FirstOfEntry
  <2>5. new \in Blocks /\ s.fat[new] = None
    BY <2>1 DEF FreeBlocks
  <2>6. \A j \in Files : new \notin BlocksOf(s, j)
    BY <2>5, EntryChain, BlocksOfChain, FirstOfEntry
  <2>7. \A j \in Files \ {d} : last \notin BlocksOf(s, j)
    <3> SUFFICES ASSUME NEW j \in Files \ {d}, last \in BlocksOf(s, j) PROVE FALSE
      OBVIOUS
    <3>1. /\ ChainOf(s, d) = Chain(s.fat, FirstBlocks(s)[d])
          /\ ChainOf(s, j) = Chain(s.fat, FirstBlocks(s)[j])
      BY <1>1, FirstOfEntry
    <3>2. /\ \E k \in 1 .. Len(ChainOf(s, d)) : ChainOf(s, d)[k] = last
          /\ \E k \in 1 .. Len(ChainOf(s, j)) : ChainOf(s, j)[k] = last
      BY <2>3, BlocksOfChain
    <3> QED BY <1>1, <3>1, <3>2, ChainsAreDisjoint
  <2>8. Chain(grown, s.files[d].first_block) = Append(chain, new)
    <3>1. s.files[d].first_block = FirstBlocks(s)[d]
      BY <1>1, FirstOfEntry
    <3> QED BY <1>1, <2>1, <3>1, ChainGrows DEF Typed, ChainOf
  <2> HIDE DEF last, new, slots, holes, t
  <2>9. /\ DOMAIN t = DOMAIN s /\ t.files = s.files /\ t.fat = grown
        /\ t.num_files = s.num_files
        /\ t.block = [s.block EXCEPT ![new] = [NoChildren EXCEPT ![1] = i]]
    BY <2>2 DEF Typed
  <2>10. ChainOf(t, d) = Append(chain, new)
    BY <2>8, <2>9 DEF ChainOf
  <2>11. ASSUME NEW j \in Files \ {d} PROVE ChainOf(t, j) = ChainOf(s, j)
    <3>1. \A c \in Range(Chain(s.fat, FirstBlocks(s)[j])) : grown[c] = s.fat[c]
      <4>1. \A c \in BlocksOf(s, j) : c \in Blocks /\ c # new /\ c # last
        BY <2>6, <2>7, BlocksOfChain
      <4>2. BlocksOf(s, j) = Range(Chain(s.fat, FirstBlocks(s)[j]))
        BY FirstOfEntry DEF BlocksOf
      <4> QED BY <4>1, <4>2 DEF Typed, Tables
    <3> HIDE DEF grown
    <3>2. Chain(grown, FirstBlocks(s)[j]) = Chain(s.fat, FirstBlocks(s)[j])
      BY <3>1, ChainKept
    <3> QED BY <2>9, <3>2, FirstOfEntry DEF ChainOf
  <2>12. BlocksOf(t, d) = BlocksOf(s, d) \cup {new}
    <3>1. /\ chain \in Seq(Blocks) /\ Len(chain) \in Nat
          /\ BlocksOf(s, d) = {chain[k] : k \in 1 .. Len(chain)}
      BY ChainShape, BlocksOfChain DEF ChainOf
    <3> DEFINE r == Append(chain, new)
               n == Len(chain)
    <3> HIDE DEF chain
    <3>2. /\ Len(r) = n + 1 /\ r[n + 1] = new
          /\ \A k \in 1 .. n : r[k] = chain[k]
      BY <3>1, <2>5, AppendProperties
    <3>3. BlocksOf(t, d) = {r[k] : k \in 1 .. n + 1}
      BY <2>10, <3>2, BlocksOfChain
    <3> HIDE DEF r, n
    <3>4. n \in Nat /\ BlocksOf(s, d) = {chain[k] : k \in 1 .. n}
      BY <3>1 DEF n
    <3>5. \A k \in 1 .. n + 1 : k \in 1 .. n \/ k = n + 1
      BY <3>4
    <3>6. \A k \in 1 .. n : k \in 1 .. n + 1
      BY <3>4
    <3>7. n + 1 \in 1 .. n + 1
      BY <3>4
    <3> QED BY <3>2, <3>3, <3>4, <3>5, <3>6, <3>7
  <2>13. 1 \in Slots
    <3>1. MaxChildren \in Nat \ {0}
      BY FileSystemAssumption
    <3> QED BY <3>1 DEF Slots
  <2>14. grown \in Tables /\ \A b \in Blocks : grown[b] # None <=> (s.fat[b] # None \/ b = new)
    BY <2>4, <2>5, MarksAreNoBlocks DEF Typed, Tables, Marks
  <2>15. \A b \in Blocks \ BlocksOf(t, d) : grown[b] = s.fat[b]
    BY <2>3, <2>12 DEF Typed, Tables
  <2>16. new \notin BlocksOf(s, d)
    BY <1>1, <2>6
  <2> HIDE DEF grown
  <2>17. Added(s, t, d, i, new, 1)
    BY <2>1, <2>5, <2>9, <2>12, <2>13, <2>14, <2>15, <2>16 DEF Added
  <2>18. Typed(t)
    BY <2>9, <2>14 DEF Typed
  <2> QED BY <1>4, <2>9, <2>11, <2>17, <2>18 DEF t
<1> QED BY <1>6, <1>7

-----------------------------------------------------------------------------
(* A new entry and its first block.                                        *)

\* A block that nothing leads to is on no chain.
LEMMA UnclaimedIsOutside ==
  ASSUME NEW s, NEW j \in Files, NEW b, Unclaimed(FirstBlocks(s), s.fat, b)
  PROVE  b \notin BlocksOf(s, j)
<1> DEFINE q == ChainOf(s, j)
<1>1. /\ Len(q) \in Nat
      /\ s.files[j].first_block \in Blocks <=> Len(q) > 0
      /\ s.files[j].first_block \in Blocks => q[1] = s.files[j].first_block
      /\ \A k \in 1 .. Len(q) : q[k] \in Blocks
      /\ \A k \in 1 .. Len(q) - 1 : q[k + 1] = s.fat[q[k]]
  BY ChainShape, SizeOfDisk DEF ChainOf
<1>2. BlocksOf(s, j) = {q[k] : k \in 1 .. Len(q)}
  BY BlocksOfChain
<1> HIDE DEF q
<1>3. ASSUME NEW k \in 1 .. Len(q) PROVE q[k] # b
  <2>1. CASE k = 1
    BY <1>1, <2>1, FirstOfEntry DEF Unclaimed
  <2>2. CASE k # 1
    <3>1. k - 1 \in 1 .. Len(q) - 1 /\ k - 1 \in 1 .. Len(q) /\ (k - 1) + 1 = k
      BY <1>1, <2>2
    <3> QED BY <1>1, <3>1 DEF Unclaimed
  <2> QED BY <2>1, <2>2
<1> QED BY <1>2, <1>3

\* What a new entry begins with: a file with nothing, a directory with an empty
\* block that was taken for it.
Fresh(s, is_directory, first) ==
  \/ is_directory = FALSE /\ first = None
  \/ /\ is_directory = TRUE /\ first \in Blocks
     /\ s.fat[first] = End /\ s.block[first] = NoChildren
     /\ Unclaimed(FirstBlocks(s), s.fat, first)

NewEntry(p, d, is_directory, first) ==
  [name |-> extract_filename(p), size |-> 0, first_block |-> first,
   is_directory |-> is_directory, parent_index |-> d]

\* The new entry has its own block, if it is a directory, and no other.
LEMMA CreateEffect ==
  ASSUME NEW s, Typed(s), Owned(FirstBlocks(s), s.fat), Directories(s),
         NEW d, Dir(s, d), NEW i \in FreeEntries(s), CanAddChild(s, d),
         NEW p, NEW is_directory, NEW first, Fresh(s, is_directory, first)
  PROVE  LET t == Enter(add_child_to_directory(s, d, i), i, p, d, is_directory, first)
         IN  /\ DOMAIN t = DOMAIN s /\ t.num_files = s.num_files + 1
             /\ t.files = [s.files EXCEPT ![i] = NewEntry(p, d, is_directory, first)]
             /\ t.fat \in Tables /\ DOMAIN t.block = Blocks
             /\ Owned(FirstBlocks(t), t.fat)
             /\ \A j \in Files \ {d, i} : ChainOf(t, j) = ChainOf(s, j)
             /\ Len(ChainOf(t, i)) = IF is_directory THEN 1 ELSE 0
             /\ BlocksOf(t, i) = IF is_directory THEN {first} ELSE {}
             /\ is_directory => t.block[first] = NoChildren
             /\ \E nb, nc : Added(s, t, d, i, nb, nc)
<1> DEFINE g == add_child_to_directory(s, d, i)
           t == Enter(g, i, p, d, is_directory, first)
<1>1. i \in Files /\ d \in Files /\ i # d
  BY DEF FreeEntries, Dir
<1>2. /\ Typed(g) /\ g.files = s.files /\ g.num_files = s.num_files
      /\ Owned(FirstBlocks(g), g.fat)
      /\ \A j \in Files \ {d} : ChainOf(g, j) = ChainOf(s, j)
  BY <1>1, AddChildEffect
<1>3. PICK nb, nc : Added(s, g, d, i, nb, nc)
  BY <1>1, AddChildEffect
<1>4. Good(s) /\ Good(g)
  BY <1>2, TypedIsShaped DEF Good
<1>5. FirstBlocks(g) = FirstBlocks(s)
  BY <1>2 DEF FirstBlocks
<1>6. first \in Blocks => Unclaimed(FirstBlocks(g), g.fat, first) /\ g.fat[first] # None
  <2> SUFFICES ASSUME first \in Blocks
               PROVE  Unclaimed(FirstBlocks(g), g.fat, first) /\ g.fat[first] # None
    OBVIOUS
  <2>1. Unclaimed(FirstBlocks(s), s.fat, first) /\ s.fat[first] # None
    BY MarksAreNoBlocks DEF Fresh
  <2> QED BY <1>4, <1>5, <2>1, AddChildGood
<1> HIDE DEF g
<1>7. Good(t)
  BY <1>1, <1>4, <1>6, EnterGood
<1>8. /\ DOMAIN t = DOMAIN s /\ t.num_files = s.num_files + 1
      /\ t.files = [s.files EXCEPT ![i] = NewEntry(p, d, is_directory, first)]
      /\ t.fat = g.fat /\ t.block = g.block
  BY <1>2 DEF Enter, NewEntry, Typed
<1> HIDE DEF t
<1>9. /\ t.files[i] = NewEntry(p, d, is_directory, first)
      /\ \A j \in Files \ {i} : t.files[j] = s.files[j]
  BY <1>1, <1>8 DEF Typed
<1>10. \A j \in Files \ {i} : ChainOf(t, j) = ChainOf(g, j)
  BY <1>2, <1>8, <1>9 DEF ChainOf
<1>11. BlocksOf(t, d) = BlocksOf(g, d)
  BY <1>1, <1>10 DEF BlocksOf
<1>12. Added(s, t, d, i, nb, nc)
  BY <1>3, <1>8, <1>11 DEF Added
<1>13. ChainOf(t, i) = Chain(t.fat, first)
  BY <1>9 DEF ChainOf, NewEntry
<1>16. \A j \in Files \ {d, i} : ChainOf(t, j) = ChainOf(s, j)
  BY <1>2, <1>10
<1>17. t.fat \in Tables /\ DOMAIN t.block = Blocks
  BY <1>2, <1>8 DEF Typed
<1>18. Owned(FirstBlocks(t), t.fat)
  BY <1>7 DEF Good
<1>19. \E nb2, nc2 : Added(s, t, d, i, nb2, nc2)
  BY <1>12
<1>20. /\ DOMAIN t = DOMAIN s /\ t.num_files = s.num_files + 1
       /\ t.files = [s.files EXCEPT ![i] = NewEntry(p, d, is_directory, first)]
       /\ t.fat \in Tables /\ DOMAIN t.block = Blocks
       /\ Owned(FirstBlocks(t), t.fat)
       /\ \A j \in Files \ {d, i} : ChainOf(t, j) = ChainOf(s, j)
       /\ \E nb2, nc2 : Added(s, t, d, i, nb2, nc2)
  BY <1>8, <1>16, <1>17, <1>18, <1>19
<1>14. ASSUME is_directory = FALSE, first = None
      PROVE  /\ Len(ChainOf(t, i)) = 0 /\ BlocksOf(t, i) = {}
  <2>1. ChainOf(t, i) = <<>> /\ Len(ChainOf(t, i)) = 0
    BY <1>13, <1>14, ShortChains, MarksAreNoBlocks
  <2>2. BlocksOf(t, i) = {}
    <3>1. BlocksOf(t, i) = {ChainOf(t, i)[k] : k \in 1 .. Len(ChainOf(t, i))}
      BY BlocksOfChain
    <3> QED BY <2>1, <3>1
  <2> QED BY <1>14, <2>1, <2>2
<1>15. ASSUME is_directory = TRUE, first \in Blocks, s.fat[first] = End,
             s.block[first] = NoChildren, Unclaimed(FirstBlocks(s), s.fat, first)
      PROVE  /\ Len(ChainOf(t, i)) = 1 /\ BlocksOf(t, i) = {first}
             /\ t.block[first] = NoChildren
  <2>1. first \notin BlocksOf(s, d)
    BY <1>1, <1>15, UnclaimedIsOutside
  <2>2. first # nb
    BY <1>3, <1>15, <2>1, MarksAreNoBlocks DEF Added, FreeBlocks
  <2>3. t.fat[first] = End
    BY <1>12, <1>15, <2>1, <2>2 DEF Added
  <2>4. ChainOf(t, i) = <<first>> /\ Len(ChainOf(t, i)) = 1
    BY <1>13, <1>15, <2>3, ShortChains
  <2>5. BlocksOf(t, i) = {first}
    <3>1. BlocksOf(t, i) = {ChainOf(t, i)[k] : k \in 1 .. Len(ChainOf(t, i))}
      BY BlocksOfChain
    <3> QED BY <2>4, <3>1
  <2>6. t.block[first] = NoChildren
    BY <1>12, <1>15, <2>2 DEF Added, Typed
  <2> QED BY <1>15, <2>4, <2>5, <2>6
<1>21. /\ Len(ChainOf(t, i)) = IF is_directory THEN 1 ELSE 0
       /\ BlocksOf(t, i) = IF is_directory THEN {first} ELSE {}
       /\ is_directory => t.block[first] = NoChildren
  BY <1>14, <1>15 DEF Fresh
<1> QED BY <1>20, <1>21 DEF t, g

-----------------------------------------------------------------------------
(* The inductive invariant, and what creating an entry does to it.         *)

\* A file's chain is as long as its size, or lost.
Sized(s) ==
  \A i \in Files : Used(s, i) /\ ~s.files[i].is_directory =>
    Len(ChainOf(s, i)) \in {0, s.files[i].size}

UsedEntries(s) == {i \in Files : Used(s, i)}

\* num_files is also raised for entries that have no name.
Counted(s) == Cardinality(UsedEntries(s)) <= s.num_files /\ s.num_files <= MaxFiles

Consistent(s) ==
  /\ Typed(s) /\ Owned(FirstBlocks(s), s.fat)
  /\ Rooted(s) /\ Directories(s) /\ Parented(s) /\ Sized(s) /\ Counted(s)

\* What entry j has on its blocks is untouched.
KeepsData(s, t, j) ==
  /\ ChainOf(t, j) = ChainOf(s, j) /\ BlocksOf(t, j) = BlocksOf(s, j)
  /\ \A b \in BlocksOf(s, j) : t.block[b] = s.block[b]

\* Blocks hold the same kinds of things, tables of children among them.
StaysIn(s, t) ==
  \A B : Children \subseteq B /\ s.block \in [Blocks -> B] => t.block \in [Blocks -> B]

\* A chain none of whose links changed is the same.
LEMMA ChainUntouched ==
  ASSUME NEW s, NEW t, Owned(FirstBlocks(s), s.fat), NEW j \in Files,
         t.files[j].first_block = s.files[j].first_block,
         \A b \in BlocksOf(s, j) : t.fat[b] = s.fat[b]
  PROVE  ChainOf(t, j) = ChainOf(s, j) /\ BlocksOf(t, j) = BlocksOf(s, j)
<1>1. \A c \in Range(Chain(s.fat, FirstBlocks(s)[j])) : t.fat[c] = s.fat[c]
  BY FirstOfEntry DEF BlocksOf
<1>2. Chain(t.fat, FirstBlocks(s)[j]) = Chain(s.fat, FirstBlocks(s)[j])
  BY <1>1, ChainKept
<1>3. ChainOf(t, j) = ChainOf(s, j)
  BY <1>2, FirstOfEntry DEF ChainOf
<1> QED BY <1>3 DEF BlocksOf

\* No block is on two chains, and none that is on a chain is free.
LEMMA BlocksAreDisjoint ==
  ASSUME NEW s, Owned(FirstBlocks(s), s.fat), NEW i \in Files
  PROVE  /\ \A b \in BlocksOf(s, i) : b \in Blocks /\ s.fat[b] # None
         /\ \A j \in Files \ {i}, b \in BlocksOf(s, i) : b \notin BlocksOf(s, j)
<1>1. \A b \in BlocksOf(s, i) : b \in Blocks /\ s.fat[b] # None
  <2>1. ChainOf(s, i) = Chain(s.fat, FirstBlocks(s)[i])
    BY FirstOfEntry
  <2>2. \A k \in 1 .. Len(ChainOf(s, i)) : s.fat[ChainOf(s, i)[k]] # None
    BY <2>1, EntryChain
  <2>3. /\ BlocksOf(s, i) \subseteq Blocks
        /\ BlocksOf(s, i) = {ChainOf(s, i)[k] : k \in 1 .. Len(ChainOf(s, i))}
    BY BlocksOfChain
  <2> QED BY <2>2, <2>3
<1>2. ASSUME NEW j \in Files \ {i}, NEW b \in BlocksOf(s, i), b \in BlocksOf(s, j)
      PROVE  FALSE
  <2>1. /\ ChainOf(s, i) = Chain(s.fat, FirstBlocks(s)[i])
        /\ ChainOf(s, j) = Chain(s.fat, FirstBlocks(s)[j])
    BY FirstOfEntry
  <2>2. /\ \E k \in 1 .. Len(ChainOf(s, i)) : ChainOf(s, i)[k] = b
        /\ \E k \in 1 .. Len(ChainOf(s, j)) : ChainOf(s, j)[k] = b
    BY <1>2, BlocksOfChain
  <2> QED BY <2>1, <2>2, ChainsAreDisjoint
<1> QED BY <1>1, <1>2

LEMMA NameOfPath ==
  ASSUME NEW p \in Seq(PathNames), p # <<>>
  PROVE  extract_filename(p) \in Names
<1>1. Len(p) \in 1 .. Len(p)
  BY EmptySeq
<1>2. p[Len(p)] \in PathNames
  BY <1>1
<1> DEFINE name == p[Len(p)]
<1>3. extract_filename(p) = [name EXCEPT !.len = Min({name.len, MaxName})]
  BY DEF extract_filename, CutAt
<1>4. name \in PathNames /\ name.len \in Nat
  BY <1>2 DEF PathNames
<1> HIDE DEF name
<1>5. MaxName \in Nat
  BY FileSystemAssumption
<1>6. Min({name.len, MaxName}) \in 0 .. MaxName
  <2> DEFINE both == {name.len, MaxName}
  <2>1. both \subseteq Nat /\ both # {} /\ MaxName \in both
    BY <1>4, <1>5
  <2> HIDE DEF both
  <2>2. Min(both) \in both /\ \A y \in both : Min(both) <= y
    BY <2>1, MinIsLeast
  <2>3. Min(both) \in Nat /\ Min(both) <= MaxName
    BY <2>1, <2>2
  <2>4. Min(both) \in 0 .. MaxName
    BY <1>5, <2>3
  <2> QED BY <2>4 DEF both
<1> QED BY <1>3, <1>4, <1>6 DEF PathNames, Names

LEMMA UsedIsFinite ==
  ASSUME NEW s
  PROVE  IsFiniteSet(UsedEntries(s)) /\ Cardinality(UsedEntries(s)) \in Nat
<1>1. IsFiniteSet(Files)
  <2>1. MaxFiles - 1 \in Int
    BY FileSystemAssumption
  <2> QED BY <2>1, FS_Interval DEF Files
<1>2. UsedEntries(s) \in SUBSET Files
  BY DEF UsedEntries
<1> QED BY <1>1, <1>2, FS_Subset, FS_CardinalityType

\* An entry that is created keeps Consistent, and the data of all others.
LEMMA CreateConsistent ==
  ASSUME NEW s, Consistent(s), s.num_files < MaxFiles,
         NEW d, Dir(s, d), NEW i \in FreeEntries(s), CanAddChild(s, d),
         NEW p, extract_filename(p) \in Names,
         NEW is_directory \in BOOLEAN, NEW first, Fresh(s, is_directory, first)
  PROVE  LET t == Enter(add_child_to_directory(s, d, i), i, p, d, is_directory, first)
         IN  /\ Consistent(t) /\ StaysIn(s, t)
             /\ \A j \in Files \ {d, i} : KeepsData(s, t, j)
<1> DEFINE t == Enter(add_child_to_directory(s, d, i), i, p, d, is_directory, first)
<1>1. /\ Typed(s) /\ Owned(FirstBlocks(s), s.fat) /\ Rooted(s) /\ Directories(s)
      /\ Parented(s) /\ Sized(s) /\ Counted(s)
  BY DEF Consistent
<1>2. /\ DOMAIN t = DOMAIN s /\ t.num_files = s.num_files + 1
      /\ t.files = [s.files EXCEPT ![i] = NewEntry(p, d, is_directory, first)]
      /\ t.fat \in Tables /\ DOMAIN t.block = Blocks
      /\ Owned(FirstBlocks(t), t.fat)
      /\ \A j \in Files \ {d, i} : ChainOf(t, j) = ChainOf(s, j)
      /\ Len(ChainOf(t, i)) = IF is_directory THEN 1 ELSE 0
      /\ BlocksOf(t, i) = IF is_directory THEN {first} ELSE {}
      /\ is_directory => t.block[first] = NoChildren
      /\ \E nb, nc : Added(s, t, d, i, nb, nc)
  BY <1>1, CreateEffect
<1> HIDE DEF t
<1>3. PICK nb, nc : Added(s, t, d, i, nb, nc)
  BY <1>2
<1>4. /\ i \in Files /\ ~Used(s, i) /\ d \in Files /\ i # d /\ i # 0
      /\ Used(s, 0) /\ Used(s, d) /\ s.files[d].is_directory
  BY <1>1 DEF FreeEntries, Dir, Rooted
<1>5. /\ t.files[i] = NewEntry(p, d, is_directory, first)
      /\ \A j \in Files \ {i} : t.files[j] = s.files[j]
  BY <1>1, <1>2, <1>4 DEF Typed
<1>6. /\ \A j \in Files \ {i} : Used(t, j) <=> Used(s, j)
      /\ \A j \in Files \ {i} : Dir(t, j) <=> Dir(s, j)
  BY <1>5 DEF Used, Dir
<1>7. first \in Blocks \cup {None} /\ (is_directory => first \in Blocks)
  BY DEF Fresh
<1>8. Typed(t)
  <2>1. NewEntry(p, d, is_directory, first) \in Entries
    BY <1>4, <1>7 DEF NewEntry, Entries
  <2>2. t.files \in [Files -> Entries]
    BY <1>1, <1>2, <2>1 DEF Typed
  <2>3. t.num_files \in Nat
    BY <1>1, <1>2 DEF Typed
  <2> QED BY <1>1, <1>2, <2>2, <2>3 DEF Typed
<1>9. Rooted(t)
  <2>1. 0 \in Files \ {i} /\ Dir(s, 0) /\ s.files[0].parent_index = NoParent
    BY <1>1, <1>4, FirstIndices DEF Rooted
  <2> QED BY <1>5, <1>6, <2>1 DEF Rooted
<1>10. \A j \in Files \ {d, i} : BlocksOf(t, j) = BlocksOf(s, j)
  BY <1>2 DEF BlocksOf
<1>11. \A j \in Files \ {d} : nb \notin BlocksOf(s, j)
  BY <1>1, <1>3, <1>4, BlocksAreDisjoint DEF Added, FreeBlocks
<1>12. /\ \A b \in Blocks \ {nb} : t.block[b] = s.block[b]
       /\ nb \in BlocksOf(s, d) =>
            t.block[nb] = [s.block[nb] EXCEPT ![nc] = i]
       /\ nb \notin BlocksOf(s, d) =>
            t.block[nb] = [NoChildren EXCEPT ![nc] = i]
  BY <1>1, <1>3 DEF Added, Typed
<1>13. \A j \in Files \ {d, i} : KeepsData(s, t, j)
  BY <1>1, <1>2, <1>10, <1>11, <1>12, BlocksAreDisjoint DEF KeepsData
<1>14. NoChildren \in Children
  BY DEF NoChildren, Children
<1>15. t.block[nb] \in Children /\ t.block[nb][nc] = i
  <2>1. nc \in Slots
    BY <1>3 DEF Added
  <2>2. CASE nb \in BlocksOf(s, d)
    <3>1. s.block[nb] \in Children
      BY <1>3, <2>2 DEF Added
    <3> QED BY <1>4, <1>12, <2>1, <2>2, <3>1 DEF Children
  <2>3. CASE nb \notin BlocksOf(s, d)
    BY <1>4, <1>12, <1>14, <2>1, <2>3 DEF Children
  <2> QED BY <2>2, <2>3
<1>16. Directories(t)
  <2> SUFFICES ASSUME NEW e \in Files, Dir(t, e)
               PROVE  /\ t.files[e].first_block \in Blocks
                      /\ \A b \in BlocksOf(t, e) : t.block[b] \in Children
    BY DEF Directories
  <2>1. CASE e = i
    <3>1. is_directory = TRUE /\ t.files[i].first_block = first
      BY <1>5, <2>1 DEF Dir, NewEntry
    <3> QED BY <1>2, <1>7, <1>14, <2>1, <3>1
  <2>2. CASE e = d
    <3>1. /\ s.files[d].first_block \in Blocks
          /\ \A b \in BlocksOf(s, d) : b \in Blocks /\ s.block[b] \in Children
      BY <1>1, <1>4, BlocksOfChain DEF Directories, Dir
    <3>2. BlocksOf(t, d) = BlocksOf(s, d) \cup {nb}
      BY <1>3 DEF Added
    <3> QED BY <1>4, <1>5, <1>12, <1>15, <2>2, <3>1, <3>2
  <2>3. CASE e # i /\ e # d
    <3>1. Dir(s, e) /\ t.files[e] = s.files[e]
      BY <1>5, <1>6, <2>3
    <3> QED BY <1>1, <1>13, <2>3, <3>1 DEF Directories, KeepsData
  <2> QED BY <2>1, <2>2, <2>3
<1>17. Parented(t)
  <2> SUFFICES ASSUME NEW j \in Files \ {0}, Used(t, j)
               PROVE  /\ Dir(t, t.files[j].parent_index)
                      /\ Holds(t, t.files[j].parent_index, j)
    BY DEF Parented
  <2>1. CASE j = i
    <3>1. t.files[j].parent_index = d
      BY <1>5, <2>1 DEF NewEntry
    <3>2. Dir(t, d)
      BY <1>4, <1>6
    <3>3. nb \in BlocksOf(t, d) /\ nc \in Slots
      BY <1>3 DEF Added
    <3> QED BY <1>15, <2>1, <3>1, <3>2, <3>3 DEF Holds
  <2>2. CASE j # i
    <3> DEFINE e == s.files[j].parent_index
    <3>1. Used(s, j) /\ t.files[j].parent_index = e
      BY <1>5, <1>6, <2>2
    <3>2. Dir(s, e) /\ Holds(s, e, j)
      BY <1>1, <3>1 DEF Parented
    <3> HIDE DEF e
    <3>3. e \in Files /\ e # i /\ Dir(t, e)
      BY <1>4, <1>6, <3>2 DEF Dir
    <3>4. PICK b \in BlocksOf(s, e), c \in Slots : s.block[b][c] = j
      BY <3>2 DEF Holds
    <3>5. j # NoParent
      BY FilesAreNumbers
    <3>6. b \in BlocksOf(t, e) /\ t.block[b][c] = j
      <4>1. CASE e = d
        <5>1. b \in BlocksOf(t, d)
          BY <1>3, <3>4, <4>1 DEF Added
        <5>2. b \in Blocks
          BY <3>4, BlocksOfChain
        <5>3. CASE b = nb
          <6>1. s.block[nb] \in Children /\ s.block[nb][nc] = NoParent
            BY <1>3, <3>4, <4>1, <5>3 DEF Added
          <6> QED BY <1>12, <3>4, <3>5, <4>1, <5>1, <5>3, <6>1 DEF Children
        <5>4. CASE b # nb
          BY <1>12, <3>4, <4>1, <5>1, <5>2, <5>4
        <5> QED BY <5>3, <5>4
      <4>2. CASE e # d
        BY <1>13, <3>3, <3>4, <4>2 DEF KeepsData
      <4> QED BY <4>1, <4>2
    <3> QED BY <3>1, <3>3, <3>4, <3>6 DEF Holds
  <2> QED BY <2>1, <2>2
<1>18. Sized(t)
  <2> SUFFICES ASSUME NEW j \in Files, Used(t, j), ~t.files[j].is_directory
               PROVE  Len(ChainOf(t, j)) \in {0, t.files[j].size}
    BY DEF Sized
  <2>1. CASE j = i
    <3>1. is_directory = FALSE
      BY <1>5, <2>1 DEF NewEntry
    <3> QED BY <1>2, <2>1, <3>1
  <2>2. CASE j # i
    <3>1. j # d /\ Used(s, j) /\ ~s.files[j].is_directory /\ t.files[j] = s.files[j]
      BY <1>4, <1>5, <1>6, <2>2
    <3> QED BY <1>1, <1>2, <2>2, <3>1 DEF Sized
  <2> QED BY <2>1, <2>2
<1>19. Counted(t)
  <2>1. UsedEntries(t) \subseteq UsedEntries(s) \cup {i}
    BY <1>6 DEF UsedEntries
  <2>2. /\ IsFiniteSet(UsedEntries(s)) /\ Cardinality(UsedEntries(s)) \in Nat
        /\ Cardinality(UsedEntries(t)) \in Nat
    BY UsedIsFinite
  <2>3. /\ IsFiniteSet(UsedEntries(s) \cup {i})
        /\ Cardinality(UsedEntries(s) \cup {i}) \in
             {Cardinality(UsedEntries(s)), Cardinality(UsedEntries(s)) + 1}
    BY <2>2, FS_AddElement
  <2>4. Cardinality(UsedEntries(t)) <= Cardinality(UsedEntries(s) \cup {i})
    BY <2>1, <2>3, FS_Subset
  <2>5. /\ Cardinality(UsedEntries(s)) <= s.num_files /\ s.num_files \in Nat
        /\ s.num_files < MaxFiles /\ MaxFiles \in Nat
    BY <1>1, FileSystemAssumption DEF Counted, Typed
  <2> QED BY <1>2, <2>2, <2>3, <2>4, <2>5 DEF Counted
<1>20. Consistent(t)
  BY <1>2, <1>8, <1>9, <1>16, <1>17, <1>18, <1>19 DEF Consistent
<1>21. StaysIn(s, t)
  <2> SUFFICES ASSUME NEW B, Children \subseteq B, s.block \in [Blocks -> B]
               PROVE  t.block \in [Blocks -> B]
    BY DEF StaysIn
  <2>1. \E x : t.block = [s.block EXCEPT ![nb] = x]
    BY <1>3 DEF Added
  <2>2. t.block = [b \in Blocks |-> t.block[b]]
    BY <2>1
  <2>3. \A b \in Blocks : t.block[b] \in B
    BY <1>12, <1>15
  <2> QED BY <2>2, <2>3
<1> QED BY <1>13, <1>20, <1>21 DEF t

-----------------------------------------------------------------------------
(* fs_create_file and fs_create_directory.                                 *)

\* Only a block on no chain is different.
LEMMA OutsideConsistent ==
  ASSUME NEW s, Consistent(s), NEW new \in FreeBlocks(s.fat),
         NEW t, DOMAIN t = DOMAIN s, t.files = s.files, t.num_files = s.num_files,
         t.fat \in Tables, Owned(FirstBlocks(t), t.fat), DOMAIN t.block = Blocks,
         \A b \in Blocks \ {new} : t.fat[b] = s.fat[b] /\ t.block[b] = s.block[b]
  PROVE  /\ Consistent(t)
         /\ \A j \in Files : KeepsData(s, t, j)
<1>1. /\ Typed(s) /\ Owned(FirstBlocks(s), s.fat) /\ Rooted(s) /\ Directories(s)
      /\ Parented(s) /\ Sized(s) /\ Counted(s)
  BY DEF Consistent
<1>2. \A j \in Files : \A b \in BlocksOf(s, j) : b \in Blocks /\ b # new
  BY <1>1, BlocksAreDisjoint DEF FreeBlocks
<1>3. ASSUME NEW j \in Files PROVE KeepsData(s, t, j)
  <2>1. ChainOf(t, j) = ChainOf(s, j) /\ BlocksOf(t, j) = BlocksOf(s, j)
    BY <1>1, <1>2, ChainUntouched
  <2> QED BY <1>2, <2>1 DEF KeepsData
<1>4. Typed(t) /\ Rooted(t) /\ Counted(t)
  BY <1>1 DEF Typed, Rooted, Dir, Used, Counted, UsedEntries
<1>5. Directories(t)
  BY <1>1, <1>3 DEF Directories, Dir, Used, KeepsData
<1>6. Parented(t)
  <2> SUFFICES ASSUME NEW j \in Files \ {0}, Used(t, j)
               PROVE  /\ Dir(t, t.files[j].parent_index)
                      /\ Holds(t, t.files[j].parent_index, j)
    BY DEF Parented
  <2> DEFINE e == s.files[j].parent_index
  <2>1. Dir(s, e) /\ Holds(s, e, j) /\ t.files[j].parent_index = e
    BY <1>1 DEF Parented, Used
  <2> HIDE DEF e
  <2>2. Dir(t, e) /\ KeepsData(s, t, e)
    BY <1>3, <2>1 DEF Dir, Used
  <2>3. Holds(t, e, j)
    BY <2>1, <2>2 DEF Holds, KeepsData
  <2> QED BY <2>1, <2>2, <2>3
<1>7. Sized(t)
  BY <1>1, <1>3 DEF Sized, Used, KeepsData
<1> QED BY <1>3, <1>4, <1>5, <1>6, <1>7 DEF Consistent

\* free_blocks on a block that was just taken gives it back.
LEMMA TakenBack ==
  ASSUME NEW fat \in Tables, NEW new \in FreeBlocks(fat)
  PROVE  free_blocks([fat EXCEPT ![new] = End], new) = fat
<1> DEFINE taken == [fat EXCEPT ![new] = End]
<1>1. /\ new \in Blocks /\ fat[new] = None /\ taken[new] = End
      /\ \A b \in Blocks \ {new} : taken[b] = fat[b]
  BY DEF FreeBlocks, Tables
<1> HIDE DEF taken
<1>2. Reached(taken, new) = {new}
  <2> DEFINE only == {new}
  <2>1. /\ only \in SUBSET Blocks /\ new \in only
        /\ \A c \in only : taken[c] \in Blocks => taken[c] \in only
    BY <1>1, MarksAreNoBlocks
  <2> HIDE DEF only
  <2>2. Reached(taken, new) \subseteq only
    BY <2>1, ReachedIsLeast
  <2>3. new \in Reached(taken, new)
    BY <1>1, ReachedIsLeast
  <2> QED BY <2>2, <2>3 DEF only
<1>3. free_blocks(taken, new) = [c \in Blocks |-> IF c = new THEN None ELSE taken[c]]
  BY <1>2 DEF free_blocks
<1>4. free_blocks(taken, new) = [c \in Blocks |-> fat[c]]
  BY <1>1, <1>3
<1> QED BY <1>4 DEF Tables, taken

\* The root's path is never missing.
LEMMA RootPathFound ==
  ASSUME NEW s, Rooted(s) PROVE find_entry(s, <<>>) = 0
<1> DEFINE p == <<>>
           at[i \in 1 .. Len(p)] == IF i = 1 THEN 1 ELSE at[i - 1] + p[i - 1].len + 1
           kept == {i \in 1 .. Len(p) : at[i] <= MaxName}
<1>1. kept = {} /\ Cardinality(kept) = 0
  <2>1. kept = {}
    OBVIOUS
  <2> HIDE DEF kept
  <2> QED BY <2>1, FS_EmptySet
<1>2. PathCopy(p) = [i \in 1 .. Cardinality(kept) |-> CutAt(p[i], MaxName - at[i])]
  BY DEF PathCopy
<1> HIDE DEF kept, at, p
<1>3. PathCopy(p) = <<>> /\ PathCopy(p) \in Seq({0}) /\ Len(PathCopy(p)) = 0
  BY <1>1, <1>2
<1>4. Components(p) = PathCopy(p)
  BY <1>3 DEF Components
<1>5. Resolve(s, Components(p)) = Root(s)
  BY <1>3, <1>4, ResolveLast
<1> QED BY <1>5, RootIsFirst DEF find_entry, p

LEMMA ParentOfPath ==
  ASSUME NEW p \in Seq(PathNames), p # <<>>
  PROVE  ParentPath(p) \in Seq(PathNames)
BY FrontOfPath, EmptySeq

\* A path that something can be created at is not the root's, and its parent
\* is a directory.
LEMMA CreatablePath ==
  ASSUME Consistent(fs), NEW p \in Seq(PathNames), Creatable(p)
  PROVE  /\ extract_filename(p) \in Names
         /\ Dir(fs, find_entry(fs, ParentPath(p)))
         /\ Min(FreeEntries(fs)) \in FreeEntries(fs)
         /\ fs.num_files < MaxFiles
<1>1. p # <<>>
  BY RootPathFound DEF Creatable, Consistent, NotFound
<1>2. ParentPath(p) \in Seq(PathNames)
  BY <1>1, ParentOfPath
<1> DEFINE d == find_entry(fs, ParentPath(p))
<1>3. d = NotFound \/ (d \in Files /\ Used(fs, d))
  BY <1>2, FoundIsUsed DEF Consistent
<1> HIDE DEF d
<1>4. IsDirectory(fs, d)
  BY DEF Creatable, d
<1>5. Dir(fs, d)
  BY <1>3, <1>4, FilesAreNumbers DEF IsDirectory, Dir
<1>6. Min(FreeEntries(fs)) \in FreeEntries(fs)
  <2>1. FreeEntries(fs) # {} /\ FreeEntries(fs) \subseteq Nat
    BY DEF Creatable, FreeEntries, Files
  <2> QED BY <2>1, MinIsLeast
<1> QED BY <1>1, <1>5, <1>6, NameOfPath DEF Creatable, d

LEMMA EmptyTable == NoChildren \in Children
BY DEF NoChildren, Children

\* fs_create_file.
LEMMA CreateFileStep ==
  ASSUME Consistent(fs), NEW p \in Seq(PathNames), fs_create_file(p)
  PROVE  /\ Consistent(fs') /\ StaysIn(fs, fs')
         /\ \A j \in Files : Used(fs, j) /\ ~fs.files[j].is_directory => KeepsData(fs, fs', j)
<1> DEFINE d == find_entry(fs, ParentPath(p))
           i == Min(FreeEntries(fs))
<1>1. CASE fs' = fs
  BY <1>1 DEF KeepsData, StaysIn
<1>2. CASE /\ Creatable(p) /\ extract_filename(p).len > 0 /\ CanAddChild(fs, d)
           /\ fs' = Enter(add_child_to_directory(fs, d, i), i, p, d, FALSE, None)
  <2>1. /\ extract_filename(p) \in Names /\ Dir(fs, d) /\ i \in FreeEntries(fs)
        /\ fs.num_files < MaxFiles
    BY <1>2, CreatablePath
  <2> HIDE DEF d, i
  <2>5. Fresh(fs, FALSE, None)
    BY DEF Fresh
  <2>6. /\ Consistent(fs') /\ StaysIn(fs, fs')
        /\ \A j \in Files \ {d, i} : KeepsData(fs, fs', j)
    BY <1>2, <2>1, <2>5, CreateConsistent
  <2> QED BY <2>1, <2>6 DEF FreeEntries, Dir
<1> QED BY <1>1, <1>2 DEF fs_create_file, Return, Become

\* The buffer with a block new taken for a directory that is not entered yet.
Taken(s, t, new) ==
  /\ Consistent(t) /\ StaysIn(s, t) /\ (\A j \in Files : KeepsData(s, t, j))
  /\ t.files = s.files /\ t.num_files = s.num_files
  /\ \A b \in Blocks \ {new} : t.fat[b] = s.fat[b]
  /\ Fresh(t, TRUE, new)

\* What is returned when nothing is created.
Refused(p) ==
  \/ ret' = 0 /\ find_entry(fs, p) # NotFound
  \/ ret' = -1 /\ (fs.num_files < MaxFiles => find_entry(fs, p) = NotFound)

\* mkdir enters the directory, or leaves nothing but a trace in a free block.
LEMMA CreateDirectoryCases ==
  ASSUME Consistent(fs), NEW p \in Seq(PathNames), fs_create_directory(p)
  PROVE  \/ /\ Consistent(fs') /\ StaysIn(fs, fs') /\ (\A j \in Files : KeepsData(fs, fs', j))
            /\ fs'.files = fs.files /\ fs'.num_files = fs.num_files /\ fs'.fat = fs.fat
            /\ Refused(p)
         \/ /\ extract_filename(p) \in Names /\ p # <<>> /\ Creatable(p) /\ ret' = 0
            /\ \E taken, new, d, i :
                 /\ d = find_entry(fs, ParentPath(p))
                 /\ Taken(fs, taken, new) /\ taken.num_files < MaxFiles
                 /\ Dir(taken, d) /\ i \in FreeEntries(taken) /\ CanAddChild(taken, d)
                 /\ fs' = Enter(add_child_to_directory(taken, d, i), i, p, d, TRUE, new)
<1> DEFINE d == find_entry(fs, ParentPath(p))
           i == Min(FreeEntries(fs))
           new == Min(FreeBlocks(fs.fat))
           taken == [fs EXCEPT !.fat[new] = End, !.block[new] = NoChildren]
<1>1. CASE fs' = fs /\ Refused(p)
  <2>1. StaysIn(fs, fs) /\ \A j \in Files : KeepsData(fs, fs, j)
    BY DEF KeepsData, StaysIn
  <2> QED BY <1>1, <2>1
<1>2. CASE Creatable(p) /\ FreeBlocks(fs.fat) # {}
           /\ \/ /\ CanAddChild(taken, d) /\ ret' = 0
                 /\ fs' = Enter(add_child_to_directory(taken, d, i), i, p, d, TRUE, new)
              \/ fs' = [taken EXCEPT !.fat = free_blocks(@, new)] /\ ret' = -1
  <2>1. /\ extract_filename(p) \in Names /\ Dir(fs, d) /\ i \in FreeEntries(fs)
        /\ fs.num_files < MaxFiles
    BY <1>2, CreatablePath
  <2>14. p # <<>>
    BY <1>2, RootPathFound DEF Creatable, Consistent, NotFound
  <2>2. new \in FreeBlocks(fs.fat)
    BY <1>2, MinOfFree
  <2>15. d = find_entry(fs, ParentPath(p))
    OBVIOUS
  <2> HIDE DEF d, i, new
  <2>3. Typed(fs) /\ Owned(FirstBlocks(fs), fs.fat)
    BY DEF Consistent
  <2>4. new \in Blocks /\ fs.fat[new] = None
    BY <2>2 DEF FreeBlocks
  <2>5. /\ DOMAIN taken = DOMAIN fs /\ taken.files = fs.files
        /\ taken.num_files = fs.num_files
        /\ taken.fat = [fs.fat EXCEPT ![new] = End]
        /\ taken.block = [fs.block EXCEPT ![new] = NoChildren]
    BY <2>3 DEF Typed
  <2>6. [taken EXCEPT !.fat = free_blocks(@, new)] =
          [taken EXCEPT !.fat = free_blocks(taken.fat, new)]
    OBVIOUS
  <2> HIDE DEF taken
  <2>7. FirstBlocks(taken) = FirstBlocks(fs)
    BY <2>5 DEF FirstBlocks
  <2>8. /\ taken.fat \in Tables /\ Owned(FirstBlocks(taken), taken.fat)
        /\ Unclaimed(FirstBlocks(taken), taken.fat, new)
    BY <2>2, <2>3, <2>5, <2>7, TakeBlock DEF Typed
  <2>9. /\ \A b \in Blocks \ {new} : taken.fat[b] = fs.fat[b] /\ taken.block[b] = fs.block[b]
        /\ DOMAIN taken.block = Blocks
        /\ taken.fat[new] = End /\ taken.block[new] = NoChildren
    BY <2>3, <2>4, <2>5 DEF Typed, Tables
  <2>10. Consistent(taken) /\ \A j \in Files : KeepsData(fs, taken, j)
    BY <2>2, <2>5, <2>8, <2>9, OutsideConsistent
  <2>13. /\ StaysIn(fs, taken)
         /\ fs'.block = taken.block => StaysIn(fs, fs')
    BY <2>4, <2>5, EmptyTable DEF StaysIn
  <2>11. CASE CanAddChild(taken, d) /\ ret' = 0
              /\ fs' = Enter(add_child_to_directory(taken, d, i), i, p, d, TRUE, new)
    <3>1. Dir(taken, d) /\ i \in FreeEntries(taken) /\ taken.num_files < MaxFiles
      BY <2>1, <2>5 DEF Dir, FreeEntries, Used
    <3>2. Fresh(taken, TRUE, new)
      BY <2>4, <2>8, <2>9 DEF Fresh
    <3>3. Taken(fs, taken, new)
      BY <2>5, <2>9, <2>10, <2>13, <3>2 DEF Taken
    <3> QED BY <1>2, <2>1, <2>11, <2>14, <2>15, <3>1, <3>3
  <2>12. CASE fs' = [taken EXCEPT !.fat = free_blocks(@, new)] /\ ret' = -1
    <3>1. free_blocks(taken.fat, new) = fs.fat
      BY <2>2, <2>3, <2>5, TakenBack DEF Typed
    <3>2. /\ DOMAIN fs' = DOMAIN fs /\ fs'.files = fs.files
          /\ fs'.num_files = fs.num_files
          /\ fs'.fat = fs.fat /\ fs'.block = taken.block
      BY <2>3, <2>5, <2>6, <2>12, <3>1 DEF Typed
    <3>3. FirstBlocks(fs') = FirstBlocks(fs)
      BY <3>2 DEF FirstBlocks
    <3>4. Consistent(fs') /\ \A j \in Files : KeepsData(fs, fs', j)
      BY <2>2, <2>3, <2>9, <3>2, <3>3, OutsideConsistent DEF Typed
    <3>5. Refused(p)
      BY <1>2, <2>12 DEF Refused, Creatable
    <3> QED BY <2>13, <3>2, <3>4, <3>5
  <2> QED BY <1>2, <2>11, <2>12
<1>3. CASE AlreadyThere(p) /\ Return(0)
  <2>1. fs' = fs /\ Refused(p)
    BY <1>3 DEF AlreadyThere, Return, Refused
  <2> QED BY <1>1, <2>1
<1>4. CASE /\ ~AlreadyThere(p) \/ Creatable(p)
           /\ Return(-1)
  <2>1. fs' = fs /\ Refused(p)
    BY <1>4 DEF AlreadyThere, Creatable, Return, Refused
  <2> QED BY <1>1, <2>1
<1> QED BY <1>2, <1>3, <1>4 DEF fs_create_directory, Become

\* fs_create_directory.
LEMMA CreateDirectoryStep ==
  ASSUME Consistent(fs), NEW p \in Seq(PathNames), fs_create_directory(p)
  PROVE  /\ Consistent(fs') /\ StaysIn(fs, fs')
         /\ \A j \in Files : Used(fs, j) /\ ~fs.files[j].is_directory => KeepsData(fs, fs', j)
<1>1. CASE Consistent(fs') /\ StaysIn(fs, fs') /\ (\A j \in Files : KeepsData(fs, fs', j))
  BY <1>1
<1>2. ASSUME extract_filename(p) \in Names, NEW taken, NEW new, NEW d, NEW i,
             Taken(fs, taken, new), taken.num_files < MaxFiles,
             Dir(taken, d), i \in FreeEntries(taken), CanAddChild(taken, d),
             fs' = Enter(add_child_to_directory(taken, d, i), i, p, d, TRUE, new)
      PROVE  /\ Consistent(fs') /\ StaysIn(fs, fs')
             /\ \A j \in Files : Used(fs, j) /\ ~fs.files[j].is_directory => KeepsData(fs, fs', j)
  <2>1. /\ Consistent(taken) /\ StaysIn(fs, taken) /\ (\A j \in Files : KeepsData(fs, taken, j))
        /\ taken.files = fs.files /\ Fresh(taken, TRUE, new)
    BY <1>2 DEF Taken
  <2>2. /\ Consistent(fs') /\ StaysIn(taken, fs')
        /\ \A j \in Files \ {d, i} : KeepsData(taken, fs', j)
    BY <1>2, <2>1, CreateConsistent
  <2>3. \A j \in Files \ {d, i} : KeepsData(fs, fs', j)
    BY <2>1, <2>2 DEF KeepsData
  <2>4. StaysIn(fs, fs')
    BY <2>1, <2>2 DEF StaysIn
  <2>5. \A j \in Files : Used(fs, j) /\ ~fs.files[j].is_directory => j \notin {d, i}
    BY <1>2, <2>1 DEF Dir, FreeEntries, Used
  <2> QED BY <2>2, <2>3, <2>4, <2>5
<1> QED BY <1>1, <1>2, CreateDirectoryCases

-----------------------------------------------------------------------------
(* fs_delete_file.                                                         *)

LEMMA EmptyName == NoName \in Names /\ NoName.len = 0
<1>1. ASSUME NEW x \in Texts PROVE Name(x, 0) \in Names /\ Name(x, 0).len = 0
  <2>1. MaxName \in Nat
    BY FileSystemAssumption
  <2>2. 0 \in 0 .. MaxName
    BY <2>1
  <2> QED BY <2>2 DEF Name, Names
<1>2. "" \in Texts
  BY TextsAssumption, Zenon
<1> QED BY <1>1, <1>2, Zenon DEF NoName

\* remove_child_from_directory clears one slot that holds the child.
LEMMA RemoveChildEffect ==
  ASSUME NEW s, Typed(s), NEW d, NEW i, Holds(s, d, i)
  PROVE  LET t == remove_child_from_directory(s, d, i)
         IN  /\ DOMAIN t = DOMAIN s /\ t.files = s.files /\ t.fat = s.fat
             /\ t.num_files = s.num_files
             /\ \E nb \in BlocksOf(s, d), nc \in Slots :
                  /\ s.block[nb][nc] = i
                  /\ t.block = [s.block EXCEPT ![nb] = [s.block[nb] EXCEPT ![nc] = NoParent]]
<1> DEFINE slots == SlotsOf(s, d)
           mine  == {k \in DOMAIN slots : slots[k] = i}
           chain == ChainOf(s, d)
           t     == remove_child_from_directory(s, d, i)
           k     == Min(mine)
           nb    == BlockAt(chain, k)
           nc    == SlotAt(k)
<1>1. mine # {} /\ mine \subseteq Nat
  BY SlotsAreCells DEF Holds
<1>2. k \in DOMAIN slots /\ slots[k] = i
  <2>1. k \in mine
    <3> HIDE DEF mine
    <3> QED BY <1>1, MinIsLeast
  <2> QED BY <2>1
<1>3. t = [s EXCEPT !.block[nb][nc] = NoParent]
  BY <1>1 DEF remove_child_from_directory, SetSlot, BlockAt, SlotAt, ChainOf
<1>4. nb \in BlocksOf(s, d) /\ nc \in Slots /\ slots[k] = s.block[nb][nc]
  BY <1>2, SlotsAreCells
<1> HIDE DEF nb, nc, t, mine, k, slots
<1>5. /\ DOMAIN t = DOMAIN s /\ t.files = s.files /\ t.fat = s.fat
      /\ t.num_files = s.num_files
      /\ t.block = [s.block EXCEPT ![nb] = [s.block[nb] EXCEPT ![nc] = NoParent]]
  BY <1>3 DEF Typed
<1> QED BY <1>2, <1>4, <1>5 DEF t

\* Entry i is gone, with its blocks and with its slot nc in block nb of d.
Deleted(s, t, d, i, nb, nc) ==
  /\ Dir(s, d) /\ d # i /\ nb \in BlocksOf(s, d) /\ nc \in Slots /\ s.block[nb][nc] = i
  /\ \A j \in Files : s.files[i].is_directory => ~Holds(s, i, j)
  /\ DOMAIN t = DOMAIN s /\ t.num_files = s.num_files - 1
  /\ t.files = [s.files EXCEPT ![i] = ClearedEntry]
  /\ t.fat = free_blocks(s.fat, s.files[i].first_block)
  /\ t.fat \in Tables /\ Owned(FirstBlocks(t), t.fat)
  /\ t.block = [s.block EXCEPT ![nb] = [s.block[nb] EXCEPT ![nc] = NoParent]]

\* An entry that is deleted keeps Consistent, and the data of all others.
LEMMA DeleteConsistent ==
  ASSUME NEW s, Consistent(s), NEW i \in Files, Used(s, i), i # 0,
         NEW t, NEW d, NEW nb, NEW nc, Deleted(s, t, d, i, nb, nc)
  PROVE  /\ Consistent(t) /\ StaysIn(s, t)
         /\ \A j \in Files \ {d, i} : KeepsData(s, t, j)
<1>1. /\ Typed(s) /\ Owned(FirstBlocks(s), s.fat) /\ Rooted(s) /\ Directories(s)
      /\ Parented(s) /\ Sized(s) /\ Counted(s)
  BY DEF Consistent
<1>2. /\ t.files[i] = ClearedEntry
      /\ \A j \in Files \ {i} : t.files[j] = s.files[j]
  BY <1>1 DEF Typed, Deleted
<1>3. ~Used(t, i)
  <2>1. t.files[i].name.len = 0
    BY <1>2, EmptyName DEF ClearedEntry
  <2> QED BY <2>1 DEF Used
<1>4. /\ \A j \in Files \ {i} : Used(t, j) <=> Used(s, j)
      /\ \A j \in Files \ {i} : Dir(t, j) <=> Dir(s, j)
  BY <1>2 DEF Used, Dir
<1>5. \A b \in Blocks : b \notin BlocksOf(s, i) => t.fat[b] = s.fat[b]
  <2>1. BlocksOf(s, i) = Reached(s.fat, s.files[i].first_block)
    BY <1>1, ChainIsReached, FirstOfEntry DEF BlocksOf
  <2> QED BY <2>1 DEF free_blocks, Deleted
<1>6. \A j \in Files \ {i} : ChainOf(t, j) = ChainOf(s, j) /\ BlocksOf(t, j) = BlocksOf(s, j)
  <2> SUFFICES ASSUME NEW j \in Files \ {i}
               PROVE  ChainOf(t, j) = ChainOf(s, j) /\ BlocksOf(t, j) = BlocksOf(s, j)
    OBVIOUS
  <2>1. \A b \in BlocksOf(s, j) : t.fat[b] = s.fat[b]
    BY <1>1, <1>5, BlocksAreDisjoint
  <2>2. t.files[j].first_block = s.files[j].first_block
    BY <1>2
  <2> QED BY <1>1, <2>1, <2>2, ChainUntouched
<1>7. d \in Files /\ nb \in Blocks /\ \A j \in Files \ {d} : nb \notin BlocksOf(s, j)
  BY <1>1, BlocksAreDisjoint DEF Dir, Deleted
<1>8. /\ \A b \in Blocks \ {nb} : t.block[b] = s.block[b]
      /\ t.block[nb] = [s.block[nb] EXCEPT ![nc] = NoParent]
      /\ DOMAIN t.block = Blocks
  BY <1>1, <1>7 DEF Typed, Deleted
<1>9. \A j \in Files \ {d, i} : KeepsData(s, t, j)
  BY <1>1, <1>6, <1>7, <1>8, BlocksAreDisjoint DEF KeepsData
<1>10. Cardinality(UsedEntries(t)) = Cardinality(UsedEntries(s)) - 1
       /\ s.num_files >= 1
  <2>1. UsedEntries(t) = UsedEntries(s) \ {i} /\ i \in UsedEntries(s)
    BY <1>3, <1>4 DEF UsedEntries
  <2>2. IsFiniteSet(UsedEntries(s)) /\ Cardinality(UsedEntries(s)) \in Nat
    BY UsedIsFinite
  <2>3. Cardinality(UsedEntries(s) \ {i}) = Cardinality(UsedEntries(s)) - 1
    BY <2>1, <2>2, FS_RemoveElement
  <2>5. Cardinality(UsedEntries(t)) \in Nat
    BY UsedIsFinite
  <2>4. s.num_files \in Nat /\ Cardinality(UsedEntries(s)) <= s.num_files
    BY <1>1 DEF Typed, Counted
  <2> QED BY <2>1, <2>2, <2>3, <2>4, <2>5
<1>11. Typed(t)
  <2>1. ClearedEntry \in Entries
    <3>1. MaxName \in Nat
      BY FileSystemAssumption
    <3> QED BY EmptyName DEF ClearedEntry, Entries
  <2>2. t.files \in [Files -> Entries]
    BY <1>1, <2>1 DEF Typed, Deleted
  <2>3. t.num_files \in Nat
    BY <1>1, <1>10 DEF Typed, Deleted
  <2> QED BY <1>1, <1>8, <2>2, <2>3 DEF Typed, Deleted
<1>12. Rooted(t)
  <2>1. 0 \in Files \ {i} /\ Dir(s, 0) /\ s.files[0].parent_index = NoParent
    BY <1>1, FirstIndices DEF Rooted
  <2> QED BY <1>2, <1>4, <2>1 DEF Rooted
<1>13. s.block[nb] \in Children
  BY <1>1, <1>7 DEF Directories, Deleted
<1>14. Directories(t)
  <2> SUFFICES ASSUME NEW e \in Files, Dir(t, e)
               PROVE  /\ t.files[e].first_block \in Blocks
                      /\ \A b \in BlocksOf(t, e) : t.block[b] \in Children
    BY DEF Directories
  <2>1. e # i
    BY <1>3 DEF Dir
  <2>2. /\ s.files[e].first_block \in Blocks
        /\ \A b \in BlocksOf(s, e) : b \in Blocks /\ s.block[b] \in Children
    BY <1>1, <1>4, <2>1, BlocksOfChain DEF Directories
  <2>3. t.block[nb] \in Children
    BY <1>8, <1>13 DEF Children
  <2>4. BlocksOf(t, e) = BlocksOf(s, e) /\ t.files[e] = s.files[e]
    BY <1>2, <1>6, <2>1
  <2> QED BY <1>8, <2>2, <2>3, <2>4
<1>15. Parented(t)
  <2> SUFFICES ASSUME NEW j \in Files \ {0}, Used(t, j)
               PROVE  /\ Dir(t, t.files[j].parent_index)
                      /\ Holds(t, t.files[j].parent_index, j)
    BY DEF Parented
  <2> DEFINE e == s.files[j].parent_index
  <2>1. j # i /\ Used(s, j) /\ t.files[j].parent_index = e
    BY <1>2, <1>3, <1>4
  <2>2. Dir(s, e) /\ Holds(s, e, j)
    BY <1>1, <2>1 DEF Parented
  <2> HIDE DEF e
  <2>3. e # i
    BY <2>2 DEF Dir, Deleted
  <2>4. e \in Files /\ Dir(t, e)
    BY <1>4, <2>2, <2>3 DEF Dir
  <2>5. PICK b \in BlocksOf(s, e), c \in Slots : s.block[b][c] = j
    BY <2>2 DEF Holds
  <2>6. b \in BlocksOf(t, e)
    BY <1>6, <2>3, <2>4, <2>5
  <2>7. b \in Blocks
    BY <2>5, BlocksOfChain
  <2>8. t.block[b][c] = j
    BY <1>8, <1>13, <2>1, <2>5, <2>7 DEF Children, Deleted
  <2> QED BY <2>1, <2>4, <2>6, <2>8 DEF Holds
<1>16. Sized(t)
  <2> SUFFICES ASSUME NEW j \in Files, Used(t, j), ~t.files[j].is_directory
               PROVE  Len(ChainOf(t, j)) \in {0, t.files[j].size}
    BY DEF Sized
  <2> QED BY <1>1, <1>2, <1>3, <1>4, <1>6 DEF Sized
<1>17. Counted(t)
  <2>1. /\ Cardinality(UsedEntries(s)) <= s.num_files /\ s.num_files \in Nat
        /\ s.num_files <= MaxFiles
    BY <1>1 DEF Counted, Typed
  <2>2. Cardinality(UsedEntries(s)) \in Nat
    BY UsedIsFinite
  <2>3. MaxFiles \in Nat
    BY FileSystemAssumption
  <2> QED BY <1>10, <2>1, <2>2, <2>3 DEF Counted, Deleted
<1>18. StaysIn(s, t)
  <2> SUFFICES ASSUME NEW B, Children \subseteq B, s.block \in [Blocks -> B]
               PROVE  t.block \in [Blocks -> B]
    BY DEF StaysIn
  <2>1. t.block = [b \in Blocks |-> t.block[b]]
    BY <1>7 DEF Deleted
  <2>2. t.block[nb] \in Children
    BY <1>8, <1>13 DEF Children
  <2>3. \A b \in Blocks : t.block[b] \in B
    BY <1>8, <2>2
  <2> QED BY <2>1, <2>3
<1> QED BY <1>9, <1>18, <1>11, <1>12, <1>14, <1>15, <1>16, <1>17 DEF Consistent, Deleted

LEMMA ConsistentIsGood == ASSUME NEW s, Consistent(s) PROVE Good(s)
BY TypedIsShaped DEF Consistent, Good

\* rm clears an entry that a directory holds, or nothing.
LEMMA DeleteCases ==
  ASSUME Consistent(fs), NEW p \in Seq(PathNames), fs_delete_file(p)
  PROVE  LET i == find_entry(fs, p)
         IN  \/ ~Deletable(i) /\ fs' = fs /\ ret' = -1
             \/ /\ Deletable(i) /\ ret' = 0
                /\ i \in Files /\ Used(fs, i) /\ i # 0
                /\ \E d, nb, nc : Deleted(fs, fs', d, i, nb, nc)
<1> DEFINE i == find_entry(fs, p)
           d == FoundParent(fs, p)
           s == remove_child_from_directory(fs, d, i)
<1>1. CASE ~Deletable(i) /\ fs' = fs /\ ret' = -1
  BY <1>1
<1>2. CASE /\ Deletable(i) /\ ret' = 0
           /\ fs' = [s EXCEPT !.fat = free_blocks(@, fs.files[i].first_block),
                              !.files[i] = ClearedEntry, !.num_files = @ - 1]
  <2>1. /\ Typed(fs) /\ Rooted(fs)
    BY DEF Consistent
  <2>2. i \in Files /\ fs.files[i].parent_index # NoParent
    BY <1>2 DEF Deletable
  <2>3. i # 0
    BY <2>1, <2>2 DEF Rooted
  <2>4. Used(fs, i) /\ Dir(fs, d) /\ Holds(fs, d, i)
    BY <2>1, <2>2, <2>3, FoundIsUsed, FilesAreNumbers
  <2>5. ASSUME fs.files[i].is_directory, NEW j \in Files PROVE ~Holds(fs, i, j)
    <3>1. \A k \in DOMAIN SlotsOf(fs, i) : SlotsOf(fs, i)[k] = NoParent
      BY <1>2, <2>5 DEF Deletable
    <3> QED BY <3>1, SlotsAreCells, FilesAreNumbers DEF Holds
  <2>6. d # i
    BY <2>2, <2>4, <2>5 DEF Dir
  <2>7. /\ DOMAIN s = DOMAIN fs /\ s.files = fs.files /\ s.fat = fs.fat
        /\ s.num_files = fs.num_files
        /\ \E nb \in BlocksOf(fs, d), nc \in Slots :
             /\ fs.block[nb][nc] = i
             /\ s.block = [fs.block EXCEPT ![nb] = [fs.block[nb] EXCEPT ![nc] = NoParent]]
    BY <2>1, <2>4, RemoveChildEffect
  <2> HIDE DEF i, d, s
  <2>8. PICK nb \in BlocksOf(fs, d), nc \in Slots :
             /\ fs.block[nb][nc] = i
             /\ s.block = [fs.block EXCEPT ![nb] = [fs.block[nb] EXCEPT ![nc] = NoParent]]
    BY <2>7
  <2>9. /\ DOMAIN fs' = DOMAIN fs /\ fs'.num_files = fs.num_files - 1
        /\ fs'.files = [fs.files EXCEPT ![i] = ClearedEntry]
        /\ fs'.fat = free_blocks(fs.fat, fs.files[i].first_block)
        /\ fs'.block = s.block
    BY <1>2, <2>1, <2>7 DEF Typed
  <2>10. Good(fs')
    BY ConsistentIsGood, DeleteGood
  <2>11. fs'.fat \in Tables /\ Owned(FirstBlocks(fs'), fs'.fat)
    BY <2>10 DEF Good, Shape
  <2>12. Deleted(fs, fs', d, i, nb, nc)
    <3>1. fs'.block = [fs.block EXCEPT ![nb] = [fs.block[nb] EXCEPT ![nc] = NoParent]]
      BY <2>8, <2>9
    <3> QED BY <2>4, <2>5, <2>6, <2>8, <2>9, <2>11, <3>1 DEF Deleted
  <2> QED BY <1>2, <2>2, <2>3, <2>4, <2>12 DEF i
<1> QED BY <1>1, <1>2 DEF fs_delete_file, Return, Become

\* fs_delete_file keeps the data of every file but the one it deletes.
LEMMA DeleteStep ==
  ASSUME Consistent(fs), NEW p \in Seq(PathNames), fs_delete_file(p)
  PROVE  /\ Consistent(fs') /\ StaysIn(fs, fs')
         /\ \A j \in Files :
              Used(fs, j) /\ ~fs.files[j].is_directory /\ j # find_entry(fs, p)
                => KeepsData(fs, fs', j)
<1> DEFINE i == find_entry(fs, p)
<1>1. CASE fs' = fs
  <2>1. \A j \in Files : KeepsData(fs, fs, j)
    BY DEF KeepsData
  <2> QED BY <1>1, <2>1 DEF StaysIn
<1>2. ASSUME i \in Files, Used(fs, i), i # 0, NEW d, NEW nb, NEW nc,
             Deleted(fs, fs', d, i, nb, nc)
      PROVE  /\ Consistent(fs') /\ StaysIn(fs, fs')
             /\ \A j \in Files :
                  Used(fs, j) /\ ~fs.files[j].is_directory /\ j # i => KeepsData(fs, fs', j)
  <2> HIDE DEF i
  <2>1. /\ Consistent(fs') /\ StaysIn(fs, fs')
        /\ \A j \in Files \ {d, i} : KeepsData(fs, fs', j)
    BY <1>2, DeleteConsistent
  <2>2. \A j \in Files : ~fs.files[j].is_directory => j # d
    BY <1>2 DEF Dir, Deleted
  <2> QED BY <2>1, <2>2
<1> QED BY <1>1, <1>2, DeleteCases

-----------------------------------------------------------------------------
(* fs_write_file.                                                          *)

\* Only the blocks and the size of file i are different.
Rewritten(s, t, i) ==
  /\ DOMAIN t = DOMAIN s /\ t.num_files = s.num_files
  /\ t.files \in [Files -> Entries]
  /\ \A j \in Files \ {i} : t.files[j] = s.files[j]
  /\ t.files[i].name = s.files[i].name
  /\ t.files[i].is_directory = s.files[i].is_directory
  /\ t.files[i].parent_index = s.files[i].parent_index
  /\ t.fat \in Tables /\ DOMAIN t.block = Blocks /\ Owned(FirstBlocks(t), t.fat)
  /\ Len(ChainOf(t, i)) \in {0, t.files[i].size}
  /\ \A j \in Files \ {i} : KeepsData(s, t, j)
  /\ \A b \in Blocks : t.fat[b] # None =>
       b \in BlocksOf(t, i) \/ (s.fat[b] # None /\ b \notin BlocksOf(s, i))

\* A file that is rewritten keeps Consistent.
LEMMA RewrittenConsistent ==
  ASSUME NEW s, Consistent(s), NEW i \in Files, ~s.files[i].is_directory,
         NEW t, Rewritten(s, t, i)
  PROVE  Consistent(t)
<1>1. /\ Typed(s) /\ Owned(FirstBlocks(s), s.fat) /\ Rooted(s) /\ Directories(s)
      /\ Parented(s) /\ Sized(s) /\ Counted(s)
  BY DEF Consistent
<1>2. \A j \in Files : /\ Used(t, j) <=> Used(s, j)
                       /\ Dir(t, j) <=> Dir(s, j)
                       /\ t.files[j].parent_index = s.files[j].parent_index
  <2> SUFFICES ASSUME NEW j \in Files
               PROVE  /\ Used(t, j) <=> Used(s, j)
                      /\ Dir(t, j) <=> Dir(s, j)
                      /\ t.files[j].parent_index = s.files[j].parent_index
    OBVIOUS
  <2>1. CASE j = i
    BY <2>1 DEF Rewritten, Used, Dir
  <2>2. CASE j # i
    BY <2>2 DEF Rewritten, Used, Dir
  <2> QED BY <2>1, <2>2
<1>3. \A j \in Files \ {i} : t.files[j] = s.files[j] /\ KeepsData(s, t, j)
  BY DEF Rewritten
<1>4. \A d : Dir(s, d) => d \in Files \ {i}
  BY DEF Dir
<1>5. Typed(t)
  BY <1>1 DEF Typed, Rewritten
<1>6. Rooted(t)
  <2>1. Dir(s, 0) /\ s.files[0].parent_index = NoParent /\ 0 \in Files
    BY <1>1, FirstIndices DEF Rooted
  <2> QED BY <1>2, <2>1 DEF Rooted
<1>7. Directories(t)
  <2> SUFFICES ASSUME NEW e \in Files, Dir(t, e)
               PROVE  /\ t.files[e].first_block \in Blocks
                      /\ \A b \in BlocksOf(t, e) : t.block[b] \in Children
    BY DEF Directories
  <2>1. Dir(s, e) /\ e \in Files \ {i}
    BY <1>2, <1>4
  <2> QED BY <1>1, <1>3, <2>1 DEF Directories, KeepsData
<1>8. Parented(t)
  <2> SUFFICES ASSUME NEW j \in Files \ {0}, Used(t, j)
               PROVE  /\ Dir(t, t.files[j].parent_index)
                      /\ Holds(t, t.files[j].parent_index, j)
    BY DEF Parented
  <2> DEFINE e == s.files[j].parent_index
  <2>1. Dir(s, e) /\ Holds(s, e, j) /\ t.files[j].parent_index = e
    BY <1>1, <1>2 DEF Parented
  <2> HIDE DEF e
  <2>2. e \in Files \ {i} /\ Dir(t, e) /\ KeepsData(s, t, e)
    BY <1>2, <1>3, <1>4, <2>1
  <2>3. Holds(t, e, j)
    BY <2>1, <2>2 DEF Holds, KeepsData
  <2> QED BY <2>1, <2>2, <2>3
<1>9. Sized(t)
  <2> SUFFICES ASSUME NEW j \in Files, Used(t, j), ~t.files[j].is_directory
               PROVE  Len(ChainOf(t, j)) \in {0, t.files[j].size}
    BY DEF Sized
  <2>1. CASE j = i
    BY <2>1 DEF Rewritten
  <2>2. CASE j # i
    BY <1>1, <1>2, <1>3, <2>2 DEF Sized, KeepsData
  <2> QED BY <2>1, <2>2
<1>10. Counted(t)
  <2>1. UsedEntries(t) = UsedEntries(s)
    BY <1>2 DEF UsedEntries
  <2> QED BY <1>1, <2>1 DEF Counted, Rewritten
<1> QED BY <1>5, <1>6, <1>7, <1>8, <1>9, <1>10 DEF Consistent, Rewritten

\* Table fat without the chain of entry i.
LEMMA FreedChain ==
  ASSUME NEW s, Owned(FirstBlocks(s), s.fat), NEW i \in Files, NEW b \in Blocks
  PROVE  free_blocks(s.fat, s.files[i].first_block)[b] =
           IF b \in BlocksOf(s, i) THEN None ELSE s.fat[b]
<1>1. BlocksOf(s, i) = Reached(s.fat, s.files[i].first_block)
  BY ChainIsReached, FirstOfEntry DEF BlocksOf
<1> QED BY <1>1 DEF free_blocks

\* What the write leaves free is on no other entry's chain.
LEMMA FreedForWrite ==
  ASSUME NEW s, Owned(FirstBlocks(s), s.fat), NEW i \in Files,
         NEW left, left = free_blocks(s.fat, s.files[i].first_block),
         NEW j \in Files \ {i}, NEW b \in BlocksOf(s, j)
  PROVE  b \in Blocks /\ left[b] = s.fat[b] /\ b \notin FreeBlocks(left)
<1>1. BlocksOf(s, i) = Reached(s.fat, s.files[i].first_block)
  BY ChainIsReached, FirstOfEntry DEF BlocksOf
<1>2. b \in Blocks /\ s.fat[b] # None /\ b \notin BlocksOf(s, i)
  BY BlocksAreDisjoint
<1>3. left[b] = s.fat[b]
  BY <1>1, <1>2 DEF free_blocks
<1> QED BY <1>2, <1>3 DEF FreeBlocks

\* What entry i leads to is the content.
Stored(s, i, content) ==
  /\ s.files[i].size = Len(content) /\ Len(ChainOf(s, i)) = Len(content)
  /\ \A k \in 1 .. Len(content) : s.block[ChainOf(s, i)[k]] = content[k]

\* fs_write_file finds no file and changes nothing, or rewrites the file that it
\* finds: the data is stored if it returns 0, and lost if not.
LEMMA WriteStep ==
  ASSUME Consistent(fs), NEW p \in Seq(PathNames), NEW content,
         fs_write_file(p, content)
  PROVE  /\ Consistent(fs')
         /\ \/ ~IsFile(fs, find_entry(fs, p)) /\ fs' = fs /\ ret' = -1
            \/ /\ IsFile(fs, find_entry(fs, p))
               /\ Rewritten(fs, fs', find_entry(fs, p))
               /\ ret' # 0 => ret' = -1 /\ Len(ChainOf(fs', find_entry(fs, p))) = 0
               /\ ret' = 0 => Stored(fs', find_entry(fs, p), content)
<1> DEFINE i    == find_entry(fs, p)
           left == free_blocks(fs.fat, fs.files[i].first_block)
           bs   == allocate_block(left, Len(content))
           data == [b \in Blocks |->
                      IF b \in bs THEN content[1 + Cardinality({c \in bs : c < b})]
                                  ELSE fs.block[b]]
<1>1. Typed(fs) /\ Owned(FirstBlocks(fs), fs.fat)
  BY DEF Consistent
<1>2. ASSUME i \in Files
      PROVE  /\ \A j \in Files \ {i}, b \in Blocks : b \in BlocksOf(fs, j) =>
                  left[b] = fs.fat[b] /\ b \notin bs
             /\ bs \in SUBSET Blocks
             /\ IsFiniteSet(bs) /\ Cardinality(bs) \in Nat
  <2>1. bs \subseteq FreeBlocks(left) /\ FreeBlocks(left) \subseteq Blocks
    BY DEF allocate_block, FreeBlocks
  <2>2. IsFiniteSet(Blocks)
    <3>1. MaxBlocks - 1 \in Int
      BY FileSystemAssumption
    <3> QED BY <3>1, FS_Interval DEF Blocks
  <2> HIDE DEF i, bs
  <2>3. IsFiniteSet(bs) /\ Cardinality(bs) \in Nat
    BY <2>1, <2>2, FS_Subset, FS_CardinalityType
  <2>4. \A j \in Files \ {i}, b \in Blocks : b \in BlocksOf(fs, j) =>
          left[b] = fs.fat[b] /\ b \notin FreeBlocks(left)
    BY <1>1, <1>2, FreedForWrite
  <2> HIDE DEF left
  <2> QED BY <2>1, <2>3, <2>4
<1>3. Good(fs')
  BY ConsistentIsGood, WriteGood
<1>4. fs'.fat \in Tables /\ Owned(FirstBlocks(fs'), fs'.fat)
  BY <1>3 DEF Good, Shape
<1>5. CASE IsFile(fs, i) /\ fs' = FailedWrite(i, left) /\ ret' = -1
  <2>1. i \in Files /\ ~fs.files[i].is_directory
    BY <1>5 DEF IsFile
  <2>2. \A j \in Files \ {i}, b \in Blocks : b \in BlocksOf(fs, j) => left[b] = fs.fat[b]
    BY <1>2, <2>1
  <2> HIDE DEF i, left
  <2>3. fs' = [fs EXCEPT !.fat = left, !.files[i].first_block = None]
    BY <1>5 DEF FailedWrite
  <2>4. /\ DOMAIN fs' = DOMAIN fs /\ fs'.num_files = fs.num_files
        /\ fs'.files = [fs.files EXCEPT ![i] = [fs.files[i] EXCEPT !.first_block = None]]
        /\ fs'.fat = left /\ fs'.block = fs.block
    BY <1>1, <2>3 DEF Typed
  <2>5. fs.files[i] \in Entries
    BY <1>1, <2>1 DEF Typed
  <2>6. /\ fs'.files \in [Files -> Entries]
        /\ fs'.files[i] = [fs.files[i] EXCEPT !.first_block = None]
        /\ \A j \in Files \ {i} : fs'.files[j] = fs.files[j]
    BY <1>1, <2>1, <2>4, <2>5 DEF Typed, Entries
  <2>7. /\ fs'.files[i].name = fs.files[i].name
        /\ fs'.files[i].is_directory = fs.files[i].is_directory
        /\ fs'.files[i].parent_index = fs.files[i].parent_index
        /\ fs'.files[i].first_block = None
    BY <2>5, <2>6 DEF Entries
  <2>8. Len(ChainOf(fs', i)) = 0
    BY <2>7, ShortChains, MarksAreNoBlocks DEF ChainOf
  <2>9. ASSUME NEW j \in Files \ {i} PROVE KeepsData(fs, fs', j)
    <3>1. \A b \in BlocksOf(fs, j) : fs'.fat[b] = fs.fat[b]
      BY <2>2, <2>4, BlocksOfChain
    <3>2. fs'.files[j].first_block = fs.files[j].first_block
      BY <2>6
    <3>3. ChainOf(fs', j) = ChainOf(fs, j) /\ BlocksOf(fs', j) = BlocksOf(fs, j)
      BY <1>1, <3>1, <3>2, ChainUntouched
    <3> QED BY <2>4, <3>3 DEF KeepsData
  <2>10. DOMAIN fs'.block = Blocks
    BY <1>1, <2>4 DEF Typed
  <2>13. \A b \in Blocks : left[b] # None => fs.fat[b] # None /\ b \notin BlocksOf(fs, i)
    BY <1>1, <2>1, FreedChain DEF left
  <2>11. Rewritten(fs, fs', i)
    BY <1>4, <2>4, <2>6, <2>7, <2>8, <2>9, <2>10, <2>13 DEF Rewritten
  <2>12. Consistent(fs')
    BY <2>1, <2>11, RewrittenConsistent
  <2> QED BY <1>5, <2>8, <2>11, <2>12 DEF i
<1>6. CASE /\ IsFile(fs, i) /\ Cardinality(bs) = Len(content) /\ ret' = 0
           /\ fs' = [fs EXCEPT
                       !.fat = Linked(left, bs), !.block = data,
                       !.files[i].first_block = IF bs = {} THEN None ELSE Min(bs),
                       !.files[i].size = Len(content)]
  <2> DEFINE first == IF bs = {} THEN None ELSE Min(bs)
  <2>1. i \in Files /\ ~fs.files[i].is_directory
    BY <1>6 DEF IsFile
  <2>2. /\ \A j \in Files \ {i}, b \in Blocks : b \in BlocksOf(fs, j) =>
             left[b] = fs.fat[b] /\ b \notin bs
        /\ bs \in SUBSET Blocks /\ Cardinality(bs) \in Nat
    BY <1>2, <2>1
  <2>3. /\ \A b \in Blocks \ bs : data[b] = fs.block[b]
        /\ \A b \in bs : data[b] = content[1 + Cardinality({c \in bs : c < b})]
    BY <2>2
  <2>4. DOMAIN data = Blocks
    OBVIOUS
  <2> HIDE DEF i, left, bs, data
  <2>5. first \in Blocks \cup {None}
    <3>1. bs \subseteq Nat
      BY <2>2 DEF Blocks
    <3>2. bs # {} => Min(bs) \in bs
      BY <3>1, MinIsLeast
    <3> QED BY <2>2, <3>2
  <2> HIDE DEF first
  <2>6. fs' = [fs EXCEPT !.fat = Linked(left, bs), !.block = data,
                 !.files[i].first_block = first, !.files[i].size = Len(content)]
    BY <1>6 DEF first
  <2>7. /\ DOMAIN fs' = DOMAIN fs /\ fs'.num_files = fs.num_files
        /\ fs'.files = [fs.files EXCEPT ![i] =
                          [fs.files[i] EXCEPT !.first_block = first, !.size = Len(content)]]
        /\ fs'.fat = Linked(left, bs) /\ fs'.block = data
    BY <1>1, <2>1, <2>6 DEF Typed
  <2>8. fs.files[i] \in Entries /\ Len(content) \in Nat
    BY <1>1, <1>6, <2>1, <2>2 DEF Typed
  <2>9. /\ fs'.files \in [Files -> Entries]
        /\ fs'.files[i] = [fs.files[i] EXCEPT !.first_block = first, !.size = Len(content)]
        /\ \A j \in Files \ {i} : fs'.files[j] = fs.files[j]
    BY <1>1, <2>1, <2>5, <2>7, <2>8 DEF Typed, Entries
  <2>10. /\ fs'.files[i].name = fs.files[i].name
         /\ fs'.files[i].is_directory = fs.files[i].is_directory
         /\ fs'.files[i].parent_index = fs.files[i].parent_index
         /\ fs'.files[i].first_block = first /\ fs'.files[i].size = Len(content)
    BY <2>8, <2>9 DEF Entries
  <2>11. /\ Len(ChainOf(fs', i)) = Len(content) /\ BlocksOf(fs', i) = bs
         /\ \A k \in 1 .. Len(content) :
              Cardinality({c \in bs : c < ChainOf(fs', i)[k]}) = k - 1
    <3>1. ChainOf(fs', i) = Chain(Linked(left, bs), first)
      BY <2>7, <2>10 DEF ChainOf
    <3>2. CASE bs = {}
      <4>1. first = None /\ Cardinality(bs) = 0
        BY <3>2, FS_EmptySet DEF first
      <4>2. ChainOf(fs', i) = <<>> /\ Len(ChainOf(fs', i)) = 0
        BY <3>1, <4>1, ShortChains, MarksAreNoBlocks
      <4>3. BlocksOf(fs', i) = {}
        BY <4>2, BlocksOfChain
      <4>4. 1 .. Len(content) = {}
        BY <1>6, <4>1
      <4> QED BY <1>6, <3>2, <4>1, <4>2, <4>3, <4>4
    <3>3. CASE bs # {}
      <4>1. first = Min(bs)
        BY <3>3 DEF first
      <4> DEFINE q == Chain(Linked(left, bs), Min(bs))
      <4>2. /\ Range(q) = bs /\ Len(q) = Cardinality(bs)
            /\ \A k \in 1 .. Len(q) : Cardinality({c \in bs : c < q[k]}) = k - 1
        BY <2>2, <3>3, LinkedChain
      <4>3. ChainOf(fs', i) = q
        BY <3>1, <4>1
      <4> HIDE DEF q
      <4> QED BY <1>6, <4>2, <4>3 DEF BlocksOf
    <3> QED BY <3>2, <3>3
  <2>17. Stored(fs', i, content)
    <3>1. ASSUME NEW k \in 1 .. Len(content)
          PROVE  fs'.block[ChainOf(fs', i)[k]] = content[k]
      <4>1. ChainOf(fs', i)[k] \in bs
        BY <2>11, BlocksOfChain
      <4>2. 1 + (k - 1) = k
        BY <2>8
      <4> DEFINE b == ChainOf(fs', i)[k]
      <4>3. b \in bs /\ Cardinality({c \in bs : c < b}) = k - 1
        BY <2>11, <4>1
      <4> HIDE DEF b
      <4>4. fs'.block[b] = content[k]
        BY <2>3, <2>7, <4>2, <4>3
      <4> QED BY <4>4 DEF b
    <3> QED BY <2>10, <2>11, <3>1 DEF Stored
  <2>12. ASSUME NEW j \in Files \ {i} PROVE KeepsData(fs, fs', j)
    <3>1. \A b \in BlocksOf(fs, j) : b \in Blocks /\ left[b] = fs.fat[b] /\ b \notin bs
      BY <2>2, BlocksOfChain
    <3>2. \A b \in BlocksOf(fs, j) : fs'.fat[b] = fs.fat[b] /\ fs'.block[b] = fs.block[b]
      BY <2>3, <2>7, <3>1 DEF Linked
    <3>3. fs'.files[j].first_block = fs.files[j].first_block
      BY <2>9
    <3>4. ChainOf(fs', j) = ChainOf(fs, j) /\ BlocksOf(fs', j) = BlocksOf(fs, j)
      BY <1>1, <3>2, <3>3, ChainUntouched
    <3> QED BY <3>2, <3>4 DEF KeepsData
  <2>15. \A b \in Blocks : left[b] # None => fs.fat[b] # None /\ b \notin BlocksOf(fs, i)
    BY <1>1, <2>1, FreedChain DEF left
  <2>16. \A b \in Blocks : fs'.fat[b] # None =>
           b \in BlocksOf(fs', i) \/ (fs.fat[b] # None /\ b \notin BlocksOf(fs, i))
    BY <2>7, <2>11, <2>15 DEF Linked
  <2>13. Rewritten(fs, fs', i)
    BY <1>4, <2>4, <2>7, <2>9, <2>10, <2>11, <2>12, <2>16 DEF Rewritten
  <2>14. Consistent(fs')
    BY <2>1, <2>13, RewrittenConsistent
  <2> QED BY <1>6, <2>13, <2>14, <2>17 DEF i
<1>7. CASE ~IsFile(fs, i) /\ fs' = fs /\ ret' = -1
  BY <1>7
<1> QED BY <1>5, <1>6, <1>7 DEF fs_write_file, Return, Become

-----------------------------------------------------------------------------
(* fs_init and the sample files.                                           *)

\* fs_init.
LEMMA InitConsistent == Init => Consistent(fs) /\ fs.block \in [Blocks -> Children]
<1> SUFFICES ASSUME Init PROVE Consistent(fs) /\ fs.block \in [Blocks -> Children]
  OBVIOUS
<1>1. 0 \in Files /\ 1 \in Blocks
  BY FirstIndices
<1> DEFINE root == [ClearedEntry EXCEPT !.name = Name("root", 4), !.first_block = 1,
                                        !.is_directory = TRUE]
<1>2. Name("root", 4) \in Names /\ Name("root", 4).len = 4
  <2>1. ASSUME NEW x \in Texts PROVE Name(x, 4) \in Names /\ Name(x, 4).len = 4
    <3>1. 4 \in 0 .. MaxName
      BY FileSystemAssumption
    <3> QED BY <3>1 DEF Name, Names
  <2>2. "root" \in Texts
    BY TextsAssumption, Zenon
  <2> QED BY <2>1, <2>2, Zenon
<1>3. ClearedEntry \in Entries /\ ClearedEntry.name.len = 0
      /\ ClearedEntry.parent_index = NoParent
  BY EmptyName DEF ClearedEntry, Entries
<1>4. /\ root \in Entries /\ root.name.len = 4 /\ root.first_block = 1
      /\ root.is_directory = TRUE /\ root.parent_index = NoParent
  <2> DEFINE name == Name("root", 4)
  <2> HIDE DEF name
  <2>1. name \in Names /\ name.len = 4
    BY <1>2 DEF name
  <2>2. root = [ClearedEntry EXCEPT !.name = name, !.first_block = 1, !.is_directory = TRUE]
    BY Zenon DEF name
  <2> HIDE DEF root
  <2> QED BY <1>1, <1>3, <2>1, <2>2 DEF Entries
<1>5. /\ DOMAIN fs = {"files", "num_files", "fat", "block"} /\ fs.num_files = 1
      /\ fs.files = [i \in Files |-> IF i = 0 THEN root ELSE ClearedEntry]
      /\ fs.fat = [b \in Blocks |-> IF b = 1 THEN End ELSE None]
      /\ fs.block = [b \in Blocks |-> IF b = 1 THEN NoChildren ELSE [k \in Slots |-> 0]]
  BY Zenon DEF Init
<1> HIDE DEF root
<1>6. fs.block \in [Blocks -> Children]
  BY <1>1, <1>5 DEF Children, NoChildren
<1>7. Good(fs)
  BY InitGood
<1>8. Typed(fs)
  BY <1>3, <1>4, <1>5, <1>7 DEF Typed, Good, Shape
<1>9. \A i \in Files : Used(fs, i) <=> i = 0
  BY <1>1, <1>3, <1>4, <1>5 DEF Used
<1>10. Rooted(fs)
  BY <1>1, <1>4, <1>5, <1>9 DEF Rooted, Dir
<1>11. Directories(fs)
  BY <1>1, <1>4, <1>5, <1>6, <1>9, BlocksOfChain DEF Directories, Dir
<1>12. Parented(fs) /\ Sized(fs)
  BY <1>4, <1>5, <1>9 DEF Parented, Sized
<1>13. Counted(fs)
  <2>1. UsedEntries(fs) = {0}
    BY <1>1, <1>9 DEF UsedEntries
  <2>2. Cardinality(UsedEntries(fs)) = 1
    BY <2>1, FS_Singleton
  <2>3. MaxFiles \in Nat /\ 1 <= MaxFiles
    BY FileSystemAssumption
  <2> QED BY <1>5, <2>2, <2>3 DEF Counted
<1> QED BY <1>6, <1>7, <1>8, <1>10, <1>11, <1>12, <1>13 DEF Consistent, Good

\* Paths whose last name is not empty.
Named(p) == p # <<>> => p[Len(p)].len > 0

LEMMA SamplePaths ==
  \A p \in {Welcome, Readme, Docs, Manual} : p \in Seq(PathNames) /\ Named(p)
<1>1. ASSUME NEW x \in Texts, NEW n \in Nat, n > 0
      PROVE  <<Name(x, n)>> \in Seq(PathNames) /\ Named(<<Name(x, n)>>)
  <2>1. Name(x, n) \in PathNames /\ Name(x, n).len = n
    BY DEF Name, PathNames
  <2> HIDE DEF Name
  <2>2. <<Name(x, n)>>[1] = Name(x, n) /\ Len(<<Name(x, n)>>) = 1
    OBVIOUS
  <2> QED BY <1>1, <2>1, <2>2 DEF Named
<1>2. ASSUME NEW p \in Seq(PathNames), NEW x \in Texts, NEW n \in Nat, n > 0
      PROVE  p \o <<Name(x, n)>> \in Seq(PathNames) /\ Named(p \o <<Name(x, n)>>)
  <2>1. Name(x, n) \in PathNames /\ Name(x, n).len = n
    BY DEF Name, PathNames
  <2> HIDE DEF Name
  <2> QED BY <1>2, <2>1 DEF Named
<1>3. /\ "welcome.txt" \in Texts /\ "readme.txt" \in Texts
      /\ "docs" \in Texts /\ "manual.txt" \in Texts
  BY TextsAssumption, Zenon
<1>4. /\ 4 \in Nat /\ 10 \in Nat /\ 11 \in Nat /\ 4 > 0 /\ 10 > 0 /\ 11 > 0
  OBVIOUS
<1>5. /\ Welcome \in Seq(PathNames) /\ Named(Welcome)
      /\ Readme \in Seq(PathNames) /\ Named(Readme)
      /\ Docs \in Seq(PathNames) /\ Named(Docs)
  BY <1>1, <1>3, <1>4, Zenon DEF Welcome, Readme, Docs
<1>6. Manual \in Seq(PathNames) /\ Named(Manual)
  BY <1>2, <1>3, <1>4, <1>5, Zenon DEF Manual
<1> QED BY <1>5, <1>6, Zenon

\* Chunk k of the data is in the k-th block.
LEMMA RankOfBlock ==
  ASSUME NEW bs \in SUBSET Blocks, NEW b \in bs
  PROVE  1 + Cardinality({c \in bs : c < b}) \in 1 .. Cardinality(bs)
<1> DEFINE before == {c \in bs : c < b}
<1>1. IsFiniteSet(bs)
  <2>1. MaxBlocks - 1 \in Int
    BY FileSystemAssumption
  <2>2. IsFiniteSet(Blocks)
    BY <2>1, FS_Interval DEF Blocks
  <2> QED BY <2>2, FS_Subset
<1>2. before \subseteq bs /\ b \notin before
  BY DEF Blocks
<1> HIDE DEF before
<1>3. before \subseteq bs \ {b} /\ IsFiniteSet(bs \ {b})
      /\ Cardinality(bs \ {b}) = Cardinality(bs) - 1
  BY <1>1, <1>2, FS_RemoveElement
<1>4. Cardinality(before) <= Cardinality(bs) - 1 /\ IsFiniteSet(before)
  BY <1>3, FS_Subset
<1>5. Cardinality(before) \in Nat /\ Cardinality(bs) \in Nat
  BY <1>1, <1>4, FS_CardinalityType
<1>6. 1 + Cardinality(before) \in 1 .. Cardinality(bs)
  BY <1>4, <1>5
<1> QED BY <1>6 DEF before

\* What fs_write_file stores are parts of the content.
LEMMA WriteStores ==
  ASSUME NEW S, NEW content \in Seq(S), NEW B, S \subseteq B,
         fs.block \in [Blocks -> B], DOMAIN fs = {"files", "num_files", "fat", "block"},
         NEW p, fs_write_file(p, content)
  PROVE  fs'.block \in [Blocks -> B]
<1> DEFINE i    == find_entry(fs, p)
           left == free_blocks(fs.fat, fs.files[i].first_block)
           bs   == allocate_block(left, Len(content))
           data == [b \in Blocks |->
                      IF b \in bs THEN content[1 + Cardinality({c \in bs : c < b})]
                                  ELSE fs.block[b]]
<1>1. CASE fs' = fs
  BY <1>1
<1>2. CASE fs' = FailedWrite(i, left)
  BY <1>2 DEF FailedWrite
<1>3. CASE /\ Cardinality(bs) = Len(content)
           /\ fs' = [fs EXCEPT
                       !.fat = Linked(left, bs), !.block = data,
                       !.files[i].first_block = IF bs = {} THEN None ELSE Min(bs),
                       !.files[i].size = Len(content)]
  <2>1. bs \in SUBSET Blocks
    BY DEF allocate_block, FreeBlocks
  <2> HIDE DEF bs, left, i
  <2>2. \A b \in bs : content[1 + Cardinality({c \in bs : c < b})] \in S
    <3> SUFFICES ASSUME NEW b \in bs
                 PROVE  content[1 + Cardinality({c \in bs : c < b})] \in S
      OBVIOUS
    <3> DEFINE rank == 1 + Cardinality({c \in bs : c < b})
    <3>1. rank \in 1 .. Len(content)
      BY <1>3, <2>1, RankOfBlock
    <3> HIDE DEF rank
    <3>2. content[rank] \in S
      BY <3>1
    <3> QED BY <3>2 DEF rank
  <2>3. data \in [Blocks -> B]
    BY <2>2
  <2> HIDE DEF data
  <2>4. fs'.block = data
    BY <1>3
  <2> QED BY <2>3, <2>4
<1> QED BY <1>1, <1>2, <1>3 DEF fs_write_file, Return, Become

-----------------------------------------------------------------------------
(* The state after any number of calls.                                    *)

DataOrChildren == Chunks \cup Children

\* The inductive invariant.
Sound ==
  /\ Consistent(fs) /\ fs.block \in [Blocks -> DataOrChildren]
  /\ sample \in 0 .. InitCalls /\ ret \in {0, -1}

LEMMA CallSound ==
  ASSUME Sound, NEW p \in Seq(PathNames), NEW content \in Seq(Chunks),
         \/ fs_create_file(p) \/ fs_create_directory(p) \/ fs_delete_file(p)
         \/ fs_write_file(p, content)
  PROVE  Consistent(fs') /\ fs'.block \in [Blocks -> DataOrChildren] /\ ret' \in {0, -1}
<1>1. Consistent(fs) /\ fs.block \in [Blocks -> DataOrChildren]
  BY DEF Sound
<1>2. Children \subseteq DataOrChildren /\ Chunks \subseteq DataOrChildren
  BY DEF DataOrChildren
<1>3. ret' \in {0, -1}
  BY DEF fs_create_file, fs_create_directory, fs_delete_file, fs_write_file, Return, Become
<1>4. CASE fs_create_file(p) \/ fs_create_directory(p) \/ fs_delete_file(p)
  <2>1. Consistent(fs') /\ StaysIn(fs, fs')
    BY <1>1, <1>4, CreateFileStep, CreateDirectoryStep, DeleteStep
  <2> QED BY <1>1, <1>2, <1>3, <2>1 DEF StaysIn
<1>5. CASE fs_write_file(p, content)
  <2>1. Consistent(fs')
    BY <1>1, <1>5, WriteStep
  <2>2. DOMAIN fs = {"files", "num_files", "fat", "block"}
    BY <1>1 DEF Consistent, Typed
  <2>3. fs'.block \in [Blocks -> DataOrChildren]
    BY <1>1, <1>2, <1>5, <2>2, WriteStores
  <2> QED BY <1>3, <2>1, <2>3
<1> QED BY <1>4, <1>5

\* fs_init's calls are calls like those of the shell.
LEMMA SampleCalls ==
  ASSUME NEW chunk, SampleCall(chunk)
  PROVE  \/ UNCHANGED <<fs, call, ret>>
         \/ \E p \in Seq(PathNames), content \in Seq({chunk}) :
              /\ Named(p)
              /\ \/ fs_create_file(p) \/ fs_create_directory(p) \/ fs_delete_file(p)
                 \/ fs_write_file(p, content)
<1>1. <<chunk>> \in Seq({chunk})
  OBVIOUS
<1>2. CASE \E p \in {Welcome, Readme, Manual} : fs_create_file(p)
  BY <1>1, <1>2, SamplePaths
<1>3. CASE fs_create_directory(Docs)
  BY <1>1, <1>3, SamplePaths
<1>4. CASE \E p \in {Welcome, Readme, Manual} : fs_write_file(p, <<chunk>>)
  BY <1>1, <1>4, SamplePaths
<1>5. CASE UNCHANGED <<fs, call, ret>>
  BY <1>5
<1> QED BY <1>2, <1>3, <1>4, <1>5 DEF SampleCall, IfDone

LEMMA NextSound == Sound /\ [Next]_vars => Sound'
<1> SUFFICES ASSUME Sound, [Next]_vars PROVE Sound' OBVIOUS
<1>1. CASE fs_init
  <2>1. sample' \in 0 .. InitCalls
    BY <1>1, FileSystemAssumption DEF fs_init, Sound
  <2>2. PICK chunk \in Chunks : SampleCall(chunk)
    BY <1>1 DEF fs_init
  <2>3. CASE UNCHANGED <<fs, call, ret>>
    BY <2>1, <2>3 DEF Sound
  <2>4. CASE \E p \in Seq(PathNames), content \in Seq({chunk}) :
               \/ fs_create_file(p) \/ fs_create_directory(p) \/ fs_delete_file(p)
               \/ fs_write_file(p, content)
    <3>1. \A content \in Seq({chunk}) : content \in Seq(Chunks)
      OBVIOUS
    <3>2. PICK p \in Seq(PathNames), content \in Seq({chunk}) :
               \/ fs_create_file(p) \/ fs_create_directory(p) \/ fs_delete_file(p)
               \/ fs_write_file(p, content)
      BY <2>4
    <3>3. content \in Seq(Chunks)
      BY <3>1
    <3>4. Consistent(fs') /\ fs'.block \in [Blocks -> DataOrChildren] /\ ret' \in {0, -1}
      BY <3>2, <3>3, CallSound
    <3> QED BY <2>1, <3>4 DEF Sound
  <2> QED BY <2>2, <2>3, <2>4, SampleCalls
<1>2. CASE Call
  <2>1. PICK p \in Paths : \/ fs_create_file(p) \/ fs_create_directory(p) \/ fs_delete_file(p)
                           \/ \E content \in Contents : fs_write_file(p, content)
    BY <1>2 DEF Call
  <2>2. p \in Seq(PathNames) /\ Contents \subseteq Seq(Chunks) /\ <<>> \in Seq(Chunks)
    BY FileSystemAssumption
  <2>3. Consistent(fs') /\ fs'.block \in [Blocks -> DataOrChildren] /\ ret' \in {0, -1}
    BY <2>1, <2>2, CallSound
  <2> QED BY <1>2, <2>3 DEF Call, Sound
<1>3. CASE UNCHANGED vars
  BY <1>3 DEF vars, Sound
<1> QED BY <1>1, <1>2, <1>3 DEF Next

LEMMA InitSound == Init => Sound
<1> SUFFICES ASSUME Init PROVE Sound OBVIOUS
<1>1. Consistent(fs) /\ fs.block \in [Blocks -> DataOrChildren]
  BY InitConsistent DEF DataOrChildren
<1>2. sample = 0 /\ ret = 0
  BY Zenon DEF Init
<1>3. sample \in 0 .. InitCalls
  BY <1>2, FileSystemAssumption
<1> QED BY <1>1, <1>2, <1>3 DEF Sound

\* What a state of the file system has to be for its table of entries to be
\* whole: the types of TypeOK, block by block.
THEOREM FileSystemTypeCorrect == Spec => []TypeOK
<1>1. Sound => TypeOK
  <2> SUFFICES ASSUME Sound PROVE TypeOK OBVIOUS
  <2>1. /\ Typed(fs) /\ Rooted(fs) /\ Counted(fs)
        /\ fs.block \in [Blocks -> Chunks \cup [Slots -> Files \cup {NoParent}]]
        /\ sample \in 0 .. InitCalls /\ ret \in {0, -1}
    BY DEF Sound, Consistent, DataOrChildren, Children
  <2>2. fs.num_files \in 1 .. MaxFiles
    <3>1. 0 \in UsedEntries(fs)
      BY <2>1 DEF Rooted, Dir, UsedEntries
    <3>2. IsFiniteSet(UsedEntries(fs)) /\ Cardinality(UsedEntries(fs)) \in Nat
      BY UsedIsFinite
    <3>3. Cardinality(UsedEntries(fs)) # 0
      BY <3>1, <3>2, FS_EmptySet
    <3>4. fs.num_files \in Nat /\ MaxFiles \in Nat
      BY <2>1, FileSystemAssumption DEF Typed
    <3>5. Cardinality(UsedEntries(fs)) <= fs.num_files /\ fs.num_files <= MaxFiles
      BY <2>1 DEF Counted
    <3> QED BY <3>2, <3>3, <3>4, <3>5
  <2>3. fs.files \in [Files -> Entries] /\ fs.fat \in [Blocks -> Blocks \cup {None, End}]
    BY <2>1 DEF Typed, Tables, Marks
  <2> QED BY <2>1, <2>2, <2>3 DEF TypeOK
<1> QED BY <1>1, InitSound, NextSound, PTL DEF Spec

\* A file's chain is as long as its size says, or was lost.
THEOREM SizeMatchesChainCorrect == Spec => []SizeMatchesChain
<1>1. Sound => SizeMatchesChain
  BY DEF Sound, Consistent, Sized, SizeMatchesChain, ChainOf
<1> QED BY <1>1, InitSound, NextSound, PTL DEF Spec

-----------------------------------------------------------------------------
(* A tidy table: an empty name is the only thing that can spoil it.        *)

\* What a directory lists is in use and names it as its parent.
Listed(s) ==
  \A d \in Files : Dir(s, d) =>
    \A b \in BlocksOf(s, d), c \in Slots :
      s.block[b][c] # NoParent =>
        Used(s, s.block[b][c]) /\ s.files[s.block[b][c]].parent_index = d

\* It lists nothing twice.
Once(s) ==
  \A d \in Files : Dir(s, d) =>
    \A b1, b2 \in BlocksOf(s, d), c1, c2 \in Slots :
      s.block[b1][c1] = s.block[b2][c2] /\ s.block[b1][c1] # NoParent
        => b1 = b2 /\ c1 = c2

\* An entry that is not in use has no blocks.
Cleared(s) == \A i \in Files : ~Used(s, i) => s.files[i].first_block = None

\* Every block that is not free, but those of X, is on an entry's chain.
NoLeakBut(s, X) ==
  \A b \in Blocks \ X : s.fat[b] # None => \E i \in Files : b \in BlocksOf(s, i)

Tidy(s) ==
  /\ Listed(s) /\ Once(s) /\ Cleared(s) /\ s.num_files = Cardinality(UsedEntries(s))

LEMMA OnceOnly ==
  ASSUME NEW s, Once(s), NEW d, Dir(s, d),
         NEW b1 \in BlocksOf(s, d), NEW b2 \in BlocksOf(s, d),
         NEW c1 \in Slots, NEW c2 \in Slots,
         s.block[b1][c1] = s.block[b2][c2], s.block[b1][c1] # NoParent
  PROVE  b1 = b2 /\ c1 = c2
<1>1. d \in Files
  BY DEF Dir
<1>2. \A x1, x2 \in BlocksOf(s, d), y1, y2 \in Slots :
        s.block[x1][y1] = s.block[x2][y2] /\ s.block[x1][y1] # NoParent
          => x1 = x2 /\ y1 = y2
  BY <1>1 DEF Once
<1> QED BY <1>2

LEMMA ClearedHasNoBlocks ==
  ASSUME NEW s, Cleared(s), NEW i \in Files, ~Used(s, i)
  PROVE  BlocksOf(s, i) = {}
<1>1. ChainOf(s, i) = <<>> /\ Len(ChainOf(s, i)) = 0
  BY ShortChains, MarksAreNoBlocks DEF Cleared, ChainOf
<1> QED BY <1>1, BlocksOfChain

\* An entry with a name that is created keeps Tidy, and leaks no block.
LEMMA CreateTidy ==
  ASSUME NEW s, Consistent(s), s.num_files < MaxFiles, Tidy(s),
         NEW d, Dir(s, d), NEW i \in FreeEntries(s), CanAddChild(s, d),
         NEW p, extract_filename(p) \in Names, extract_filename(p).len > 0,
         NEW is_directory \in BOOLEAN, NEW first, Fresh(s, is_directory, first),
         NEW X, NoLeakBut(s, X), \A x \in X : is_directory /\ x = first
  PROVE  LET t == Enter(add_child_to_directory(s, d, i), i, p, d, is_directory, first)
         IN  Tidy(t) /\ NoLeakBut(t, {})
<1> DEFINE t == Enter(add_child_to_directory(s, d, i), i, p, d, is_directory, first)
<1>1. /\ Typed(s) /\ Owned(FirstBlocks(s), s.fat) /\ Directories(s)
      /\ Listed(s) /\ Once(s) /\ Cleared(s) /\ s.num_files = Cardinality(UsedEntries(s))
  BY DEF Consistent, Tidy
<1>2. /\ DOMAIN t = DOMAIN s /\ t.num_files = s.num_files + 1
      /\ t.files = [s.files EXCEPT ![i] = NewEntry(p, d, is_directory, first)]
      /\ t.fat \in Tables /\ DOMAIN t.block = Blocks
      /\ Owned(FirstBlocks(t), t.fat)
      /\ \A j \in Files \ {d, i} : ChainOf(t, j) = ChainOf(s, j)
      /\ Len(ChainOf(t, i)) = IF is_directory THEN 1 ELSE 0
      /\ BlocksOf(t, i) = IF is_directory THEN {first} ELSE {}
      /\ is_directory => t.block[first] = NoChildren
      /\ \E nb, nc : Added(s, t, d, i, nb, nc)
  BY <1>1, CreateEffect
<1>3. \A j \in Files \ {d, i} : KeepsData(s, t, j)
  BY CreateConsistent
<1> HIDE DEF t
<1>4. PICK nb, nc : Added(s, t, d, i, nb, nc)
  BY <1>2
<1>5. i \in Files /\ ~Used(s, i) /\ d \in Files /\ i # d /\ Used(s, d)
  BY DEF FreeEntries, Dir
<1>6. /\ t.files[i] = NewEntry(p, d, is_directory, first)
      /\ \A j \in Files \ {i} : t.files[j] = s.files[j]
  BY <1>1, <1>2, <1>5 DEF Typed
<1>7. /\ \A j \in Files \ {i} : Used(t, j) <=> Used(s, j)
      /\ \A j \in Files \ {i} : Dir(t, j) <=> Dir(s, j)
      /\ Used(t, i) /\ t.files[i].parent_index = d
      /\ Dir(t, i) => is_directory
  BY <1>6 DEF Used, Dir, NewEntry
<1>8. /\ nc \in Slots /\ BlocksOf(t, d) = BlocksOf(s, d) \cup {nb}
      /\ \A b \in Blocks \ {nb} : t.block[b] = s.block[b]
      /\ nb \in BlocksOf(s, d) =>
           t.block[nb] = [s.block[nb] EXCEPT ![nc] = i] /\ s.block[nb] \in Children
      /\ nb \notin BlocksOf(s, d) =>
           t.block[nb] = [NoChildren EXCEPT ![nc] = i]
  BY <1>1, <1>4 DEF Added, Typed
\* What is in the directory's slots: i in the new one, in the others what was.
<1>9. ASSUME NEW b \in BlocksOf(t, d), NEW c \in Slots
      PROVE  \/ b = nb /\ c = nc /\ t.block[b][c] = i
             \/ t.block[b][c] = NoParent
             \/ /\ b \in BlocksOf(s, d) /\ t.block[b][c] = s.block[b][c]
                /\ t.block[b][c] \in Files /\ t.block[b][c] # i
                /\ Used(s, t.block[b][c]) /\ s.files[t.block[b][c]].parent_index = d
  <2>1. ASSUME b \in BlocksOf(s, d), t.block[b][c] = s.block[b][c], t.block[b][c] # NoParent
        PROVE  /\ t.block[b][c] \in Files /\ t.block[b][c] # i
               /\ Used(s, t.block[b][c]) /\ s.files[t.block[b][c]].parent_index = d
    <3>1. Used(s, s.block[b][c]) /\ s.files[s.block[b][c]].parent_index = d
      BY <1>1, <1>5, <2>1 DEF Listed
    <3>2. s.block[b] \in Children
      BY <1>1, <1>5, <2>1 DEF Directories
    <3>3. s.block[b][c] \in Files
      BY <2>1, <3>2 DEF Children
    <3> QED BY <1>5, <2>1, <3>1, <3>3
  <2>2. CASE b = nb /\ c = nc
    BY <1>8, <2>2 DEF NoChildren, Children
  <2>3. CASE b # nb
    <3>1. b \in BlocksOf(s, d) /\ t.block[b][c] = s.block[b][c]
      BY <1>8, <2>3, BlocksOfChain
    <3> QED BY <2>1, <3>1
  <2>4. CASE b = nb /\ c # nc
    <3>1. CASE nb \in BlocksOf(s, d)
      BY <1>8, <2>1, <2>4, <3>1 DEF Children
    <3>2. CASE nb \notin BlocksOf(s, d)
      BY <1>8, <2>4, <3>2 DEF NoChildren
    <3> QED BY <3>1, <3>2
  <2> QED BY <2>2, <2>3, <2>4
\* And in the other directories.
<1>10. ASSUME NEW e \in Files, Dir(t, e), e # d
       PROVE  \/ \A b \in BlocksOf(t, e), c \in Slots : t.block[b][c] = NoParent
              \/ e # i /\ Dir(s, e) /\ KeepsData(s, t, e)
  <2>1. CASE e = i
    BY <1>2, <1>7, <1>10, <2>1 DEF NoChildren
  <2>2. CASE e # i
    BY <1>3, <1>7, <1>10, <2>2
  <2> QED BY <2>1, <2>2
<1>11. Listed(t)
  <2> SUFFICES ASSUME NEW e \in Files, Dir(t, e), NEW b \in BlocksOf(t, e), NEW c \in Slots,
                      t.block[b][c] # NoParent
               PROVE  Used(t, t.block[b][c]) /\ t.files[t.block[b][c]].parent_index = e
    BY DEF Listed
  <2>1. CASE e = d
    BY <1>6, <1>7, <1>9, <2>1
  <2>2. CASE e # d
    <3>1. e # i /\ Dir(s, e) /\ KeepsData(s, t, e)
      BY <1>10, <2>2
    <3> DEFINE v == s.block[b][c]
    <3>2. b \in BlocksOf(s, e) /\ t.block[b][c] = v
      BY <3>1 DEF KeepsData
    <3>3. Used(s, v) /\ s.files[v].parent_index = e
      BY <1>1, <3>1, <3>2 DEF Listed
    <3>4. v \in Files
      BY <1>1, <3>1, <3>2 DEF Directories, Children
    <3> HIDE DEF v
    <3> QED BY <1>5, <1>6, <1>7, <3>2, <3>3, <3>4
  <2> QED BY <2>1, <2>2
<1>12. Once(t)
  <2> SUFFICES ASSUME NEW e \in Files, Dir(t, e),
                      NEW b1 \in BlocksOf(t, e), NEW b2 \in BlocksOf(t, e),
                      NEW c1 \in Slots, NEW c2 \in Slots,
                      t.block[b1][c1] = t.block[b2][c2], t.block[b1][c1] # NoParent
               PROVE  b1 = b2 /\ c1 = c2
    BY DEF Once
  <2>1. CASE e = d
    <3>1. CASE t.block[b1][c1] = i
      <4>1. i # NoParent
        BY <1>5, FilesAreNumbers
      <4>2. b1 = nb /\ c1 = nc
        BY <1>9, <2>1, <3>1, <4>1
      <4>3. b2 = nb /\ c2 = nc
        BY <1>9, <2>1, <3>1, <4>1
      <4> QED BY <4>2, <4>3
    <3>2. CASE t.block[b1][c1] # i
      <4>1. /\ b1 \in BlocksOf(s, d) /\ t.block[b1][c1] = s.block[b1][c1]
            /\ b2 \in BlocksOf(s, d) /\ t.block[b2][c2] = s.block[b2][c2]
        BY <1>9, <2>1, <3>2
      <4>2. s.block[b1][c1] = s.block[b2][c2] /\ s.block[b1][c1] # NoParent
        BY <4>1
      <4> QED BY <1>1, <4>1, <4>2, OnceOnly
    <3> QED BY <3>1, <3>2
  <2>2. CASE e # d
    <3>1. e # i /\ Dir(s, e) /\ KeepsData(s, t, e)
      BY <1>10, <2>2
    <3>2. /\ b1 \in BlocksOf(s, e) /\ b2 \in BlocksOf(s, e)
          /\ t.block[b1] = s.block[b1] /\ t.block[b2] = s.block[b2]
      BY <3>1 DEF KeepsData
    <3>3. s.block[b1][c1] = s.block[b2][c2] /\ s.block[b1][c1] # NoParent
      BY <3>2
    <3> QED BY <1>1, <3>1, <3>2, <3>3, OnceOnly
  <2> QED BY <2>1, <2>2
<1>13. Cleared(t)
  BY <1>1, <1>6, <1>7 DEF Cleared
<1>14. NoLeakBut(t, {})
  <2> SUFFICES ASSUME NEW b \in Blocks, t.fat[b] # None
               PROVE  \E j \in Files : b \in BlocksOf(t, j)
    BY DEF NoLeakBut
  <2>1. CASE b = nb
    BY <1>5, <1>8, <2>1
  <2>2. CASE is_directory /\ b = first
    BY <1>2, <1>5, <2>2
  <2>3. CASE b # nb /\ ~(is_directory /\ b = first)
    <3>1. s.fat[b] # None
      BY <1>4, <2>3 DEF Added
    <3>2. PICK j \in Files : b \in BlocksOf(s, j)
      BY <2>3, <3>1 DEF NoLeakBut
    <3>3. j # i
      BY <1>1, <1>5, <3>2, ClearedHasNoBlocks
    <3>4. b \in BlocksOf(t, j)
      BY <1>3, <1>8, <3>2, <3>3 DEF KeepsData
    <3> QED BY <3>4
  <2> QED BY <2>1, <2>2, <2>3
<1>15. t.num_files = Cardinality(UsedEntries(t))
  <2>1. UsedEntries(t) = UsedEntries(s) \cup {i} /\ i \notin UsedEntries(s)
    BY <1>5, <1>7 DEF UsedEntries
  <2>2. Cardinality(UsedEntries(t)) = Cardinality(UsedEntries(s)) + 1
    BY <2>1, UsedIsFinite, FS_AddElement
  <2> QED BY <1>1, <1>2, <2>2
<1> QED BY <1>11, <1>12, <1>13, <1>14, <1>15 DEF Tidy, t

\* An entry that is deleted keeps Tidy, and leaks no block.
LEMMA DeleteTidy ==
  ASSUME NEW s, Consistent(s), Tidy(s), NoLeakBut(s, {}), NEW i \in Files, Used(s, i), i # 0,
         NEW t, NEW d, NEW nb, NEW nc, Deleted(s, t, d, i, nb, nc)
  PROVE  Tidy(t) /\ NoLeakBut(t, {})
<1>1. /\ Typed(s) /\ Owned(FirstBlocks(s), s.fat) /\ Directories(s)
      /\ Listed(s) /\ Once(s) /\ Cleared(s) /\ s.num_files = Cardinality(UsedEntries(s))
  BY DEF Consistent, Tidy
<1>2. /\ t.files[i] = ClearedEntry
      /\ \A j \in Files \ {i} : t.files[j] = s.files[j]
  BY <1>1 DEF Typed, Deleted
<1>3. ~Used(t, i)
  <2>1. t.files[i].name.len = 0
    BY <1>2, EmptyName DEF ClearedEntry
  <2> QED BY <2>1 DEF Used
<1>4. /\ \A j \in Files \ {i} : Used(t, j) <=> Used(s, j)
      /\ \A j \in Files \ {i} : Dir(t, j) <=> Dir(s, j)
  BY <1>2 DEF Used, Dir
<1>5. \A j \in Files \ {i} : BlocksOf(t, j) = BlocksOf(s, j)
  <2> SUFFICES ASSUME NEW j \in Files \ {i} PROVE BlocksOf(t, j) = BlocksOf(s, j)
    OBVIOUS
  <2>1. \A b \in BlocksOf(s, j) : t.fat[b] = s.fat[b]
    <3>1. \A b \in BlocksOf(s, j) : b \in Blocks /\ b \notin BlocksOf(s, i)
      BY <1>1, BlocksAreDisjoint
    <3> QED BY <1>1, <3>1, FreedChain DEF Deleted
  <2>2. t.files[j].first_block = s.files[j].first_block
    BY <1>2
  <2> QED BY <1>1, <2>1, <2>2, ChainUntouched
<1>6. /\ nb \in BlocksOf(s, d) /\ nc \in Slots /\ s.block[nb][nc] = i
      /\ d \in Files /\ d # i /\ nb \in Blocks /\ Dir(s, d) /\ s.block[nb] \in Children
  BY <1>1, BlocksAreDisjoint DEF Deleted, Dir, Directories
<1>7. /\ \A b \in Blocks \ {nb} : t.block[b] = s.block[b]
      /\ t.block[nb] = [s.block[nb] EXCEPT ![nc] = NoParent]
  BY <1>1, <1>6 DEF Typed, Deleted
\* A child that is left was there, and is not i.
<1>8. ASSUME NEW e \in Files, Dir(t, e), NEW b \in BlocksOf(t, e), NEW c \in Slots,
             t.block[b][c] # NoParent
      PROVE  /\ e # i /\ Dir(s, e) /\ b \in BlocksOf(s, e)
             /\ t.block[b][c] = s.block[b][c]
             /\ s.block[b][c] \in Files \ {i}
  <2>1. e # i
    BY <1>3, <1>8 DEF Dir
  <2>2. Dir(s, e) /\ b \in BlocksOf(s, e) /\ b \in Blocks /\ s.block[b] \in Children
    BY <1>1, <1>4, <1>5, <1>8, <2>1, BlocksOfChain DEF Directories
  <2>3. t.block[b][c] = s.block[b][c] /\ ~(b = nb /\ c = nc)
    BY <1>6, <1>7, <1>8, <2>2 DEF Children
  <2>4. s.block[b][c] # i
    <3> SUFFICES ASSUME s.block[b][c] = i PROVE FALSE
      OBVIOUS
    <3>1. i # NoParent
      BY FilesAreNumbers
    <3>2. s.files[i].parent_index = e /\ s.files[i].parent_index = d
      BY <1>1, <1>6, <2>2, <3>1 DEF Listed
    <3>3. b = nb /\ c = nc
      BY <1>1, <1>6, <2>2, <3>1, <3>2 DEF Once
    <3> QED BY <2>3, <3>3
  <2>5. s.block[b][c] \in Files
    BY <1>8, <2>2, <2>3 DEF Children
  <2> QED BY <2>1, <2>2, <2>3, <2>4, <2>5
<1>9. Listed(t)
  <2> SUFFICES ASSUME NEW e \in Files, Dir(t, e), NEW b \in BlocksOf(t, e), NEW c \in Slots,
                      t.block[b][c] # NoParent
               PROVE  Used(t, t.block[b][c]) /\ t.files[t.block[b][c]].parent_index = e
    BY DEF Listed
  <2> DEFINE v == s.block[b][c]
  <2>1. e # i /\ Dir(s, e) /\ b \in BlocksOf(s, e) /\ t.block[b][c] = v /\ v \in Files \ {i}
    BY <1>8
  <2>2. Used(s, v) /\ s.files[v].parent_index = e
    BY <1>1, <2>1 DEF Listed
  <2> HIDE DEF v
  <2> QED BY <1>2, <1>4, <2>1, <2>2
<1>10. Once(t)
  <2> SUFFICES ASSUME NEW e \in Files, Dir(t, e),
                      NEW b1 \in BlocksOf(t, e), NEW b2 \in BlocksOf(t, e),
                      NEW c1 \in Slots, NEW c2 \in Slots,
                      t.block[b1][c1] = t.block[b2][c2], t.block[b1][c1] # NoParent
               PROVE  b1 = b2 /\ c1 = c2
    BY DEF Once
  <2>1. /\ Dir(s, e) /\ b1 \in BlocksOf(s, e) /\ t.block[b1][c1] = s.block[b1][c1]
        /\ b2 \in BlocksOf(s, e) /\ t.block[b2][c2] = s.block[b2][c2]
    BY <1>8
  <2>2. s.block[b1][c1] = s.block[b2][c2] /\ s.block[b1][c1] # NoParent
    BY <2>1
  <2> QED BY <1>1, <2>1, <2>2, OnceOnly
<1>11. Cleared(t)
  BY <1>1, <1>2, <1>4 DEF Cleared, ClearedEntry
<1>12. NoLeakBut(t, {})
  <2> SUFFICES ASSUME NEW b \in Blocks, t.fat[b] # None
               PROVE  \E j \in Files : b \in BlocksOf(t, j)
    BY DEF NoLeakBut
  <2>1. b \notin BlocksOf(s, i) /\ s.fat[b] # None
    BY <1>1, FreedChain DEF Deleted
  <2>2. PICK j \in Files : b \in BlocksOf(s, j)
    BY <2>1 DEF NoLeakBut
  <2> QED BY <1>5, <2>1, <2>2
<1>13. t.num_files = Cardinality(UsedEntries(t))
  <2>1. UsedEntries(t) = UsedEntries(s) \ {i} /\ i \in UsedEntries(s)
    BY <1>3, <1>4 DEF UsedEntries
  <2>2. Cardinality(UsedEntries(t)) = Cardinality(UsedEntries(s)) - 1
    BY <2>1, UsedIsFinite, FS_RemoveElement
  <2>3. t.num_files = s.num_files - 1
    BY DEF Deleted
  <2> QED BY <1>1, <2>2, <2>3
<1> QED BY <1>9, <1>10, <1>11, <1>12, <1>13 DEF Tidy

-----------------------------------------------------------------------------
(* The calls keep it tidy.                                                 *)

NamedPaths == \A p \in Paths : Named(p)

\* extract_filename shortens a name, but never to nothing.
LEMMA NamedStaysNamed ==
  ASSUME NEW p \in Seq(PathNames), p # <<>>, Named(p)
  PROVE  extract_filename(p).len > 0
<1> DEFINE name == p[Len(p)]
           both == {name.len, MaxName}
<1>1. name \in PathNames /\ name.len > 0
  <2>1. Len(p) \in 1 .. Len(p)
    BY EmptySeq
  <2> QED BY <2>1 DEF Named
<1>2. MaxName \in Nat /\ MaxName > 0
  BY FileSystemAssumption
<1>3. extract_filename(p).len = Min(both)
  <2>1. extract_filename(p) = [name EXCEPT !.len = Min({name.len, MaxName})]
    BY DEF extract_filename, CutAt
  <2> HIDE DEF name
  <2> QED BY <1>1, <2>1 DEF PathNames
<1> HIDE DEF name
<1>4. name.len \in Nat
  BY <1>1 DEF PathNames
<1>5. both \subseteq Nat /\ both # {} /\ \A x \in both : x > 0
  BY <1>1, <1>2, <1>4
<1> HIDE DEF both
<1>6. Min(both) \in both
  BY <1>5, MinIsLeast
<1> QED BY <1>3, <1>5, <1>6

\* A step that changes nothing in use keeps Tidy.
LEMMA OutsideTidy ==
  ASSUME NEW s, Consistent(s), Tidy(s),
         NEW t, t.files = s.files, t.num_files = s.num_files,
         \A j \in Files : KeepsData(s, t, j)
  PROVE  Tidy(t)
<1>1. /\ Listed(s) /\ Once(s) /\ Cleared(s) /\ s.num_files = Cardinality(UsedEntries(s))
  BY DEF Tidy
<1>2. /\ \A j : Used(t, j) <=> Used(s, j)
      /\ \A j : Dir(t, j) <=> Dir(s, j)
  BY DEF Used, Dir
<1>3. Listed(t)
  <2> SUFFICES ASSUME NEW e \in Files, Dir(t, e), NEW b \in BlocksOf(t, e), NEW c \in Slots,
                      t.block[b][c] # NoParent
               PROVE  Used(t, t.block[b][c]) /\ t.files[t.block[b][c]].parent_index = e
    BY DEF Listed
  <2>1. Dir(s, e) /\ b \in BlocksOf(s, e) /\ t.block[b] = s.block[b]
    BY <1>2 DEF KeepsData
  <2>2. Used(s, s.block[b][c]) /\ s.files[s.block[b][c]].parent_index = e
    BY <1>1, <2>1 DEF Listed
  <2> QED BY <1>2, <2>1, <2>2
<1>4. Once(t)
  <2> SUFFICES ASSUME NEW e \in Files, Dir(t, e),
                      NEW b1 \in BlocksOf(t, e), NEW b2 \in BlocksOf(t, e),
                      NEW c1 \in Slots, NEW c2 \in Slots,
                      t.block[b1][c1] = t.block[b2][c2], t.block[b1][c1] # NoParent
               PROVE  b1 = b2 /\ c1 = c2
    BY DEF Once
  <2>1. /\ Dir(s, e) /\ b1 \in BlocksOf(s, e) /\ t.block[b1] = s.block[b1]
        /\ b2 \in BlocksOf(s, e) /\ t.block[b2] = s.block[b2]
    BY <1>2 DEF KeepsData
  <2>2. s.block[b1][c1] = s.block[b2][c2] /\ s.block[b1][c1] # NoParent
    BY <2>1
  <2> QED BY <1>1, <2>1, <2>2, OnceOnly
<1>5. Cleared(t)
  BY <1>1, <1>2 DEF Cleared
<1>6. t.num_files = Cardinality(UsedEntries(t))
  <2>1. UsedEntries(t) = UsedEntries(s)
    BY <1>2 DEF UsedEntries
  <2> QED BY <1>1, <2>1
<1> QED BY <1>3, <1>4, <1>5, <1>6 DEF Tidy

\* A file that is rewritten keeps Tidy: what it had is freed.
LEMMA RewrittenTidy ==
  ASSUME NEW s, Consistent(s), Tidy(s), NoLeakBut(s, {}),
         NEW i \in Files, ~s.files[i].is_directory, Used(s, i),
         NEW t, Rewritten(s, t, i)
  PROVE  Tidy(t) /\ NoLeakBut(t, {})
<1>1. /\ Listed(s) /\ Once(s) /\ Cleared(s) /\ s.num_files = Cardinality(UsedEntries(s))
  BY DEF Tidy
<1>2. ASSUME NEW j \in Files
      PROVE  /\ Used(t, j) <=> Used(s, j)
             /\ Dir(t, j) <=> Dir(s, j)
             /\ t.files[j].parent_index = s.files[j].parent_index
  <2>1. CASE j = i
    BY <2>1 DEF Rewritten, Used, Dir
  <2>2. CASE j # i
    BY <2>2 DEF Rewritten, Used, Dir
  <2> QED BY <2>1, <2>2
<1>3. ASSUME NEW e \in Files, Dir(t, e)
      PROVE  /\ Dir(s, e) /\ BlocksOf(t, e) = BlocksOf(s, e)
             /\ \A b \in BlocksOf(s, e) : t.block[b] = s.block[b]
  <2>1. Dir(s, e) /\ e # i
    BY <1>2, <1>3 DEF Dir
  <2> QED BY <2>1 DEF Rewritten, KeepsData
<1>4. Listed(t)
  <2> SUFFICES ASSUME NEW e \in Files, Dir(t, e), NEW b \in BlocksOf(t, e), NEW c \in Slots,
                      t.block[b][c] # NoParent
               PROVE  Used(t, t.block[b][c]) /\ t.files[t.block[b][c]].parent_index = e
    BY DEF Listed
  <2> DEFINE v == s.block[b][c]
  <2>1. Dir(s, e) /\ b \in BlocksOf(s, e) /\ t.block[b][c] = v
    BY <1>3
  <2>2. Used(s, v) /\ s.files[v].parent_index = e
    BY <1>1, <2>1 DEF Listed
  <2>3. v \in Files
    BY <2>1 DEF Consistent, Directories, Children
  <2> HIDE DEF v
  <2> QED BY <1>2, <2>1, <2>2, <2>3
<1>5. Once(t)
  <2> SUFFICES ASSUME NEW e \in Files, Dir(t, e),
                      NEW b1 \in BlocksOf(t, e), NEW b2 \in BlocksOf(t, e),
                      NEW c1 \in Slots, NEW c2 \in Slots,
                      t.block[b1][c1] = t.block[b2][c2], t.block[b1][c1] # NoParent
               PROVE  b1 = b2 /\ c1 = c2
    BY DEF Once
  <2>1. /\ Dir(s, e) /\ b1 \in BlocksOf(s, e) /\ t.block[b1] = s.block[b1]
        /\ b2 \in BlocksOf(s, e) /\ t.block[b2] = s.block[b2]
    BY <1>3
  <2>2. s.block[b1][c1] = s.block[b2][c2] /\ s.block[b1][c1] # NoParent
    BY <2>1
  <2> QED BY <1>1, <2>1, <2>2, OnceOnly
<1>6. Cleared(t)
  <2> SUFFICES ASSUME NEW j \in Files, ~Used(t, j) PROVE t.files[j].first_block = None
    BY DEF Cleared
  <2>1. ~Used(s, j) /\ j # i
    BY <1>2
  <2> QED BY <1>1, <2>1 DEF Cleared, Rewritten
<1>7. NoLeakBut(t, {})
  <2> SUFFICES ASSUME NEW b \in Blocks, t.fat[b] # None
               PROVE  \E j \in Files : b \in BlocksOf(t, j)
    BY DEF NoLeakBut
  <2>1. CASE b \in BlocksOf(t, i)
    BY <2>1
  <2>2. CASE b \notin BlocksOf(t, i)
    <3>1. s.fat[b] # None /\ b \notin BlocksOf(s, i)
      BY <2>2 DEF Rewritten
    <3>2. PICK j \in Files : b \in BlocksOf(s, j)
      BY <3>1 DEF NoLeakBut
    <3> QED BY <3>1, <3>2 DEF Rewritten, KeepsData
  <2> QED BY <2>1, <2>2
<1>8. t.num_files = Cardinality(UsedEntries(t))
  <2>1. UsedEntries(t) = UsedEntries(s)
    BY <1>2 DEF UsedEntries
  <2> QED BY <1>1, <2>1 DEF Rewritten
<1> QED BY <1>4, <1>5, <1>6, <1>7, <1>8 DEF Tidy

TidyNow == Tidy(fs) /\ NoLeakBut(fs, {})

\* The four calls.
LEMMA CreateFileTidy ==
  ASSUME Consistent(fs), TidyNow, NEW p \in Seq(PathNames), fs_create_file(p)
  PROVE  TidyNow'
<1> DEFINE d == find_entry(fs, ParentPath(p))
           i == Min(FreeEntries(fs))
<1>1. CASE fs' = fs
  BY <1>1 DEF TidyNow
<1>2. CASE /\ Creatable(p) /\ extract_filename(p).len > 0 /\ CanAddChild(fs, d)
           /\ fs' = Enter(add_child_to_directory(fs, d, i), i, p, d, FALSE, None)
  <2>1. /\ extract_filename(p) \in Names /\ Dir(fs, d) /\ i \in FreeEntries(fs)
        /\ fs.num_files < MaxFiles
    BY <1>2, CreatablePath
  <2> HIDE DEF d, i
  <2>2. Fresh(fs, FALSE, None)
    BY DEF Fresh
  <2> DEFINE X == {}
  <2>3. NoLeakBut(fs, X) /\ \A x \in X : FALSE /\ x = None
    BY DEF TidyNow
  <2> HIDE DEF X
  <2>4. Tidy(fs') /\ NoLeakBut(fs', {})
    BY <1>2, <2>1, <2>2, <2>3, CreateTidy DEF TidyNow
  <2> QED BY <2>4 DEF TidyNow
<1> QED BY <1>1, <1>2 DEF fs_create_file, Return, Become

LEMMA CreateDirectoryTidy ==
  ASSUME Consistent(fs), TidyNow, NEW p \in Seq(PathNames), Named(p),
         fs_create_directory(p)
  PROVE  TidyNow'
<1>1. CASE /\ \A j \in Files : KeepsData(fs, fs', j)
           /\ fs'.files = fs.files /\ fs'.num_files = fs.num_files /\ fs'.fat = fs.fat
  <2>1. Tidy(fs')
    BY <1>1, OutsideTidy DEF TidyNow
  <2>2. NoLeakBut(fs', {})
    BY <1>1 DEF TidyNow, NoLeakBut, KeepsData
  <2> QED BY <2>1, <2>2 DEF TidyNow
<1>2. ASSUME extract_filename(p) \in Names, p # <<>>, NEW taken, NEW new, NEW d, NEW i,
             Taken(fs, taken, new), taken.num_files < MaxFiles,
             Dir(taken, d), i \in FreeEntries(taken), CanAddChild(taken, d),
             fs' = Enter(add_child_to_directory(taken, d, i), i, p, d, TRUE, new)
      PROVE  TidyNow'
  <2>1. /\ Consistent(taken) /\ Fresh(taken, TRUE, new)
        /\ \A j \in Files : KeepsData(fs, taken, j)
        /\ taken.files = fs.files /\ taken.num_files = fs.num_files
        /\ \A b \in Blocks \ {new} : taken.fat[b] = fs.fat[b]
    BY <1>2 DEF Taken
  <2>2. extract_filename(p).len > 0
    BY <1>2, NamedStaysNamed
  <2>3. Tidy(taken)
    BY <2>1, OutsideTidy DEF TidyNow
  <2> DEFINE X == {new}
  <2>4. NoLeakBut(taken, X)
    BY <2>1 DEF TidyNow, NoLeakBut, KeepsData
  <2>5. \A x \in X : TRUE /\ x = new
    OBVIOUS
  <2> HIDE DEF X
  <2>6. Tidy(fs') /\ NoLeakBut(fs', {})
    BY <1>2, <2>1, <2>2, <2>3, <2>4, <2>5, CreateTidy
  <2> QED BY <2>6 DEF TidyNow
<1> QED BY <1>1, <1>2, CreateDirectoryCases

LEMMA DeleteStepTidy ==
  ASSUME Consistent(fs), TidyNow, NEW p \in Seq(PathNames), fs_delete_file(p)
  PROVE  TidyNow'
<1> DEFINE i == find_entry(fs, p)
<1>1. CASE fs' = fs
  BY <1>1 DEF TidyNow
<1>2. ASSUME i \in Files, Used(fs, i), i # 0, NEW d, NEW nb, NEW nc,
             Deleted(fs, fs', d, i, nb, nc)
      PROVE  TidyNow'
  <2> HIDE DEF i
  <2>1. Tidy(fs') /\ NoLeakBut(fs', {})
    BY <1>2, DeleteTidy DEF TidyNow
  <2> QED BY <2>1 DEF TidyNow
<1> QED BY <1>1, <1>2, DeleteCases

LEMMA WriteTidy ==
  ASSUME Consistent(fs), TidyNow, NEW p \in Seq(PathNames), NEW content,
         fs_write_file(p, content)
  PROVE  TidyNow'
<1> DEFINE i == find_entry(fs, p)
<1>1. CASE fs' = fs
  BY <1>1 DEF TidyNow
<1>2. CASE IsFile(fs, i) /\ Rewritten(fs, fs', i)
  <2>1. i \in Files /\ ~fs.files[i].is_directory
    BY <1>2 DEF IsFile
  <2>2. Used(fs, i)
    BY <2>1, FoundIsUsed, FilesAreNumbers DEF Consistent
  <2> HIDE DEF i
  <2>3. Tidy(fs') /\ NoLeakBut(fs', {})
    BY <1>2, <2>1, <2>2, RewrittenTidy DEF TidyNow
  <2> QED BY <2>3 DEF TidyNow
<1> QED BY <1>1, <1>2, WriteStep

-----------------------------------------------------------------------------
(* With paths that name what they create, the table is always tidy.        *)

LEMMA CallTidy ==
  ASSUME Consistent(fs), TidyNow, NEW p \in Seq(PathNames), Named(p), NEW content,
         \/ fs_create_file(p) \/ fs_create_directory(p) \/ fs_delete_file(p)
         \/ fs_write_file(p, content)
  PROVE  TidyNow'
BY CreateFileTidy, CreateDirectoryTidy, DeleteStepTidy, WriteTidy

LEMMA InitTidy == Init => TidyNow
<1> SUFFICES ASSUME Init PROVE TidyNow OBVIOUS
<1>1. 0 \in Files /\ 1 \in Blocks
  BY FirstIndices
<1>2. Consistent(fs)
  BY InitConsistent
<1> DEFINE root == [ClearedEntry EXCEPT !.name = Name("root", 4), !.first_block = 1,
                                        !.is_directory = TRUE]
<1>3. /\ fs.num_files = 1
      /\ fs.files = [i \in Files |-> IF i = 0 THEN root ELSE ClearedEntry]
      /\ fs.fat = [b \in Blocks |-> IF b = 1 THEN End ELSE None]
      /\ fs.block = [b \in Blocks |-> IF b = 1 THEN NoChildren ELSE [k \in Slots |-> 0]]
  BY Zenon DEF Init
<1>4. root.first_block = 1
  BY Zenon DEF ClearedEntry
<1>5. ClearedEntry.first_block = None /\ ClearedEntry.is_directory = FALSE
      /\ ClearedEntry.name.len = 0
  BY EmptyName DEF ClearedEntry
<1> HIDE DEF root
<1>6. \A i \in Files \ {0} : ~Used(fs, i) /\ ~Dir(fs, i)
  BY <1>3, <1>5 DEF Used, Dir
<1>7. Used(fs, 0)
  BY <1>2 DEF Consistent, Rooted, Dir
<1>8. Typed(fs)
  BY <1>2 DEF Consistent
<1>9. BlocksOf(fs, 0) = {1}
  <2>1. fs.files[0].first_block = 1
    BY <1>1, <1>3, <1>4
  <2>2. fs.fat[1] = End
    BY <1>1, <1>3
  <2>3. ChainOf(fs, 0) = <<1>> /\ Len(ChainOf(fs, 0)) = 1
    BY <1>1, <2>1, <2>2, ShortChains DEF ChainOf
  <2>4. <<1>>[1] = 1
    OBVIOUS
  <2> QED BY <2>3, <2>4, BlocksOfChain
<1>10. \A b \in BlocksOf(fs, 0), c \in Slots : fs.block[b][c] = NoParent
  BY <1>1, <1>3, <1>9 DEF NoChildren
<1>11. Listed(fs) /\ Once(fs)
  BY <1>6, <1>10 DEF Listed, Once, Dir
<1>12. Cleared(fs)
  BY <1>3, <1>5, <1>7 DEF Cleared
<1>13. NoLeakBut(fs, {})
  BY <1>1, <1>3, <1>9 DEF NoLeakBut
<1>14. Cardinality(UsedEntries(fs)) = 1
  <2>1. UsedEntries(fs) = {0}
    BY <1>1, <1>6, <1>7 DEF UsedEntries
  <2> QED BY <2>1, FS_Singleton
<1> QED BY <1>3, <1>11, <1>12, <1>13, <1>14 DEF TidyNow, Tidy

LEMMA NextTidy == NamedPaths /\ Sound /\ TidyNow /\ [Next]_vars => TidyNow'
<1> SUFFICES ASSUME NamedPaths, Sound, TidyNow, [Next]_vars PROVE TidyNow' OBVIOUS
<1>1. Consistent(fs)
  BY DEF Sound
<1>2. CASE fs' = fs
  BY <1>2 DEF TidyNow
<1>3. CASE \E p \in Seq(PathNames) : \E content :
             /\ Named(p)
             /\ \/ fs_create_file(p) \/ fs_create_directory(p) \/ fs_delete_file(p)
                \/ fs_write_file(p, content)
  BY <1>1, <1>3, CallTidy
<1>4. CASE fs_init
  <2>1. PICK chunk \in Chunks : SampleCall(chunk)
    BY <1>4 DEF fs_init
  <2> QED BY <1>2, <1>3, <2>1, SampleCalls
<1>5. CASE Call
  <2>1. PICK p \in Paths : \/ fs_create_file(p) \/ fs_create_directory(p) \/ fs_delete_file(p)
                           \/ \E content \in Contents : fs_write_file(p, content)
    BY <1>5 DEF Call
  <2>2. p \in Seq(PathNames) /\ Named(p)
    BY FileSystemAssumption DEF NamedPaths
  <2> QED BY <1>3, <2>1, <2>2
<1> QED BY <1>2, <1>4, <1>5 DEF Next, vars

\* Tidy is what the two properties need.
LEMMA TidyMatches ==
  ASSUME Consistent(fs), Tidy(fs) PROVE SlotsMatchParents
<1>1. /\ Typed(fs) /\ Owned(FirstBlocks(fs), fs.fat) /\ Directories(fs) /\ Rooted(fs)
      /\ Parented(fs) /\ Listed(fs) /\ Once(fs)
  BY DEF Consistent, Tidy
<1> SUFFICES ASSUME NEW d \in Files, Used(fs, d), fs.files[d].is_directory
             PROVE  LET slots == SlotsOf(fs, d)
                    IN  /\ fs_list_files(fs, d) = {k \in DOMAIN slots : slots[k] # NoParent}
                        /\ \A i \in Files :
                             Cardinality({k \in fs_list_files(fs, d) : slots[k] = i}) =
                               IF Used(fs, i) /\ fs.files[i].parent_index = d THEN 1 ELSE 0
  BY DEF SlotsMatchParents
<1> DEFINE slots == SlotsOf(fs, d)
           q     == ChainOf(fs, d)
           shown == fs_list_files(fs, d)
<1>2. Dir(fs, d)
  BY DEF Dir
<1>3. ASSUME NEW k \in DOMAIN slots
      PROVE  /\ BlockAt(q, k) \in BlocksOf(fs, d) /\ SlotAt(k) \in Slots
             /\ slots[k] = fs.block[BlockAt(q, k)][SlotAt(k)]
             /\ slots[k] \in Files \cup {NoParent}
             /\ slots[k] # NoParent =>
                  Used(fs, slots[k]) /\ fs.files[slots[k]].parent_index = d
  <2>1. /\ BlockAt(q, k) \in BlocksOf(fs, d) /\ SlotAt(k) \in Slots
        /\ slots[k] = fs.block[BlockAt(q, k)][SlotAt(k)]
    BY <1>3, SlotsAreCells
  <2> HIDE DEF slots, q
  <2>2. fs.block[BlockAt(q, k)] \in Children
    BY <1>1, <1>2, <2>1 DEF Directories
  <2>3. slots[k] \in Files \cup {NoParent}
    BY <2>1, <2>2 DEF Children
  <2>4. slots[k] # NoParent => Used(fs, slots[k]) /\ fs.files[slots[k]].parent_index = d
    BY <1>1, <1>2, <2>1 DEF Listed
  <2> QED BY <2>1, <2>3, <2>4
<1>4. shown = {k \in DOMAIN slots : slots[k] # NoParent}
  <2>1. NoParent \notin Files
    BY FilesAreNumbers
  <2> QED BY <1>3, <2>1 DEF fs_list_files
<1>5. ASSUME NEW i \in Files
      PROVE  Cardinality({k \in shown : slots[k] = i}) =
               IF Used(fs, i) /\ fs.files[i].parent_index = d THEN 1 ELSE 0
  <2> DEFINE mine == {k \in shown : slots[k] = i}
  <2>1. i # NoParent
    BY FilesAreNumbers
  <2>2. CASE ~(Used(fs, i) /\ fs.files[i].parent_index = d)
    <3>1. mine = {}
      BY <1>3, <1>4, <2>1, <2>2
    <3> QED BY <2>2, <3>1, FS_EmptySet
  <2>3. CASE Used(fs, i) /\ fs.files[i].parent_index = d
    <3>1. i # 0
      <4>1. 0 \in Files /\ fs.files[0].parent_index = NoParent
        BY <1>1, FirstIndices DEF Rooted
      <4>2. d # NoParent
        BY FilesAreNumbers
      <4> QED BY <2>3, <4>1, <4>2
    <3>2. PICK b \in BlocksOf(fs, d), c \in Slots : fs.block[b][c] = i
      BY <1>1, <2>3, <3>1 DEF Parented, Holds
    <3>3. PICK k \in DOMAIN slots :
            b = BlockAt(q, k) /\ c = SlotAt(k) /\ slots[k] = fs.block[b][c]
      BY SlotsAreCells
    <3>4. ASSUME NEW l \in mine PROVE l = k
      <4>1. l \in DOMAIN slots /\ slots[l] = i
        BY <1>4
      <4>2. /\ BlockAt(q, l) \in BlocksOf(fs, d) /\ SlotAt(l) \in Slots
            /\ fs.block[BlockAt(q, l)][SlotAt(l)] = i
        BY <1>3, <4>1
      <4>3. BlockAt(q, l) = b /\ SlotAt(l) = c
        BY <1>1, <1>2, <2>1, <3>2, <4>2, OnceOnly
      <4>4. \A x, y \in 1 .. Len(q) : q[x] = q[y] => x = y
        <5>1. q = Chain(fs.fat, FirstBlocks(fs)[d])
          BY DEF FirstBlocks, ChainOf
        <5> QED BY <1>1, <5>1, EntryChain
      <4> QED BY <3>3, <4>1, <4>3, <4>4, SlotsAreDistinct
    <3>5. k \in mine
      BY <1>4, <2>1, <3>2, <3>3
    <3>6. mine = {k}
      <4> HIDE DEF mine
      <4> QED BY <3>4, <3>5
    <3> QED BY <2>3, <3>6, FS_Singleton
  <2> QED BY <2>2, <2>3
<1> QED BY <1>4, <1>5

LEMMA TidyAddsUp ==
  ASSUME Consistent(fs), TidyNow PROVE StatsAddUp
<1> DEFINE used  == {i \in Files : Used(fs, i)}
           dirs  == {i \in used : fs.files[i].is_directory}
           owned == UNION {Range(Chain(fs.fat, fs.files[i].first_block)) : i \in Files}
<1>1. /\ fs_get_stats(fs).total_files = Cardinality(used \ dirs)
      /\ fs_get_stats(fs).total_directories = Cardinality(dirs)
      /\ fs_get_stats(fs).used_blocks = Cardinality(Blocks \ FreeBlocks(fs.fat))
  BY DEF fs_get_stats
<1>2. fs.num_files = Cardinality(used) /\ IsFiniteSet(used)
  BY UsedIsFinite DEF TidyNow, Tidy, UsedEntries
<1>3. Cardinality(used \ dirs) + Cardinality(dirs) = Cardinality(used)
  <2>1. dirs \subseteq used
    OBVIOUS
  <2> HIDE DEF used, dirs
  <2>2. /\ IsFiniteSet(dirs)
        /\ Cardinality(used \ dirs) = Cardinality(used) - Cardinality(used \cap dirs)
        /\ used \cap dirs = dirs
    BY <1>2, <2>1, FS_Subset, FS_Difference
  <2>3. Cardinality(used) \in Nat /\ Cardinality(dirs) \in Nat
    BY <1>2, <2>2, FS_CardinalityType
  <2> QED BY <2>2, <2>3
<1>4. owned = UNION {BlocksOf(fs, i) : i \in Files}
  BY DEF BlocksOf, ChainOf
<1>5. Blocks \ FreeBlocks(fs.fat) = owned
  <2>1. /\ Typed(fs) /\ Owned(FirstBlocks(fs), fs.fat)
    BY DEF Consistent
  <2>2. \A i \in Files : \A b \in BlocksOf(fs, i) : b \in Blocks /\ fs.fat[b] # None
    BY <2>1, BlocksAreDisjoint
  <2>3. \A b \in Blocks : fs.fat[b] # None => \E i \in Files : b \in BlocksOf(fs, i)
    BY DEF TidyNow, NoLeakBut
  <2> HIDE DEF owned
  <2> QED BY <1>4, <2>2, <2>3 DEF FreeBlocks
<1> HIDE DEF used, dirs, owned
<1>6. fs_get_stats(fs).total_files + fs_get_stats(fs).total_directories = fs.num_files
  BY <1>1, <1>2, <1>3
<1>7. fs_get_stats(fs).used_blocks = Cardinality(owned)
  BY <1>1, <1>5
<1> QED BY <1>6, <1>7 DEF StatsAddUp, owned

LEMMA TidyAlways == NamedPaths /\ Spec => [](Sound /\ TidyNow)
<1>1. SUFFICES ASSUME NamedPaths PROVE Spec => [](Sound /\ TidyNow)
  OBVIOUS
<1>2. Sound /\ TidyNow /\ [Next]_vars => TidyNow'
  BY <1>1, NextTidy
<1> QED BY <1>2, InitSound, NextSound, InitTidy, PTL DEF Spec

\* With paths that name what they create, what directories list and what
\* entries say of their parent agree: no call leaves a slot that dangles, an
\* entry that is listed nowhere, or one that is listed twice.
THEOREM SlotsMatchParentsCorrect == NamedPaths /\ Spec => []SlotsMatchParents
<1>1. Sound /\ TidyNow => SlotsMatchParents
  BY TidyMatches DEF Sound, TidyNow
<1> QED BY <1>1, TidyAlways, PTL

\* With such paths, fs_get_stats counts what there is: num_files is the
\* number of entries in use, and the blocks that are not free are those on
\* some entry's chain. No call leaks a block.
THEOREM StatsAddUpCorrect == NamedPaths /\ Spec => []StatsAddUp
<1>1. Sound /\ TidyNow => StatsAddUp
  BY TidyAddsUp DEF Sound
<1> QED BY <1>1, TidyAlways, PTL

-----------------------------------------------------------------------------
(* What was written is read back.                                          *)

\* A file that is rewritten stays where it is found.
LEMMA RewrittenChild ==
  ASSUME NEW s, NEW i \in Files, ~s.files[i].is_directory, NEW t, Rewritten(s, t, i),
         NEW d \in Files \cup {NotFound}, NEW name
  PROVE  Child(t, d, name) = Child(s, d, name)
<1>1. ASSUME NEW j \in Files
      PROVE  /\ Used(t, j) <=> Used(s, j)
             /\ t.files[j].name = s.files[j].name
             /\ t.files[j].is_directory = s.files[j].is_directory
  <2>1. CASE j = i
    BY <2>1 DEF Rewritten, Used
  <2>2. CASE j # i
    BY <2>2 DEF Rewritten, Used
  <2> QED BY <2>1, <2>2
<1>2. CASE d = NotFound
  BY <1>2 DEF Child
<1>3. CASE d \in Files /\ ~s.files[d].is_directory
  BY <1>1, <1>3 DEF Child
<1>4. CASE d \in Files /\ s.files[d].is_directory
  <2>1. KeepsData(s, t, d)
    BY <1>4 DEF Rewritten
  <2> DEFINE q == ChainOf(s, d)
  <2>2. /\ ChainOf(t, d) = q
        /\ \A b \in BlocksOf(s, d) : t.block[b] = s.block[b]
    BY <2>1 DEF KeepsData
  <2>3. /\ DOMAIN SlotsOf(s, d) = 1 .. Len(q) * MaxChildren
        /\ DOMAIN SlotsOf(t, d) = 1 .. Len(q) * MaxChildren
    BY <2>2, SlotsAreCells
  <2>4. ASSUME NEW k \in 1 .. Len(q) * MaxChildren PROVE SlotsOf(t, d)[k] = SlotsOf(s, d)[k]
    <3>1. /\ BlockAt(q, k) \in BlocksOf(s, d)
          /\ SlotsOf(s, d)[k] = s.block[BlockAt(q, k)][SlotAt(k)]
          /\ SlotsOf(t, d)[k] = t.block[BlockAt(q, k)][SlotAt(k)]
      <4>1. k \in DOMAIN SlotsOf(s, d) /\ k \in DOMAIN SlotsOf(t, d)
        BY <2>3
      <4>2. /\ BlockAt(q, k) \in BlocksOf(s, d)
            /\ SlotsOf(s, d)[k] = s.block[BlockAt(q, k)][SlotAt(k)]
        BY <4>1, SlotsAreCells
      <4>3. SlotsOf(t, d)[k] = t.block[BlockAt(ChainOf(t, d), k)][SlotAt(k)]
        BY <4>1, SlotsAreCells
      <4> QED BY <2>2, <4>2, <4>3
    <3> QED BY <2>2, <3>1
  <2>5. SlotsOf(t, d) = SlotsOf(s, d)
    <3>1. /\ SlotsOf(s, d) = [k \in DOMAIN SlotsOf(s, d) |-> SlotsOf(s, d)[k]]
          /\ SlotsOf(t, d) = [k \in DOMAIN SlotsOf(t, d) |-> SlotsOf(t, d)[k]]
      BY DEF SlotsOf
    <3> QED BY <2>3, <2>4, <3>1
  <2> DEFINE slots   == SlotsOf(s, d)
             hits(u) == {k \in DOMAIN slots : /\ slots[k] \in Files /\ Used(u, slots[k])
                                              /\ u.files[slots[k]].name = name}
  <2>6. hits(t) = hits(s)
    BY <1>1
  <2>7. /\ Child(s, d, name) = IF hits(s) = {} THEN NotFound ELSE slots[Min(hits(s))]
        /\ Child(t, d, name) = IF hits(t) = {} THEN NotFound ELSE slots[Min(hits(t))]
    BY <1>1, <1>4, <2>5, FilesAreNumbers DEF Child
  <2> HIDE DEF hits, slots
  <2> QED BY <2>6, <2>7
<1> QED BY <1>2, <1>3, <1>4

\* A path finds the same after as before.
LEMMA RewrittenFound ==
  ASSUME NEW s, Rooted(s), NEW i \in Files, ~s.files[i].is_directory,
         NEW t, Rooted(t), Rewritten(s, t, i), NEW p \in Seq(PathNames)
  PROVE  find_entry(t, p) = find_entry(s, p)
<1>1. PICK T : Components(p) \in Seq(T)
  BY ComponentsAreNames
<1> DEFINE Moved(n) == \E names \in Seq(T) :
                         Len(names) = n /\ Resolve(t, names) # Resolve(s, names)
           moved    == {n \in Nat : Moved(n)}
<1>2. ASSUME NEW d \in Files \cup {NotFound}, NEW name
      PROVE  Child(t, d, name) = Child(s, d, name)
  BY <1>2, RewrittenChild
<1>3. ASSUME NEW n \in moved, \A m \in moved : n <= m PROVE FALSE
  <2>1. PICK names \in Seq(T) : Len(names) = n /\ Resolve(t, names) # Resolve(s, names)
    OBVIOUS
  <2>2. n \in Nat
    OBVIOUS
  <2>3. Len(names) > 0
    <3>1. Len(names) # 0
      BY <2>1, ResolvedIsUsed
    <3> QED BY <2>1, <2>2, <3>1
  <2> DEFINE front == ParentPath(names)
  <2>4. front \in Seq(T) /\ Len(front) = n - 1
    BY <2>1, <2>3, FrontOfPath
  <2>5. Resolve(t, front) = Resolve(s, front)
    <3>1. n - 1 \in Nat /\ ~(n <= n - 1)
      BY <2>1, <2>2, <2>3
    <3>2. n - 1 \notin moved
      BY <1>3, <3>1
    <3> QED BY <2>4, <3>1, <3>2
  <2>6. Resolve(s, front) = NotFound \/ Resolve(s, front) \in Files
    BY <2>4, ResolvedIsUsed
  <2>7. /\ Resolve(s, names) = Child(s, Resolve(s, front), names[Len(names)])
        /\ Resolve(t, names) = Child(t, Resolve(t, front), names[Len(names)])
    BY <2>3, ResolveLast
  <2> DEFINE d == Resolve(s, front)
             name == names[Len(names)]
  <2> HIDE DEF front
  <2>8. d \in Files \cup {NotFound}
    BY <2>6
  <2>9. Resolve(s, names) = Child(s, d, name) /\ Resolve(t, names) = Child(t, d, name)
    BY <2>5, <2>7
  <2> HIDE DEF d, name, moved
  <2>10. Child(t, d, name) = Child(s, d, name)
    BY <1>2, <2>8
  <2> QED BY <2>1, <2>9, <2>10
<1>4. moved = {}
  <2>1. moved \subseteq Nat
    OBVIOUS
  <2> HIDE DEF moved
  <2> QED BY <1>3, <2>1, LeastExists
<1>5. Len(Components(p)) \in Nat
  BY <1>1
<1> QED BY <1>1, <1>4, <1>5 DEF find_entry

\* A sequence, whatever its members are.
IsData(content) ==
  Len(content) \in Nat /\ content = [k \in 1 .. Len(content) |-> content[k]]

\* fs_read_file gives what is stored.
LEMMA StoredIsRead ==
  ASSUME NEW s, NEW content, IsData(content), NEW p, Stored(s, find_entry(s, p), content)
  PROVE  fs_read_file(s, p, MaxBlocks) = content
<1> DEFINE i     == find_entry(s, p)
           chain == ChainOf(s, i)
           n     == Len(content)
           ends  == {MaxBlocks, s.files[i].size, Len(chain)}
<1>1. n \in Nat /\ content = [k \in 1 .. n |-> content[k]]
  BY DEF IsData
<1>2. /\ s.files[i].size = n /\ Len(chain) = n
      /\ \A k \in 1 .. n : s.block[chain[k]] = content[k]
  BY DEF Stored
<1>3. MaxBlocks \in Nat /\ n <= MaxBlocks
  BY <1>2, ChainShape, SizeOfDisk DEF ChainOf
<1>4. fs_read_file(s, p, MaxBlocks) = [k \in 1 .. Min(ends) |-> s.block[chain[k]]]
  BY DEF fs_read_file, ChainOf
<1> HIDE DEF i, chain, n
<1>5. Min(ends) = n
  <2>1. ends = {MaxBlocks, n}
    BY <1>2
  <2>2. ends \subseteq Nat /\ n \in ends /\ \A m \in ends : n <= m
    BY <1>1, <1>3, <2>1
  <2> HIDE DEF ends
  <2>3. Min(ends) \in ends /\ Min(ends) <= n
    BY <2>2, MinIsLeast
  <2> QED BY <2>2, <2>3, <1>1
<1> HIDE DEF ends
<1> QED BY <1>1, <1>2, <1>4, <1>5

LEMMA ReadIsData == ASSUME NEW s, NEW p, IsFile(s, find_entry(s, p)), Typed(s)
                    PROVE  IsData(fs_read_file(s, p, MaxBlocks))
<1> DEFINE i     == find_entry(s, p)
           chain == ChainOf(s, i)
           ends  == {MaxBlocks, s.files[i].size, Len(chain)}
           n     == Min(ends)
           read  == [k \in 1 .. n |-> s.block[chain[k]]]
<1>1. n \in Nat
  <2>1. s.files[i].size \in Nat
    BY DEF Typed, IsFile, Entries
  <2>2. ends \subseteq Nat /\ ends # {}
    BY <2>1, BlocksOfChain, SizeOfDisk
  <2> HIDE DEF ends
  <2> QED BY <2>2, MinIsLeast
<1>2. fs_read_file(s, p, MaxBlocks) = read
  BY DEF fs_read_file, ChainOf
<1> HIDE DEF n, i, chain
<1> DEFINE S == {s.block[chain[k]] : k \in 1 .. n}
<1>3. read \in Seq(S) /\ Len(read) = n
  BY <1>1
<1>4. read = [k \in 1 .. n |-> read[k]]
  OBVIOUS
<1> HIDE DEF read
<1> QED BY <1>1, <1>2, <1>3, <1>4 DEF IsData
=============================================================================
