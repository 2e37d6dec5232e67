----------------------------- MODULE TreeProofs -----------------------------
(***************************************************************************)
(* The file system is a tree of paths, for every size of the table, the    *)
(* disk and a directory's block: no two paths lead to one entry, every     *)
(* entry has a path, and each call does to the tree what FileTree says.    *)
(* The paths are those that find_entry reads whole; for others it is false *)
(* (README, findings).                                                     *)
(***************************************************************************)
EXTENDS FileSystemTree, DirectoryProofs

-----------------------------------------------------------------------------
(* Paths that are read whole are looked up by their own names.             *)

LEMMA WholePath ==
  ASSUME PathsAreWhole, NEW p \in Paths
  PROVE  /\ p \in Seq(PathNames) /\ Components(p) = p /\ Named(p)
         /\ p # <<>> =>
              /\ Len(p) \in Nat /\ Len(p) > 0 /\ ParentPath(p) \in Paths
              /\ extract_filename(p) = p[Len(p)] /\ extract_filename(p).len > 0
<1>1. p \in Seq(PathNames) /\ PathCopy(p) = p
  BY FileSystemAssumption DEF PathsAreWhole
<1>2. CASE p = <<>>
  BY <1>1, <1>2 DEF Components, Named
<1>3. CASE p # <<>>
  <2> DEFINE name == p[Len(p)]
  <2>1. Len(p) \in Nat /\ Len(p) > 0 /\ Len(p) \in DOMAIN p
    BY <1>1, <1>3, EmptySeq
  <2>2. name \in PathNames /\ name.len \in 1 .. MaxName
    BY <1>1, <2>1 DEF PathsAreWhole
  <2>3. MaxName \in Nat
    BY FileSystemAssumption
  <2>4. Min({name.len, MaxName}) = name.len
    <3> DEFINE both == {name.len, MaxName}
               n == name.len
    <3>1. n \in Nat /\ n <= MaxName
      BY <2>2, <2>3
    <3> HIDE DEF n
    <3>2. both \subseteq Nat /\ n \in both /\ \A m \in both : n <= m
      BY <2>3, <3>1 DEF n
    <3> HIDE DEF both
    <3>3. Min(both) \in both /\ Min(both) <= n
      BY <3>2, MinIsLeast
    <3>4. PICK m \in Nat : Min(both) = m /\ n <= m /\ m <= n
      BY <3>2, <3>3
    <3>5. Min(both) = n
      BY <3>1, <3>4
    <3> QED BY <3>5 DEF both, n
  <2>5. extract_filename(p) = name
    <3>1. extract_filename(p) = [name EXCEPT !.len = Min({name.len, MaxName})]
      BY DEF extract_filename, CutAt
    <3> HIDE DEF name
    <3> QED BY <2>2, <2>4, <3>1 DEF PathNames
  <2>6. name.len # 0 /\ name.len > 0
    BY <2>2, <2>3
  <2>7. Components(p) = p
    BY <1>1, <2>6 DEF Components
  <2>8. ParentPath(p) \in Paths
    BY <1>3 DEF PathsAreWhole
  <2> QED BY <1>1, <2>1, <2>5, <2>6, <2>7, <2>8 DEF Named
<1> QED BY <1>2, <1>3

\* A path's last name is looked up in what the path above it leads to.
LEMMA FindStep ==
  ASSUME PathsAreWhole, NEW s, NEW p \in Paths, p # <<>>
  PROVE  find_entry(s, p) = Child(s, find_entry(s, ParentPath(p)), p[Len(p)])
<1>1. /\ Components(p) = p /\ p \in Seq(PathNames) /\ Len(p) > 0 /\ ParentPath(p) \in Paths
  BY WholePath
<1>2. Components(ParentPath(p)) = ParentPath(p)
  BY <1>1, WholePath
<1>3. Resolve(s, p) = Child(s, Resolve(s, ParentPath(p)), p[Len(p)])
  BY <1>1, ResolveLast
<1> QED BY <1>1, <1>2, <1>3 DEF find_entry

\* A path is the one above it and its last name.
LEMMA PathIsParentAndName ==
  ASSUME NEW S, NEW p \in Seq(S), NEW q \in Seq(S), p # <<>>, q # <<>>,
         ParentPath(p) = ParentPath(q), p[Len(p)] = q[Len(q)]
  PROVE  p = q
<1>1. Len(p) > 0 /\ Len(q) > 0 /\ Len(p) \in Nat /\ Len(q) \in Nat
  BY EmptySeq
<1>2. /\ Len(ParentPath(p)) = Len(p) - 1 /\ Len(ParentPath(q)) = Len(q) - 1
      /\ \A i \in 1 .. Len(p) - 1 : ParentPath(p)[i] = p[i]
      /\ \A i \in 1 .. Len(q) - 1 : ParentPath(q)[i] = q[i]
  BY <1>1, FrontOfPath
<1> DEFINE n == Len(p)
           m == Len(q)
<1>3. n = m
  <2>1. n - 1 = m - 1 /\ n \in Nat /\ m \in Nat
    BY <1>1, <1>2
  <2> HIDE DEF n, m
  <2> QED BY <2>1
<1>4. \A i \in 1 .. n : p[i] = q[i]
  <2> SUFFICES ASSUME NEW i \in 1 .. n PROVE p[i] = q[i] OBVIOUS
  <2>1. n \in Nat /\ p[n] = q[n] /\ \A k \in 1 .. n - 1 : p[k] = q[k]
    BY <1>1, <1>2, <1>3
  <2> HIDE DEF n
  <2>2. i = n \/ i \in 1 .. n - 1
    BY <2>1
  <2> QED BY <2>1, <2>2
<1>5. p = [i \in 1 .. n |-> p[i]] /\ q = [i \in 1 .. m |-> q[i]]
  OBVIOUS
<1> QED BY <1>3, <1>4, <1>5

-----------------------------------------------------------------------------
(* A path leads down the parent_index of entries, and to one entry only.   *)

\* Entry j has this name in directory e.
Kid(s, e, j, name) ==
  /\ j \in Files \ {0} /\ Used(s, j)
  /\ s.files[j].parent_index = e /\ s.files[j].name = name

\* No directory has two entries of one name.
UniqueNames(s) ==
  \A e \in Files, name \in Names : \A i, j \in Files :
    Kid(s, e, i, name) /\ Kid(s, e, j, name) => i = j

Whole(s) == Consistent(s) /\ Tidy(s) /\ UniqueNames(s)

LEMMA WholeIsConsistent ==
  ASSUME NEW s, Whole(s)
  PROVE  /\ Typed(s) /\ Rooted(s) /\ Directories(s) /\ Parented(s) /\ Listed(s)
         /\ \A j \in Files : s.files[j].name \in Names
BY DEF Whole, Consistent, Tidy, Typed, Entries

\* What find_child finds is the directory's, and has the name.
LEMMA ChildIsKid ==
  ASSUME NEW s, Whole(s), NEW e, e = NotFound \/ (e \in Files /\ Used(s, e)),
         NEW name, Child(s, e, name) # NotFound
  PROVE  Dir(s, e) /\ Kid(s, e, Child(s, e, name), name)
<1> DEFINE j == Child(s, e, name)
<1>1. /\ j \in Files /\ Used(s, j) /\ s.files[j].name = name
      /\ e # NotFound /\ s.files[e].is_directory /\ Holds(s, e, j)
  BY ChildIsHeld
<1> HIDE DEF j
<1>2. Dir(s, e)
  BY <1>1 DEF Dir
<1>3. s.files[j].parent_index = e
  BY <1>1, <1>2, WholeIsConsistent, FilesAreNumbers DEF Listed, Holds, Dir
<1>4. j # 0
  BY <1>2, <1>3, WholeIsConsistent, FilesAreNumbers DEF Rooted, Dir
<1> QED BY <1>1, <1>2, <1>3, <1>4 DEF Kid, j

\* And it finds whatever the directory has under the name.
LEMMA KidIsChild ==
  ASSUME NEW s, Whole(s), NEW e, NEW j, NEW name, Kid(s, e, j, name)
  PROVE  Dir(s, e) /\ Child(s, e, name) = j
<1>1. /\ j \in Files /\ j # 0 /\ Used(s, j)
      /\ s.files[j].parent_index = e /\ s.files[j].name = name /\ name \in Names
  BY WholeIsConsistent DEF Kid
<1>2. Dir(s, e) /\ Holds(s, e, j)
  BY <1>1, WholeIsConsistent DEF Parented
<1>3. e \in Files /\ Used(s, e) /\ s.files[e].is_directory /\ e # NotFound
  BY <1>2, FilesAreNumbers DEF Dir
<1> DEFINE slots == SlotsOf(s, e)
           hits  == {k \in DOMAIN slots : /\ slots[k] \in Files /\ Used(s, slots[k])
                                          /\ s.files[slots[k]].name = name}
<1>4. PICK b \in BlocksOf(s, e), c \in Slots : s.block[b][c] = j
  BY <1>2 DEF Holds
<1>5. PICK k \in DOMAIN slots : slots[k] = j
  BY <1>4, SlotsAreCells
<1>6. k \in hits
  BY <1>1, <1>5
<1>7. hits \subseteq Nat
  BY SlotsAreCells
<1>8. Min(hits) \in hits
  BY <1>6, <1>7, MinIsLeast
<1>9. Child(s, e, name) = slots[Min(hits)]
  BY <1>3, <1>6 DEF Child
<1>10. Child(s, e, name) # NotFound
  BY <1>8, <1>9, FilesAreNumbers
<1> HIDE DEF hits, slots
<1>11. Kid(s, e, Child(s, e, name), name)
  BY <1>3, <1>10, ChildIsKid
<1>12. Child(s, e, name) = j
  BY <1>1, <1>3, <1>11 DEF Whole, UniqueNames, Kid
<1> QED BY <1>2, <1>12

\* What a path leads to.
LEMMA FoundByPath ==
  ASSUME PathsAreWhole, NEW s, Whole(s), NEW p \in Paths
  PROVE  /\ find_entry(s, <<>>) = 0
         /\ \/ find_entry(s, p) = NotFound
            \/ find_entry(s, p) \in Files /\ Used(s, find_entry(s, p))
BY WholePath, WholeIsConsistent, RootPathFound, FoundIsUsed

\* A path leads to the entry that has its last name in the directory above.
LEMMA FoundIsKid ==
  ASSUME PathsAreWhole, NEW s, Whole(s), NEW p \in Paths, p # <<>>
  PROVE  LET e == find_entry(s, ParentPath(p))
         IN  /\ find_entry(s, p) # NotFound =>
                  Dir(s, e) /\ Kid(s, e, find_entry(s, p), p[Len(p)])
             /\ \A j : Kid(s, e, j, p[Len(p)]) => find_entry(s, p) = j
<1> DEFINE e == find_entry(s, ParentPath(p))
           name == p[Len(p)]
<1>1. ParentPath(p) \in Paths /\ find_entry(s, p) = Child(s, e, name)
  BY WholePath, FindStep
<1>2. e = NotFound \/ (e \in Files /\ Used(s, e))
  BY <1>1, FoundByPath
<1> HIDE DEF e, name
<1> QED BY <1>1, <1>2, ChildIsKid, KidIsChild DEF e, name

\* The path above is shorter.
LEMMA ParentIsShorter ==
  ASSUME PathsAreWhole, NEW p \in Paths, p # <<>>
  PROVE  ParentPath(p) \in Paths /\ Len(ParentPath(p)) \in Nat /\ Len(p) \in Nat
         /\ ~(Len(p) <= Len(ParentPath(p)))
<1> DEFINE n == Len(p)
           m == Len(ParentPath(p))
<1>1. ParentPath(p) \in Paths /\ n \in Nat /\ n > 0 /\ m = n - 1
  BY WholePath, FrontOfPath
<1> HIDE DEF n, m
<1>2. m \in Nat /\ ~(n <= m)
  BY <1>1
<1> QED BY <1>1, <1>2 DEF n, m

\* Among paths of which something is said there is a shortest.
LEMMA ShortestPath ==
  ASSUME PathsAreWhole, NEW S, S \subseteq Paths, S # {}
  PROVE  \E p \in S : \A q \in Paths : ~(Len(p) <= Len(q)) => q \notin S
<1> DEFINE lengths == {Len(p) : p \in S}
<1>1. \A p \in Paths : Len(p) \in Nat
  BY WholePath
<1>2. lengths \subseteq Nat /\ lengths # {}
  BY <1>1
<1> HIDE DEF lengths
<1>3. PICK n \in lengths : \A m \in lengths : n <= m
  BY <1>2, LeastExists
<1>4. PICK p \in S : n = Len(p)
  BY <1>3 DEF lengths
<1>5. ASSUME NEW q \in Paths, ~(Len(p) <= Len(q)) PROVE q \notin S
  BY <1>3, <1>4, <1>5 DEF lengths
<1> QED BY <1>4, <1>5

\* No two paths lead to one entry.
LEMMA PathsAreApart ==
  ASSUME PathsAreWhole, NEW s, Whole(s), NEW p \in Paths, NEW q \in Paths,
         find_entry(s, p) = find_entry(s, q), find_entry(s, p) # NotFound
  PROVE  p = q
<1> DEFINE twins == {r \in Paths : /\ find_entry(s, r) # NotFound
                                   /\ \E o \in Paths : /\ o # r
                                                       /\ find_entry(s, o) = find_entry(s, r)}
<1> SUFFICES twins = {} OBVIOUS
<1>1. ASSUME NEW r \in twins, \A o \in Paths : ~(Len(r) <= Len(o)) => o \notin twins
      PROVE  FALSE
  <2>1. r \in Paths /\ find_entry(s, r) # NotFound
    OBVIOUS
  <2>2. PICK o \in Paths : o # r /\ find_entry(s, o) = find_entry(s, r)
    OBVIOUS
  <2>3. r # <<>> /\ o # <<>>
    BY <2>1, <2>2, FoundByPath, FoundIsKid DEF Kid
  <2> DEFINE above == ParentPath(r)
             aside == ParentPath(o)
  <2>4. /\ above \in Paths /\ aside \in Paths /\ ~(Len(r) <= Len(above))
    BY <2>1, <2>2, <2>3, ParentIsShorter
  <2>5. /\ Dir(s, find_entry(s, above)) /\ find_entry(s, above) = find_entry(s, aside)
        /\ r[Len(r)] = o[Len(o)]
    BY <2>1, <2>2, <2>3, FoundIsKid DEF Kid
  <2>6. find_entry(s, above) # NotFound
    BY <2>5, FilesAreNumbers DEF Dir
  <2>7. above \notin twins
    BY <1>1, <2>4
  <2>8. above = aside
    BY <2>4, <2>5, <2>6, <2>7
  <2>9. r \in Seq(PathNames) /\ o \in Seq(PathNames)
    BY <2>1, <2>2, WholePath
  <2> QED BY <2>2, <2>3, <2>5, <2>8, <2>9, PathIsParentAndName
<1>2. twins \subseteq Paths
  OBVIOUS
<1> HIDE DEF twins
<1> QED BY <1>1, <1>2, ShortestPath

\* Where every entry keeps its name and place, every path leads where it led.
LEMMA FoundGrows ==
  ASSUME PathsAreWhole, NEW s, Whole(s), NEW t, Whole(t),
         \A e, j, name : Kid(s, e, j, name) => Kid(t, e, j, name),
         NEW p \in Paths, find_entry(s, p) # NotFound
  PROVE  find_entry(t, p) = find_entry(s, p)
<1> DEFINE moved == {r \in Paths : /\ find_entry(s, r) # NotFound
                                   /\ find_entry(t, r) # find_entry(s, r)}
<1> SUFFICES moved = {} OBVIOUS
<1>1. ASSUME NEW r \in moved, \A o \in Paths : ~(Len(r) <= Len(o)) => o \notin moved
      PROVE  FALSE
  <2>1. r \in Paths /\ find_entry(s, r) # NotFound /\ find_entry(t, r) # find_entry(s, r)
    OBVIOUS
  <2>2. r # <<>>
    BY <2>1, FoundByPath
  <2> DEFINE above == ParentPath(r)
             e     == find_entry(s, above)
  <2>3. above \in Paths /\ ~(Len(r) <= Len(above))
    BY <2>1, <2>2, ParentIsShorter
  <2>4. Dir(s, e) /\ Kid(s, e, find_entry(s, r), r[Len(r)])
    BY <2>1, <2>2, FoundIsKid
  <2>5. e # NotFound
    BY <2>4, FilesAreNumbers DEF Dir
  <2>6. find_entry(t, above) = e
    BY <1>1, <2>3, <2>5
  <2>7. Kid(t, find_entry(t, above), find_entry(s, r), r[Len(r)])
    BY <2>4, <2>6
  <2>8. find_entry(t, r) = find_entry(s, r)
    BY <2>1, <2>2, <2>7, FoundIsKid
  <2> QED BY <2>1, <2>8
<1>2. moved \subseteq Paths
  OBVIOUS
<1> HIDE DEF moved
<1> QED BY <1>1, <1>2, ShortestPath

-----------------------------------------------------------------------------
(* One entry more or less.                                                 *)

\* t is s with the entry i, and the other files have the data they had.
GrownBy(s, t, i) ==
  /\ i \in Files \ {0} /\ ~Used(s, i) /\ Used(t, i)
  /\ \A j \in Files \ {i} :
       /\ t.files[j] = s.files[j]
       /\ Used(s, j) /\ ~s.files[j].is_directory => KeepsData(s, t, j)

LEMMA GrownKids ==
  ASSUME NEW s, Whole(s), NEW t, Whole(t), NEW i, GrownBy(s, t, i)
  PROVE  /\ \A e, j, name : Kid(s, e, j, name) => j # i /\ Kid(t, e, j, name)
         /\ \A e, j, name : j # i /\ Kid(t, e, j, name) => Kid(s, e, j, name)
BY DEF GrownBy, Kid, Used

\* The path of the new entry is the only one that leads elsewhere than it led.
LEMMA GrownFinds ==
  ASSUME PathsAreWhole, NEW s, Whole(s), NEW t, Whole(t), NEW i, GrownBy(s, t, i),
         NEW p \in Paths, find_entry(t, p) = i
  PROVE  /\ find_entry(s, p) = NotFound
         /\ \A q \in Paths : find_entry(t, q) = IF q = p THEN i ELSE find_entry(s, q)
<1>1. \A e, j, name : Kid(s, e, j, name) => Kid(t, e, j, name)
  BY GrownKids
<1>2. ASSUME NEW q \in Paths, find_entry(s, q) # NotFound
      PROVE  find_entry(t, q) = find_entry(s, q)
  BY <1>1, <1>2, FoundGrows
<1>3. find_entry(s, p) = NotFound
  <2> SUFFICES ASSUME find_entry(s, p) # NotFound PROVE FALSE OBVIOUS
  <2>1. find_entry(s, p) = i
    BY <1>2
  <2>2. Used(s, i)
    BY <2>1, FoundByPath
  <2> QED BY <2>2 DEF GrownBy
<1> DEFINE gained == {q \in Paths : /\ q # p /\ find_entry(s, q) = NotFound
                                    /\ find_entry(t, q) # NotFound}
<1>4. ASSUME NEW q \in gained, \A o \in Paths : ~(Len(q) <= Len(o)) => o \notin gained
      PROVE  FALSE
  <2>1. q \in Paths /\ q # p /\ find_entry(s, q) = NotFound /\ find_entry(t, q) # NotFound
    OBVIOUS
  <2>2. q # <<>>
    BY <2>1, FoundByPath, FilesAreNumbers
  <2> DEFINE above == ParentPath(q)
             e     == find_entry(t, above)
             j     == find_entry(t, q)
  <2>3. above \in Paths /\ ~(Len(q) <= Len(above))
    BY <2>1, <2>2, ParentIsShorter
  <2>4. Dir(t, e) /\ Kid(t, e, j, q[Len(q)])
    BY <2>1, <2>2, FoundIsKid
  <2>5. j # i
    <3>1. i # NotFound
      BY FilesAreNumbers DEF GrownBy
    <3>2. j = i => q = p
      BY <2>1, <3>1, PathsAreApart
    <3> QED BY <2>1, <3>2
  <2> HIDE DEF j
  <2>6. Kid(s, e, j, q[Len(q)])
    BY <2>4, <2>5, GrownKids
  <2>7. Used(s, e) /\ e # NotFound
    BY <2>6, KidIsChild, FilesAreNumbers DEF Dir
  <2>8. above # p
    BY <2>7 DEF GrownBy
  <2>9. find_entry(s, above) = e
    BY <1>2, <1>4, <2>3, <2>7, <2>8
  <2>10. find_entry(s, q) = j
    BY <2>1, <2>2, <2>6, <2>9, FoundIsKid
  <2>11. j # NotFound
    BY <2>1 DEF j
  <2> QED BY <2>1, <2>10, <2>11
<1>5. gained = {}
  <2>1. gained \subseteq Paths
    OBVIOUS
  <2> HIDE DEF gained
  <2> QED BY <1>4, <2>1, ShortestPath
<1>6. ASSUME NEW q \in Paths, q # p PROVE find_entry(t, q) = find_entry(s, q)
  BY <1>2, <1>5, <1>6
<1> QED BY <1>3, <1>6

\* Every entry has a path.
AllReachable(s) == \A j \in Files : Used(s, j) => \E p \in Paths : find_entry(s, p) = j

LEMMA GrownReachable ==
  ASSUME PathsAreWhole, NEW s, Whole(s), NEW t, Whole(t), NEW i, GrownBy(s, t, i),
         NEW p \in Paths, find_entry(t, p) = i
  PROVE  AllReachable(s) <=> AllReachable(t)
<1>1. /\ find_entry(s, p) = NotFound
      /\ \A q \in Paths : find_entry(t, q) = IF q = p THEN i ELSE find_entry(s, q)
  BY GrownFinds
<1>2. \A j \in Files : /\ Used(t, j) <=> Used(s, j) \/ j = i
                       /\ Used(s, j) => j # i
  BY DEF GrownBy, Used
<1>3. ASSUME NEW j \in Files, Used(s, j), NEW q \in Paths
      PROVE  find_entry(s, q) = j <=> find_entry(t, q) = j
  BY <1>1, <1>2, <1>3, FilesAreNumbers
<1> QED BY <1>2, <1>3 DEF AllReachable

-----------------------------------------------------------------------------
(* What there is to see at a path.                                         *)

\* A path shows a directory, or what reading the file gives.
Shown(s, p) ==
  IF IsDirectory(s, find_entry(s, p)) THEN DirNode ELSE fs_read_file(s, p, MaxBlocks)

Found(s) == {q \in Paths : find_entry(s, q) # NotFound}

LEMMA TreeIsShown ==
  ASSUME NEW s
  PROVE  /\ TreeOf(s) = [p \in Found(s) |-> Shown(s, p)]
         /\ DOMAIN TreeOf(s) = Found(s)
         /\ \A p \in Found(s) : TreeOf(s)[p] = Shown(s, p)
BY DEF TreeOf, Found, Shown

\* A read of a whole file takes blocks of its chain only.
LEMMA ReadIsOfChain ==
  ASSUME NEW s, Typed(s), NEW j \in Files,
         NEW n, n = Min({MaxBlocks, s.files[j].size, Len(ChainOf(s, j))})
  PROVE  n \in Nat /\ \A k \in 1 .. n : ChainOf(s, j)[k] \in BlocksOf(s, j)
<1> DEFINE q    == ChainOf(s, j)
           l    == Len(q)
           ends == {MaxBlocks, s.files[j].size, l}
<1>1. s.files[j].size \in Nat
  BY DEF Typed, Entries
<1>2. l \in Nat /\ \A k \in 1 .. l : q[k] \in BlocksOf(s, j)
  BY BlocksOfChain
<1>3. ends \subseteq Nat /\ l \in ends
  BY <1>1, <1>2, SizeOfDisk
<1>4. n = Min(ends)
  OBVIOUS
<1> HIDE DEF q, l, ends
<1>5. n \in Nat /\ n <= l
  BY <1>3, <1>4, MinIsLeast
<1>6. \A k \in 1 .. n : k \in 1 .. l
  BY <1>2, <1>5
<1> QED BY <1>2, <1>5, <1>6 DEF q

\* A path shows the same if it leads to the same and that has what it had.
LEMMA SameShown ==
  ASSUME NEW s, Typed(s), NEW t, NEW p, NEW j \in Files,
         find_entry(s, p) = j, find_entry(t, p) = j,
         t.files[j] = s.files[j], ~s.files[j].is_directory => KeepsData(s, t, j)
  PROVE  Shown(t, p) = Shown(s, p)
<1>1. CASE s.files[j].is_directory
  BY <1>1 DEF Shown, IsDirectory
<1>2. CASE ~s.files[j].is_directory
  <2> DEFINE q == ChainOf(s, j)
             n == Min({MaxBlocks, s.files[j].size, Len(q)})
  <2>1. /\ ChainOf(t, j) = q /\ \A b \in BlocksOf(s, j) : t.block[b] = s.block[b]
    BY <1>2 DEF KeepsData
  <2>2. /\ fs_read_file(s, p, MaxBlocks) = [k \in 1 .. n |-> s.block[q[k]]]
        /\ fs_read_file(t, p, MaxBlocks) = [k \in 1 .. n |-> t.block[q[k]]]
    <3>1. t.files[j].size = s.files[j].size
      OBVIOUS
    <3> QED BY <2>1, <3>1 DEF fs_read_file, ChainOf
  <2>3. n \in Nat /\ \A k \in 1 .. n : q[k] \in BlocksOf(s, j)
    BY ReadIsOfChain
  <2> HIDE DEF n, q
  <2>4. fs_read_file(t, p, MaxBlocks) = fs_read_file(s, p, MaxBlocks)
    BY <2>1, <2>2, <2>3
  <2> QED BY <1>2, <2>4 DEF Shown, IsDirectory
<1> QED BY <1>1, <1>2

\* A file without blocks reads as nothing.
LEMMA NothingIsShown ==
  ASSUME NEW s, Typed(s), NEW p, NEW j \in Files, find_entry(s, p) = j,
         ~s.files[j].is_directory, Len(ChainOf(s, j)) = 0
  PROVE  Shown(s, p) = <<>>
<1> DEFINE ends == {MaxBlocks, s.files[j].size, Len(ChainOf(s, j))}
<1>1. s.files[j].size \in Nat
  BY DEF Typed, Entries
<1>2. ends \subseteq Nat /\ 0 \in ends
  BY <1>1, SizeOfDisk
<1> DEFINE at(k) == s.block[ChainOf(s, j)[k]]
<1>3. fs_read_file(s, p, MaxBlocks) = [k \in 1 .. Min(ends) |-> at(k)]
  BY DEF fs_read_file, ChainOf
<1> HIDE DEF ends, at
<1>4. Min(ends) = 0
  <2>1. PICK m \in Nat : Min(ends) = m /\ m <= 0
    BY <1>2, MinIsLeast
  <2> QED BY <2>1
<1>5. fs_read_file(s, p, MaxBlocks) = <<>>
  BY <1>3, <1>4
<1> QED BY <1>5 DEF Shown, IsDirectory

\* A file never shows as a directory.
LEMMA FileIsNoDirectory ==
  ASSUME NEW s, Typed(s), s.block \in [Blocks -> DataOrChildren], NEW p,
         IsFile(s, find_entry(s, p))
  PROVE  Shown(s, p) # DirNode
<1> DEFINE j    == find_entry(s, p)
           q    == ChainOf(s, j)
           n    == Min({MaxBlocks, s.files[j].size, Len(q)})
           read == [k \in 1 .. n |-> s.block[q[k]]]
<1>1. n \in Nat /\ \A k \in 1 .. n : q[k] \in BlocksOf(s, j)
  BY ReadIsOfChain DEF IsFile
<1>2. BlocksOf(s, j) \subseteq Blocks
  BY BlocksOfChain
<1>3. Shown(s, p) = read
  BY DEF Shown, fs_read_file, ChainOf, IsFile, IsDirectory
<1> HIDE DEF n, q
<1>4. read \in Seq(DataOrChildren)
  BY <1>1, <1>2
<1>5. DirNode \notin Seq(DataOrChildren)
  BY DirNodeAssumption DEF DataOrChildren, Children
<1> QED BY <1>3, <1>4, <1>5

\* With the entry that was added, the tree has its path, and what that shows.
LEMMA GrownTree ==
  ASSUME PathsAreWhole, NEW s, Whole(s), NEW t, Whole(t), NEW i, GrownBy(s, t, i),
         NEW p \in Paths, find_entry(t, p) = i
  PROVE  /\ p \notin Found(s) /\ Found(t) = Found(s) \cup {p}
         /\ \A q \in Found(s) : Shown(t, q) = Shown(s, q)
<1>1. /\ find_entry(s, p) = NotFound
      /\ \A q \in Paths : find_entry(t, q) = IF q = p THEN i ELSE find_entry(s, q)
  BY GrownFinds
<1>2. i # NotFound
  BY FilesAreNumbers DEF GrownBy
<1>3. ASSUME NEW q \in Found(s) PROVE Shown(t, q) = Shown(s, q)
  <2> DEFINE j == find_entry(s, q)
  <2>1. q \in Paths /\ q # p /\ j # NotFound
    BY <1>1 DEF Found
  <2>2. j \in Files /\ Used(s, j) /\ find_entry(t, q) = j
    BY <1>1, <2>1, FoundByPath
  <2> HIDE DEF j
  <2>3. t.files[j] = s.files[j] /\ (~s.files[j].is_directory => KeepsData(s, t, j))
    BY <2>2 DEF GrownBy
  <2> QED BY <2>2, <2>3, SameShown, WholeIsConsistent DEF j
<1> QED BY <1>1, <1>2, <1>3 DEF Found

\* As many paths lead to something as there are entries.
LEMMA PathsCounted ==
  ASSUME PathsAreWhole, NEW s, Whole(s), AllReachable(s)
  PROVE  Cardinality(Found(s)) = s.num_files
<1> DEFINE path(j) == CHOOSE p \in Paths : find_entry(s, p) = j
           f       == [j \in UsedEntries(s) |-> path(j)]
<1>1. \A j \in UsedEntries(s) : path(j) \in Paths /\ find_entry(s, path(j)) = j /\ j # NotFound
  BY FilesAreNumbers DEF AllReachable, UsedEntries
<1>2. ASSUME NEW p \in Found(s)
      PROVE  find_entry(s, p) \in UsedEntries(s) /\ path(find_entry(s, p)) = p
  <2> DEFINE j == find_entry(s, p)
  <2>1. p \in Paths /\ j # NotFound
    BY DEF Found
  <2>2. j \in UsedEntries(s)
    BY <2>1, FoundByPath DEF UsedEntries
  <2>3. path(j) \in Paths /\ find_entry(s, path(j)) = j
    BY <1>1, <2>2
  <2>4. path(j) = p
    BY <2>1, <2>3, PathsAreApart
  <2> QED BY <2>2, <2>4
<1> HIDE DEF path
<1>3. /\ f \in [UsedEntries(s) -> Found(s)]
      /\ \A j, k \in UsedEntries(s) : f[j] = f[k] => j = k
      /\ \A p \in Found(s) : \E j \in UsedEntries(s) : f[j] = p
  BY <1>1, <1>2 DEF Found
<1> HIDE DEF f
<1>4. f \in Bijection(UsedEntries(s), Found(s))
  BY <1>3 DEF Bijection, Injection, Surjection, IsInjective
<1>5. ExistsBijection(UsedEntries(s), Found(s))
  BY <1>4 DEF ExistsBijection
<1>6. Cardinality(Found(s)) = Cardinality(UsedEntries(s))
  BY <1>5, UsedIsFinite, FS_Bijection
<1> QED BY <1>6 DEF Whole, Tidy

-----------------------------------------------------------------------------
(* What the calls do to the tree.                                          *)

\* Changes in free blocks are not seen.
LEMMA SameTree ==
  ASSUME PathsAreWhole, NEW s, Whole(s), NEW t, Consistent(t), Tidy(t),
         t.files = s.files, \A j \in Files : KeepsData(s, t, j)
  PROVE  /\ Whole(t) /\ (AllReachable(s) => AllReachable(t))
         /\ Found(t) = Found(s) /\ TreeOf(t) = TreeOf(s)
<1>1. \A e, j, name : Kid(s, e, j, name) <=> Kid(t, e, j, name)
  BY DEF Kid, Used
<1>2. Whole(t)
  BY <1>1 DEF Whole, UniqueNames
<1>3. ASSUME NEW p \in Paths PROVE find_entry(t, p) = find_entry(s, p)
  <2>1. find_entry(s, p) # NotFound => find_entry(t, p) = find_entry(s, p)
    BY <1>1, <1>2, FoundGrows
  <2>2. find_entry(t, p) # NotFound => find_entry(s, p) = find_entry(t, p)
    BY <1>1, <1>2, FoundGrows
  <2> QED BY <2>1, <2>2
<1>4. Found(t) = Found(s)
  BY <1>3 DEF Found
<1>5. AllReachable(s) => AllReachable(t)
  BY <1>3 DEF AllReachable, Used
<1>6. ASSUME NEW p \in Found(s) PROVE Shown(t, p) = Shown(s, p)
  <2> DEFINE j == find_entry(s, p)
  <2>1. p \in Paths /\ j # NotFound
    BY DEF Found
  <2>2. j \in Files /\ find_entry(t, p) = j
    BY <1>3, <2>1, FoundByPath
  <2> HIDE DEF j
  <2> QED BY <2>2, SameShown, WholeIsConsistent DEF j
<1>7. TreeOf(t) = TreeOf(s)
  BY <1>4, <1>6, TreeIsShown
<1> QED BY <1>2, <1>4, <1>5, <1>7

\* A new entry is where its path leads.
LEMMA CreatedIsFound ==
  ASSUME PathsAreWhole, NEW s, Whole(s), NEW t, Consistent(t), Tidy(t),
         NEW p \in Paths, p # <<>>, find_entry(s, p) = NotFound,
         NEW d, d = find_entry(s, ParentPath(p)), Dir(s, d), NEW i \in FreeEntries(s),
         NEW is_directory \in BOOLEAN, NEW first,
         t.files = [s.files EXCEPT ![i] = NewEntry(p, d, is_directory, first)],
         \A j \in Files \ {i} : Used(s, j) /\ ~s.files[j].is_directory => KeepsData(s, t, j)
  PROVE  /\ Whole(t) /\ GrownBy(s, t, i) /\ find_entry(t, p) = i
         /\ Shown(t, p) = IF is_directory THEN DirNode ELSE <<>>
<1>1. /\ Typed(s) /\ Rooted(s) /\ DOMAIN s.files = Files /\ Typed(t) /\ Sized(t)
  BY WholeIsConsistent DEF Typed, Consistent
<1>2. i \in Files /\ ~Used(s, i)
  BY DEF FreeEntries
<1>3. i # 0
  BY <1>1, <1>2 DEF Rooted, Dir
<1> DEFINE name == p[Len(p)]
<1>4. extract_filename(p) = name /\ name.len > 0 /\ ParentPath(p) \in Paths
  BY WholePath
<1>5. /\ t.files[i] = NewEntry(p, d, is_directory, first)
      /\ \A j \in Files \ {i} : t.files[j] = s.files[j]
  BY <1>1, <1>2
<1>6. /\ t.files[i].name = name /\ t.files[i].parent_index = d /\ t.files[i].size = 0
      /\ t.files[i].is_directory = is_directory
  BY <1>4, <1>5 DEF NewEntry
<1>7. \A j : ~Kid(s, d, j, name)
  <2> SUFFICES ASSUME NEW j, Kid(s, d, j, name) PROVE FALSE OBVIOUS
  <2>1. find_entry(s, p) = j
    BY FoundIsKid
  <2> QED BY <2>1, FilesAreNumbers DEF Kid
<1> HIDE DEF name
<1>8. Used(t, i) /\ Kid(t, d, i, name)
  BY <1>2, <1>3, <1>4, <1>6 DEF Used, Kid
<1>9. GrownBy(s, t, i)
  BY <1>2, <1>3, <1>5, <1>8 DEF GrownBy
<1>10. /\ \A e, j, n : Kid(s, e, j, n) => Kid(t, e, j, n)
       /\ \A e, j, n : Kid(t, e, j, n) => Kid(s, e, j, n) \/ (j = i /\ e = d /\ n = name)
  BY <1>2, <1>5, <1>6 DEF Kid, Used
<1>11. UniqueNames(t)
  <2> SUFFICES ASSUME NEW e \in Files, NEW n \in Names, NEW j \in Files, NEW k \in Files,
                      Kid(t, e, j, n), Kid(t, e, k, n)
               PROVE  j = k
    BY DEF UniqueNames
  <2> QED BY <1>7, <1>10 DEF Whole, UniqueNames
<1>12. Whole(t)
  BY <1>11 DEF Whole
<1>13. find_entry(t, ParentPath(p)) = d
  <2>1. d # NotFound
    BY FilesAreNumbers DEF Dir
  <2> QED BY <1>4, <1>10, <1>12, <2>1, FoundGrows
<1>14. find_entry(t, p) = i
  <2>1. Kid(t, find_entry(t, ParentPath(p)), i, p[Len(p)])
    BY <1>8, <1>13 DEF name
  <2> QED BY <1>12, <2>1, FoundIsKid
<1>15. CASE is_directory
  BY <1>2, <1>6, <1>14, <1>15, <1>9, <1>12 DEF Shown, IsDirectory
<1>16. CASE ~is_directory
  <2>1. Len(ChainOf(t, i)) = 0
    BY <1>1, <1>2, <1>6, <1>8, <1>16 DEF Sized
  <2>2. Shown(t, p) = <<>>
    BY <1>1, <1>2, <1>6, <1>14, <1>16, <2>1, NothingIsShown
  <2> QED BY <1>9, <1>12, <1>14, <1>16, <2>2
<1> QED BY <1>15, <1>16

LEMMA EnteredFiles ==
  ASSUME NEW s, Consistent(s), NEW d, Dir(s, d), NEW i \in FreeEntries(s), CanAddChild(s, d),
         NEW p, NEW is_directory, NEW first, Fresh(s, is_directory, first)
  PROVE  Enter(add_child_to_directory(s, d, i), i, p, d, is_directory, first).files =
           [s.files EXCEPT ![i] = NewEntry(p, d, is_directory, first)]
<1>1. Typed(s) /\ Owned(FirstBlocks(s), s.fat) /\ Directories(s)
  BY DEF Consistent
<1> DEFINE t == Enter(add_child_to_directory(s, d, i), i, p, d, is_directory, first)
<1>2. /\ DOMAIN t = DOMAIN s /\ t.num_files = s.num_files + 1
      /\ t.files = [s.files EXCEPT ![i] = NewEntry(p, d, is_directory, first)]
      /\ t.fat \in Tables /\ DOMAIN t.block = Blocks
      /\ Owned(FirstBlocks(t), t.fat)
      /\ \A j \in Files \ {d, i} : ChainOf(t, j) = ChainOf(s, j)
      /\ Len(ChainOf(t, i)) = IF is_directory THEN 1 ELSE 0
      /\ BlocksOf(t, i) = IF is_directory THEN {first} ELSE {}
      /\ is_directory => t.block[first] = NoChildren
      /\ \E nb, nc : Added(s, t, d, i, nb, nc)
  BY <1>1, CreateEffect
<1> QED BY <1>2

\* So it is when the entry is entered, from a buffer u in which at most a block
\* was taken for it.
LEMMA EnteredIsFound ==
  ASSUME PathsAreWhole, NEW s, Whole(s), NEW u, Consistent(u), u.num_files < MaxFiles,
         u.files = s.files, \A j \in Files : KeepsData(s, u, j),
         NEW p \in Paths, p # <<>>, find_entry(s, p) = NotFound, extract_filename(p) \in Names,
         NEW d, d = find_entry(s, ParentPath(p)), Dir(s, d), NEW i \in FreeEntries(s),
         CanAddChild(u, d), NEW is_directory \in BOOLEAN, NEW first,
         Fresh(u, is_directory, first), NEW t,
         t = Enter(add_child_to_directory(u, d, i), i, p, d, is_directory, first),
         Consistent(t), Tidy(t)
  PROVE  /\ Whole(t) /\ GrownBy(s, t, i) /\ find_entry(t, p) = i
         /\ Shown(t, p) = IF is_directory THEN DirNode ELSE <<>>
<1>1. Dir(u, d) /\ i \in FreeEntries(u)
  BY DEF Dir, FreeEntries, Used
<1>2. \A j \in Files \ {d, i} : KeepsData(u, t, j)
  BY <1>1, CreateConsistent
<1>3. t.files = [s.files EXCEPT ![i] = NewEntry(p, d, is_directory, first)]
  BY <1>1, EnteredFiles
<1>4. \A j \in Files \ {i} : Used(s, j) /\ ~s.files[j].is_directory => KeepsData(s, t, j)
  BY <1>2 DEF KeepsData, Dir
<1> QED BY <1>3, <1>4, CreatedIsFound

\* What holds of the buffer after every call.
Known == Sound /\ TidyNow /\ UniqueNames(fs) /\ AllReachable(fs)

LEMMA KnownIsWhole == ASSUME Known PROVE Whole(fs)
BY DEF Known, Sound, TidyNow, Whole

\* Nothing is created, or a node at path p.
Created(p, node) ==
  \/ /\ Refused(p) /\ fs'.files = fs.files
     /\ \A j \in Files : KeepsData(fs, fs', j)
  \/ /\ Creatable(p) /\ ret' = 0 /\ Whole(fs')
     /\ \E i : GrownBy(fs, fs', i) /\ find_entry(fs', p) = i /\ Shown(fs', p) = node

LEMMA CreateFileInTree ==
  ASSUME PathsAreWhole, Known, NEW p \in Paths, fs_create_file(p),
         Consistent(fs'), Tidy(fs')
  PROVE  Created(p, <<>>)
<1>1. CASE AlreadyThere(p) /\ Return(0)
  BY <1>1 DEF AlreadyThere, Return, Refused, KeepsData, Created
<1>2. CASE (~AlreadyThere(p) \/ Creatable(p)) /\ Return(-1)
  BY <1>2 DEF AlreadyThere, Creatable, Return, Refused, KeepsData, Created
<1> DEFINE d == find_entry(fs, ParentPath(p))
           i == Min(FreeEntries(fs))
<1>3. CASE /\ Creatable(p) /\ extract_filename(p).len > 0 /\ CanAddChild(fs, d)
           /\ ret' = 0
           /\ fs' = Enter(add_child_to_directory(fs, d, i), i, p, d, FALSE, None)
  <2>1. Whole(fs) /\ Consistent(fs) /\ p \in Seq(PathNames)
    BY KnownIsWhole, FileSystemAssumption DEF Whole
  <2>2. /\ extract_filename(p) \in Names /\ Dir(fs, d) /\ i \in FreeEntries(fs)
        /\ fs.num_files < MaxFiles
    BY <1>3, <2>1, CreatablePath
  <2>3. p # <<>> /\ find_entry(fs, p) = NotFound
    BY <1>3, <2>1, RootPathFound DEF Creatable, Consistent, NotFound
  <2>4. d = find_entry(fs, ParentPath(p))
    OBVIOUS
  <2> HIDE DEF d, i
  <2>5. Fresh(fs, FALSE, None)
    BY DEF Fresh
  <2>6. \A j \in Files : KeepsData(fs, fs, j)
    BY DEF KeepsData
  <2>7. /\ Whole(fs') /\ GrownBy(fs, fs', i) /\ find_entry(fs', p) = i
        /\ Shown(fs', p) = IF FALSE THEN DirNode ELSE <<>>
    <3>1. PICK t : t = fs'
      OBVIOUS
    <3>2. PICK b \in BOOLEAN : b = FALSE
      OBVIOUS
    <3>3. /\ t = Enter(add_child_to_directory(fs, d, i), i, p, d, b, None)
          /\ Consistent(t) /\ Tidy(t) /\ Fresh(fs, b, None) /\ Consistent(fs)
          /\ CanAddChild(fs, d) /\ fs.files = fs.files
      BY <1>3, <2>1, <2>5, <3>1, <3>2
    <3>4. /\ Whole(t) /\ GrownBy(fs, t, i) /\ find_entry(t, p) = i
          /\ Shown(t, p) = IF b THEN DirNode ELSE <<>>
      BY <2>1, <2>2, <2>3, <2>4, <2>6, <3>3, EnteredIsFound
    <3> QED BY <3>1, <3>2, <3>4
  <2> QED BY <1>3, <2>7 DEF Created
<1> QED BY <1>1, <1>2, <1>3 DEF fs_create_file, Become, Return

LEMMA CreateDirectoryInTree ==
  ASSUME PathsAreWhole, Known, NEW p \in Paths, fs_create_directory(p),
         Consistent(fs'), Tidy(fs')
  PROVE  Created(p, DirNode)
<1>1. Whole(fs) /\ Consistent(fs) /\ p \in Seq(PathNames)
  BY KnownIsWhole, FileSystemAssumption DEF Whole
<1>2. ASSUME extract_filename(p) \in Names, p # <<>>, Creatable(p), ret' = 0,
             NEW taken, NEW new, NEW d, NEW i, d = find_entry(fs, ParentPath(p)),
             Taken(fs, taken, new), taken.num_files < MaxFiles,
             Dir(taken, d), i \in FreeEntries(taken), CanAddChild(taken, d),
             fs' = Enter(add_child_to_directory(taken, d, i), i, p, d, TRUE, new)
      PROVE  /\ Whole(fs') /\ GrownBy(fs, fs', i) /\ find_entry(fs', p) = i
             /\ Shown(fs', p) = DirNode
  <2>1. /\ Consistent(taken) /\ Fresh(taken, TRUE, new) /\ taken.files = fs.files
        /\ \A j \in Files : KeepsData(fs, taken, j)
    BY <1>2 DEF Taken
  <2>2. Dir(fs, d) /\ i \in FreeEntries(fs)
    BY <1>2, <2>1 DEF Dir, FreeEntries, Used
  <2>3. find_entry(fs, p) = NotFound
    BY <1>2 DEF Creatable
  <2>4. /\ Whole(fs') /\ GrownBy(fs, fs', i) /\ find_entry(fs', p) = i
        /\ Shown(fs', p) = IF TRUE THEN DirNode ELSE <<>>
    <3>1. PICK t : t = fs'
      OBVIOUS
    <3>2. PICK b \in BOOLEAN : b = TRUE
      OBVIOUS
    <3>3. /\ t = Enter(add_child_to_directory(taken, d, i), i, p, d, b, new)
          /\ Consistent(t) /\ Tidy(t) /\ Fresh(taken, b, new)
      BY <1>2, <2>1, <3>1, <3>2
    <3>4. /\ Whole(t) /\ GrownBy(fs, t, i) /\ find_entry(t, p) = i
          /\ Shown(t, p) = IF b THEN DirNode ELSE <<>>
      BY <1>1, <1>2, <2>1, <2>2, <2>3, <3>3, EnteredIsFound
    <3> QED BY <3>1, <3>2, <3>4
  <2> QED BY <2>4
<1> QED BY <1>1, <1>2, CreateDirectoryCases DEF Created

\* The history variable says what find_entry and fs_read_file make of the buffer.
Told == tree = TreeOf(fs)

LEMMA TreeTells ==
  ASSUME Told
  PROVE  /\ DOMAIN tree = Found(fs) /\ \A p \in Found(fs) : tree[p] = Shown(fs, p)
         /\ tree = [p \in Found(fs) |-> Shown(fs, p)]
BY TreeIsShown DEF Told

\* FileTree counts as the file system does.
LEMMA SameCount == ASSUME NEW S PROVE Abstract!Cardinality(S) = Cardinality(S)
BY DEF Abstract!Cardinality, Cardinality

\* Creating does to the tree what FileTree says.
LEMMA CreatedInTree ==
  ASSUME PathsAreWhole, Known, NEW p \in Paths, NEW node, Created(p, node),
         Consistent(fs'), Tidy(fs'), Told, Told', NEW name, call' = <<name, p>>
  PROVE  Whole(fs') /\ AllReachable(fs') /\ Abstract!Create(name, p, node)
<1>1. Whole(fs) /\ AllReachable(fs)
  BY KnownIsWhole DEF Known
<1>2. DOMAIN tree = Found(fs) /\ \A q \in Found(fs) : tree[q] = Shown(fs, q)
  BY TreeTells
<1>3. CASE /\ Refused(p) /\ fs'.files = fs.files
           /\ \A j \in Files : KeepsData(fs, fs', j)
  <2>1. Whole(fs') /\ AllReachable(fs') /\ TreeOf(fs') = TreeOf(fs)
    BY <1>1, <1>3, SameTree
  <2>2. tree' = tree
    BY <2>1 DEF Told
  <2>3. CASE ret' = 0 /\ find_entry(fs, p) # NotFound
    <3>1. p \in DOMAIN tree
      BY <1>2, <2>3 DEF Found
    <3> QED BY <2>1, <2>2, <2>3, <3>1 DEF Abstract!Create, Abstract!Exists, Abstract!Same
  <2>4. CASE ret' = -1 /\ find_entry(fs, p) = NotFound
    <3>1. p \notin DOMAIN tree
      BY <1>2, <2>4 DEF Found
    <3> QED BY <2>1, <2>2, <2>4, <3>1 DEF Abstract!Create, Abstract!Exists, Abstract!Same
  <2>5. CASE ret' = -1 /\ ~(fs.num_files < MaxFiles)
    <3>1. Cardinality(DOMAIN tree) = fs.num_files
      BY <1>1, <1>2, PathsCounted
    <3>2. fs.num_files \in Nat /\ fs.num_files <= MaxFiles
      BY <1>1 DEF Whole, Consistent, Typed, Counted
    <3>3. MaxFiles \in Nat
      BY FileSystemAssumption
    <3>4. Cardinality(DOMAIN tree) = MaxFiles
      BY <2>5, <3>1, <3>2, <3>3
    <3>5. Abstract!Cardinality(DOMAIN tree) = MaxFiles
      BY <3>4, SameCount
    <3> QED BY <2>1, <2>2, <2>5, <3>5 DEF Abstract!Create, Abstract!Same
  <2> QED BY <1>3, <2>3, <2>4, <2>5 DEF Refused
<1>4. ASSUME Creatable(p), ret' = 0, Whole(fs'), NEW i, GrownBy(fs, fs', i),
             find_entry(fs', p) = i, Shown(fs', p) = node
      PROVE  AllReachable(fs') /\ Abstract!Create(name, p, node)
  <2>1. AllReachable(fs')
    BY <1>1, <1>4, GrownReachable
  <2>2. /\ p \notin Found(fs) /\ Found(fs') = Found(fs) \cup {p}
        /\ \A q \in Found(fs) : Shown(fs', q) = Shown(fs, q)
    BY <1>1, <1>4, GrownTree
  <2>3. tree' = [q \in Found(fs') |-> Shown(fs', q)]
    BY TreeIsShown DEF Told
  <2>4. tree' = [q \in DOMAIN tree \cup {p} |-> IF q = p THEN node ELSE tree[q]]
    BY <1>2, <1>4, <2>2, <2>3
  <2>5. Abstract!IsDir(Abstract!Parent(p))
    <3>1. p # <<>>
      BY <1>1, <1>4, FoundByPath DEF Creatable, NotFound
    <3>2. ParentPath(p) \in Paths /\ IsDirectory(fs, find_entry(fs, ParentPath(p)))
      BY <1>4, <3>1, WholePath DEF Creatable
    <3>3. ParentPath(p) \in Found(fs) /\ Shown(fs, ParentPath(p)) = DirNode
      BY <3>2, FilesAreNumbers DEF IsDirectory, Found, Shown
    <3> QED BY <1>2, <3>3 DEF Abstract!IsDir, Abstract!Exists, Abstract!Parent, ParentPath
  <2>6. ~Abstract!Exists(p)
    BY <1>2, <2>2 DEF Abstract!Exists
  <2> QED BY <1>4, <2>1, <2>4, <2>5, <2>6 DEF Abstract!Create
<1> QED BY <1>3, <1>4 DEF Created

\* What can be removed is what fs_delete_file removes.
LEMMA DeletableIsRemovable ==
  ASSUME PathsAreWhole, Known, Told, NEW p \in Paths
  PROVE  Deletable(find_entry(fs, p)) <=> Abstract!Removable(p)
<1> DEFINE i == find_entry(fs, p)
<1>1. /\ Whole(fs) /\ AllReachable(fs)
      /\ Rooted(fs) /\ Directories(fs) /\ Parented(fs) /\ Listed(fs)
  BY KnownIsWhole, WholeIsConsistent DEF Known
<1>2. Abstract!Removable(p) <=>
        /\ p \in Found(fs) /\ p # <<>>
        /\ \A q \in Found(fs) \ {<<>>} : ParentPath(q) # p
  BY TreeTells DEF Abstract!Removable, Abstract!Exists, Abstract!Parent, ParentPath
<1>3. find_entry(fs, <<>>) = 0 /\ (i = NotFound \/ (i \in Files /\ Used(fs, i)))
  BY <1>1, FoundByPath
<1>4. ASSUME Deletable(i), NEW q \in Found(fs) \ {<<>>}, ParentPath(q) = p PROVE FALSE
  <2> DEFINE j == find_entry(fs, q)
  <2>1. Dir(fs, i) /\ Kid(fs, i, j, q[Len(q)])
    BY <1>1, <1>4, FoundIsKid DEF Found
  <2> HIDE DEF i, j
  <2>2. Holds(fs, i, j) /\ j \in Files
    BY <1>1, <2>1 DEF Parented, Kid
  <2>3. \A k \in DOMAIN SlotsOf(fs, i) : SlotsOf(fs, i)[k] = NoParent
    BY <1>4, <2>1 DEF Deletable, Dir
  <2> QED BY <2>2, <2>3, SlotsAreCells, FilesAreNumbers DEF Holds
<1>5. ASSUME Deletable(i) PROVE p \in Found(fs) /\ p # <<>>
  <2>1. i \in Files /\ fs.files[i].parent_index # NoParent
    BY <1>5 DEF Deletable
  <2>2. i # 0 /\ i # NotFound
    BY <1>1, <2>1, FilesAreNumbers DEF Rooted
  <2> QED BY <1>3, <2>2 DEF Found
<1>6. ASSUME ~Deletable(i), p \in Found(fs), p # <<>>
      PROVE  \E q \in Found(fs) \ {<<>>} : ParentPath(q) = p
  <2>1. i \in Files /\ Used(fs, i) /\ i # NotFound
    BY <1>3, <1>6 DEF Found
  <2>2. i # 0
    <3>1. <<>> \in Paths
      BY DEF PathsAreWhole
    <3> QED BY <1>1, <1>3, <1>6, <2>1, <3>1, PathsAreApart
  <2> HIDE DEF i
  <2>3. fs.files[i].parent_index # NoParent
    BY <1>1, <2>1, <2>2, FilesAreNumbers DEF Parented, Dir
  <2>4. Dir(fs, i) /\ \E k \in DOMAIN SlotsOf(fs, i) : SlotsOf(fs, i)[k] # NoParent
    BY <1>6, <2>1, <2>3 DEF Deletable, Dir
  <2>5. PICK k \in DOMAIN SlotsOf(fs, i) : SlotsOf(fs, i)[k] # NoParent
    BY <2>4
  <2> DEFINE j == SlotsOf(fs, i)[k]
  <2>6. PICK b \in BlocksOf(fs, i), c \in Slots : j = fs.block[b][c]
    BY SlotsAreCells
  <2>7. j \in Files /\ Used(fs, j) /\ fs.files[j].parent_index = i
    <3>1. fs.block[b] \in Children
      BY <1>1, <2>1, <2>4 DEF Directories
    <3>2. j \in Files \cup {NoParent}
      BY <2>6, <3>1 DEF Children
    <3> QED BY <1>1, <2>1, <2>4, <2>5, <2>6, <3>2 DEF Listed
  <2> HIDE DEF j
  <2>8. PICK q \in Paths : find_entry(fs, q) = j
    BY <1>1, <2>7 DEF AllReachable
  <2>9. q # <<>>
    BY <1>1, <1>3, <2>1, <2>7, <2>8, FilesAreNumbers DEF Rooted
  <2>10. j # NotFound
    BY <2>7, FilesAreNumbers
  <2>11. ParentPath(q) \in Paths /\ find_entry(fs, ParentPath(q)) = i
    BY <1>1, <2>7, <2>8, <2>9, <2>10, FoundIsKid, WholePath DEF Kid
  <2>12. ParentPath(q) = p
    BY <1>1, <2>1, <2>11, PathsAreApart DEF i
  <2> QED BY <2>8, <2>9, <2>10, <2>12 DEF Found
<1> QED BY <1>2, <1>4, <1>5, <1>6

\* Deleting does to the tree what FileTree says.
LEMMA DeletedInTree ==
  ASSUME PathsAreWhole, Known, NEW p \in Paths, fs_delete_file(p),
         Consistent(fs'), Tidy(fs'), Told, Told'
  PROVE  Whole(fs') /\ AllReachable(fs') /\ Abstract!Delete(p)
<1> DEFINE i == find_entry(fs, p)
<1>1. Whole(fs) /\ Consistent(fs) /\ AllReachable(fs) /\ p \in Seq(PathNames)
  BY KnownIsWhole, FileSystemAssumption DEF Known, Whole
<1>2. call' = <<"fs_delete_file", p>>
  BY DEF fs_delete_file, Calls
<1>3. CASE ~Deletable(i) /\ fs' = fs /\ ret' = -1
  <2>1. tree' = tree
    BY <1>3 DEF Told
  <2>2. ~Abstract!Removable(p)
    BY <1>3, DeletableIsRemovable
  <2>3. Abstract!Same(-1)
    BY <1>3, <2>1 DEF Abstract!Same
  <2>4. Abstract!Delete(p)
    BY <1>2, <2>2, <2>3, Zenon DEF Abstract!Delete
  <2> QED BY <1>1, <1>3, <2>4
<1>4. ASSUME Deletable(i), ret' = 0, i \in Files, Used(fs, i), i # 0,
             NEW d, NEW nb, NEW nc, Deleted(fs, fs', d, i, nb, nc)
      PROVE  Whole(fs') /\ AllReachable(fs') /\ Abstract!Delete(p)
  <2>1. Abstract!Removable(p)
    BY <1>4, DeletableIsRemovable
  <2> HIDE DEF i
  <2>2. \A j \in Files \ {d, i} : KeepsData(fs, fs', j)
    BY <1>1, <1>4, DeleteConsistent
  <2>3. /\ fs'.files = [fs.files EXCEPT ![i] = ClearedEntry]
        /\ DOMAIN fs.files = Files /\ fs.files[d].is_directory
    BY <1>1, <1>4 DEF Deleted, Dir, Consistent, Typed
  <2>4. fs'.files[i] = ClearedEntry /\ \A j \in Files \ {i} : fs'.files[j] = fs.files[j]
    BY <1>4, <2>3
  <2>5. ~Used(fs', i)
    BY <2>4, EmptyName DEF Used, ClearedEntry
  <2>6. GrownBy(fs', fs, i)
    BY <1>4, <2>2, <2>3, <2>4, <2>5 DEF GrownBy, KeepsData
  <2>7. \A e, j, name : Kid(fs', e, j, name) => Kid(fs, e, j, name)
    BY <2>4, <2>5 DEF Kid, Used
  <2>8. UniqueNames(fs')
    BY <1>1, <2>7 DEF Whole, UniqueNames
  <2>9. Whole(fs')
    BY <2>8 DEF Whole
  <2>10. find_entry(fs, p) = i
    BY DEF i
  <2>11. AllReachable(fs')
    BY <1>1, <2>6, <2>9, <2>10, GrownReachable
  <2>12. /\ p \notin Found(fs') /\ Found(fs) = Found(fs') \cup {p}
         /\ \A q \in Found(fs') : Shown(fs, q) = Shown(fs', q)
    BY <1>1, <2>6, <2>9, <2>10, GrownTree
  <2>13. DOMAIN tree = Found(fs) /\ \A q \in Found(fs) : tree[q] = Shown(fs, q)
    BY TreeTells
  <2>14. tree' = [q \in Found(fs') |-> Shown(fs', q)]
    BY TreeIsShown DEF Told
  <2>15. tree' = [q \in DOMAIN tree \ {p} |-> tree[q]]
    <3>1. DOMAIN tree \ {p} = Found(fs')
      BY <2>12, <2>13
    <3>2. \A q \in Found(fs') : tree[q] = Shown(fs', q)
      BY <2>12, <2>13
    <3> QED BY <2>14, <3>1, <3>2
  <2>16. tree' = Abstract!Restrict(tree, DOMAIN tree \ {p})
    BY <2>15 DEF Abstract!Restrict
  <2>17. Abstract!Delete(p)
    BY <1>2, <1>4, <2>1, <2>16, Zenon DEF Abstract!Delete
  <2> QED BY <2>9, <2>11, <2>17
<1> QED BY <1>1, <1>3, <1>4, DeleteCases

\* A rewritten file changes nothing but what its path shows.
LEMMA RewrittenTree ==
  ASSUME PathsAreWhole, NEW s, Whole(s), AllReachable(s), NEW t, Consistent(t), Tidy(t),
         NEW p \in Paths, IsFile(s, find_entry(s, p)), Rewritten(s, t, find_entry(s, p))
  PROVE  /\ Whole(t) /\ AllReachable(t) /\ find_entry(t, p) = find_entry(s, p)
         /\ Found(t) = Found(s) /\ \A q \in Found(s) \ {p} : Shown(t, q) = Shown(s, q)
<1> DEFINE i == find_entry(s, p)
<1>1. i \in Files /\ ~s.files[i].is_directory /\ Rooted(s) /\ Typed(s) /\ Rooted(t)
  BY WholeIsConsistent DEF IsFile, Consistent
<1>2. \A q \in Paths : find_entry(t, q) = find_entry(s, q)
  BY <1>1, RewrittenFound, FileSystemAssumption
<1>3. i # NotFound
  BY <1>1, FilesAreNumbers
<1>4. \A q \in Paths : q # p => find_entry(s, q) # i
  BY <1>3, PathsAreApart
<1>5. Rewritten(s, t, i)
  OBVIOUS
<1>6. Found(t) = Found(s) /\ find_entry(t, p) = i
  BY <1>2 DEF Found
<1> HIDE DEF i
<1>7. \A j \in Files : /\ t.files[j].name = s.files[j].name
                       /\ t.files[j].parent_index = s.files[j].parent_index
  <2> SUFFICES ASSUME NEW j \in Files
               PROVE  /\ t.files[j].name = s.files[j].name
                      /\ t.files[j].parent_index = s.files[j].parent_index
    OBVIOUS
  <2>1. CASE j = i
    BY <1>5, <2>1 DEF Rewritten
  <2>2. CASE j # i
    BY <1>5, <2>2 DEF Rewritten
  <2> QED BY <2>1, <2>2
<1>8. /\ \A e, j, name : Kid(t, e, j, name) => Kid(s, e, j, name)
      /\ \A j \in Files : Used(t, j) => Used(s, j)
  BY <1>7 DEF Kid, Used
<1>9. Whole(t)
  BY <1>8 DEF Whole, UniqueNames
<1>10. AllReachable(t)
  BY <1>2, <1>8 DEF AllReachable
<1>11. ASSUME NEW q \in Found(s) \ {p} PROVE Shown(t, q) = Shown(s, q)
  <2> DEFINE j == find_entry(s, q)
  <2>1. q \in Paths /\ q # p /\ j # NotFound /\ j # i
    BY <1>4 DEF Found
  <2>2. j \in Files \ {i} /\ find_entry(t, q) = j
    BY <1>2, <2>1, FoundByPath
  <2>3. find_entry(s, q) = j
    OBVIOUS
  <2> HIDE DEF j
  <2>4. t.files[j] = s.files[j] /\ KeepsData(s, t, j)
    BY <1>5, <2>2 DEF Rewritten
  <2> QED BY <1>1, <2>2, <2>3, <2>4, SameShown
<1> QED BY <1>6, <1>9, <1>10, <1>11 DEF i

\* Writing does to the tree what FileTree says.
LEMMA WrittenInTree ==
  ASSUME PathsAreWhole, Known, NEW p \in Paths, NEW content \in Seq(Chunks),
         fs_write_file(p, content), Consistent(fs'), Tidy(fs'), Told, Told'
  PROVE  Whole(fs') /\ AllReachable(fs') /\ Abstract!Write(p, content)
<1> DEFINE i == find_entry(fs, p)
<1>1. /\ Whole(fs) /\ Consistent(fs) /\ AllReachable(fs) /\ p \in Seq(PathNames)
      /\ Typed(fs) /\ fs.block \in [Blocks -> DataOrChildren] /\ Typed(fs')
  BY KnownIsWhole, FileSystemAssumption DEF Known, Whole, Sound, Consistent
<1>2. call' = <<"fs_write_file", p>>
  BY DEF fs_write_file, Calls
<1>3. DOMAIN tree = Found(fs) /\ \A q \in Found(fs) : tree[q] = Shown(fs, q)
  BY TreeTells
<1>4. CASE ~IsFile(fs, i) /\ fs' = fs /\ ret' = -1
  <2>1. tree' = tree
    BY <1>4 DEF Told
  <2>2. ~Abstract!IsFile(p)
    <3> SUFFICES ASSUME p \in Found(fs) PROVE tree[p] = DirNode
      BY <1>3 DEF Abstract!IsFile, Abstract!Exists
    <3>1. i \in Files
      BY <1>1, FoundByPath DEF Found
    <3> QED BY <1>3, <1>4, <3>1 DEF IsFile, Shown, IsDirectory
  <2>3. Abstract!Same(-1)
    BY <1>4, <2>1 DEF Abstract!Same
  <2>4. Abstract!Write(p, content)
    BY <1>2, <2>2, <2>3, Zenon DEF Abstract!Write
  <2> QED BY <1>1, <1>4, <2>4
<1>5. CASE /\ IsFile(fs, i) /\ Rewritten(fs, fs', i)
           /\ ret' # 0 => ret' = -1 /\ Len(ChainOf(fs', i)) = 0
           /\ ret' = 0 => Stored(fs', i, content)
  <2>1. /\ Whole(fs') /\ AllReachable(fs') /\ find_entry(fs', p) = i
        /\ Found(fs') = Found(fs) /\ \A q \in Found(fs) \ {p} : Shown(fs', q) = Shown(fs, q)
    BY <1>1, <1>5, RewrittenTree
  <2>2. i \in Files /\ p \in Found(fs)
    BY <1>5, FilesAreNumbers DEF IsFile, Found
  <2>3. ~fs'.files[i].is_directory
    BY <1>5, <2>2 DEF IsFile, Rewritten
  <2>4. Abstract!IsFile(p)
    BY <1>1, <1>3, <1>5, <2>2, FileIsNoDirectory DEF Abstract!IsFile, Abstract!Exists
  <2>5. ASSUME NEW value, Shown(fs', p) = value PROVE tree' = [tree EXCEPT ![p] = value]
    <3>1. tree' = [q \in Found(fs) |-> Shown(fs', q)]
      BY <2>1, TreeIsShown DEF Told
    <3>2. \A q \in Found(fs) : Shown(fs', q) = IF q = p THEN value ELSE tree[q]
      BY <1>3, <2>1, <2>5
    <3>3. tree = [q \in Found(fs) |-> tree[q]]
      BY TreeTells
    <3> QED BY <3>1, <3>2, <3>3
  <2>6. CASE ret' = 0
    <3>1. IsData(content)
      BY DEF IsData
    <3>2. Stored(fs', find_entry(fs', p), content)
      BY <1>5, <2>1, <2>6
    <3>3. fs_read_file(fs', p, MaxBlocks) = content
      BY <3>1, <3>2, StoredIsRead
    <3>4. Shown(fs', p) = content
      BY <2>1, <2>3, <3>3 DEF Shown, IsDirectory
    <3>5. tree' = [tree EXCEPT ![p] = content]
      BY <2>5, <3>4
    <3>6. Abstract!Write(p, content)
      BY <1>2, <2>4, <2>6, <3>5, Zenon DEF Abstract!Write
    <3> QED BY <2>1, <3>6
  <2>7. CASE ret' # 0
    <3>1. Shown(fs', p) = <<>>
      BY <1>1, <1>5, <2>1, <2>2, <2>3, <2>7, NothingIsShown
    <3>2. tree' = [tree EXCEPT ![p] = <<>>] /\ ret' = -1
      BY <1>5, <2>5, <2>7, <3>1
    <3>3. Abstract!Write(p, content)
      BY <1>2, <2>4, <3>2, Zenon DEF Abstract!Write
    <3> QED BY <2>1, <3>3
  <2> QED BY <2>6, <2>7
<1> QED BY <1>1, <1>4, <1>5, WriteStep

-----------------------------------------------------------------------------
(* Every step of the file system is one of FileTree.                       *)

\* The inductive invariant.
TreeInv == Known /\ Told

\* In an empty root there is one path, the root's.
LEMMA InitTree ==
  ASSUME PathsAreWhole, TreeInit PROVE TreeInv /\ Abstract!Init
<1>1. Sound /\ TidyNow /\ Told /\ Consistent(fs) /\ Tidy(fs)
  BY InitSound, InitTidy DEF TreeInit, Told, Sound, TidyNow
<1> DEFINE root == [ClearedEntry EXCEPT !.name = Name("root", 4), !.first_block = 1,
                                        !.is_directory = TRUE]
<1>2. fs.files = [i \in Files |-> IF i = 0 THEN root ELSE ClearedEntry]
  BY Zenon DEF TreeInit, Init
<1> HIDE DEF root
<1>3. \A i \in Files \ {0} : ~Used(fs, i)
  BY <1>2, EmptyName DEF Used, ClearedEntry
<1>4. \A e, j, name : ~Kid(fs, e, j, name)
  BY <1>3 DEF Kid
<1>5. Whole(fs)
  BY <1>1, <1>4 DEF Whole, UniqueNames
<1>6. <<>> \in Paths /\ find_entry(fs, <<>>) = 0
  <2>1. <<>> \in Paths
    BY DEF PathsAreWhole
  <2> QED BY <1>5, <2>1, FoundByPath
<1>7. \A p \in Paths : p # <<>> => find_entry(fs, p) = NotFound
  BY <1>4, <1>5, FoundIsKid
<1>8. AllReachable(fs)
  BY <1>3, <1>6 DEF AllReachable
<1>9. Found(fs) = {<<>>}
  BY <1>6, <1>7 DEF Found, NotFound
<1>10. Shown(fs, <<>>) = DirNode
  BY <1>1, <1>6 DEF Shown, IsDirectory, Consistent, Rooted, Dir
<1>11. tree = [p \in {<<>>} |-> DirNode]
  <2>1. tree = [p \in Found(fs) |-> Shown(fs, p)]
    BY <1>1, TreeTells
  <2> QED BY <1>9, <1>10, <2>1
<1>12. call = <<"fs_init", <<>>>> /\ ret = 0
  BY Zenon DEF TreeInit, Init
<1>13. Abstract!Init
  BY <1>11, <1>12, Zenon DEF Abstract!Init
<1>14. UniqueNames(fs)
  BY <1>5 DEF Whole
<1> QED BY <1>1, <1>8, <1>13, <1>14 DEF TreeInv, Known

\* A call with one of the paths is a step of FileTree.
LEMMA CallInTree ==
  ASSUME PathsAreWhole, TreeInv, Told', Consistent(fs'), Tidy(fs'),
         NEW p \in Paths,
         \/ fs_create_file(p) \/ fs_create_directory(p) \/ fs_delete_file(p)
         \/ \E content \in Contents : fs_write_file(p, content)
  PROVE  Whole(fs') /\ AllReachable(fs') /\ Abstract!Next
<1>1. Known /\ Told
  BY DEF TreeInv
<1>2. CASE fs_create_file(p)
  <2>1. Created(p, <<>>)
    BY <1>1, <1>2, CreateFileInTree
  <2>2. call' = <<"fs_create_file", p>>
    BY <1>2 DEF fs_create_file, Calls
  <2>3. Whole(fs') /\ AllReachable(fs') /\ Abstract!Create("fs_create_file", p, <<>>)
    BY <1>1, <2>1, <2>2, CreatedInTree
  <2> QED BY <2>3, Zenon DEF Abstract!Next
<1>3. CASE fs_create_directory(p)
  <2>1. Created(p, DirNode)
    BY <1>1, <1>3, CreateDirectoryInTree
  <2>2. call' = <<"fs_create_directory", p>>
    BY <1>3 DEF fs_create_directory, Calls
  <2>3. Whole(fs') /\ AllReachable(fs') /\ Abstract!Create("fs_create_directory", p, DirNode)
    BY <1>1, <2>1, <2>2, CreatedInTree
  <2> QED BY <2>3, Zenon DEF Abstract!Next
<1>4. CASE fs_delete_file(p)
  <2>1. Whole(fs') /\ AllReachable(fs') /\ Abstract!Delete(p)
    BY <1>1, <1>4, DeletedInTree
  <2> QED BY <2>1, Zenon DEF Abstract!Next
<1>5. ASSUME NEW content \in Contents, fs_write_file(p, content)
      PROVE  Whole(fs') /\ AllReachable(fs') /\ Abstract!Next
  <2>1. content \in Seq(Chunks)
    BY FileSystemAssumption
  <2>2. Whole(fs') /\ AllReachable(fs') /\ Abstract!Write(p, content)
    BY <1>1, <1>5, <2>1, WrittenInTree
  <2> QED BY <2>2, Zenon DEF Abstract!Next
<1> QED BY <1>2, <1>3, <1>4, <1>5

\* fs_init's calls are such calls too, if it makes any.
LEMMA SampleInTree ==
  ASSUME SamplesAmongPaths, InitCalls # 0, NEW chunk \in Chunks, SampleCall(chunk)
  PROVE  \/ UNCHANGED <<fs, call, ret>>
         \/ \E p \in Paths :
              \/ fs_create_file(p) \/ fs_create_directory(p) \/ fs_delete_file(p)
              \/ \E content \in Contents : fs_write_file(p, content)
<1>1. {Welcome, Readme, Docs, Manual} \subseteq Paths /\ <<chunk>> \in Contents
  BY DEF SamplesAmongPaths
<1>2. Welcome \in Paths /\ Readme \in Paths /\ Docs \in Paths /\ Manual \in Paths
  BY <1>1
<1>3. CASE \E p \in {Welcome, Readme, Manual} : fs_create_file(p)
  BY <1>1, <1>2, <1>3
<1>4. CASE fs_create_directory(Docs)
  BY <1>1, <1>2, <1>4
<1>5. CASE \E p \in {Welcome, Readme, Manual} : fs_write_file(p, <<chunk>>)
  BY <1>1, <1>2, <1>5
<1>6. CASE UNCHANGED <<fs, call, ret>>
  BY <1>6
<1> QED BY <1>3, <1>4, <1>5, <1>6 DEF SampleCall, IfDone

LEMMA NextInTree ==
  ASSUME PathsAreWhole, SamplesAmongPaths, TreeInv, [TreeNext]_<<vars, tree>>
  PROVE  TreeInv' /\ [Abstract!Next]_(Abstract!treeVars)
<1>1. Known /\ Told /\ Sound /\ TidyNow /\ [Next]_vars
  BY DEF TreeInv, Known, TreeNext, vars
<1>2. NamedPaths
  BY WholePath DEF NamedPaths
<1>3. Sound' /\ TidyNow'
  BY <1>1, <1>2, NextSound, NextTidy
<1>4. Consistent(fs') /\ Tidy(fs')
  BY <1>3 DEF Sound, TidyNow
<1>5. Told'
  BY <1>1 DEF TreeNext, Told, vars
<1>6. CASE UNCHANGED <<fs, call, ret>>
  <2>1. tree' = tree
    BY <1>1, <1>5, <1>6 DEF Told
  <2>2. [Abstract!Next]_(Abstract!treeVars)
    BY <1>6, <2>1 DEF Abstract!treeVars
  <2>3. UniqueNames(fs') /\ AllReachable(fs')
    BY <1>1, <1>6 DEF Known
  <2> QED BY <1>3, <1>5, <2>2, <2>3 DEF TreeInv, Known
<1>7. CASE \E p \in Paths :
             \/ fs_create_file(p) \/ fs_create_directory(p) \/ fs_delete_file(p)
             \/ \E content \in Contents : fs_write_file(p, content)
  <2>1. Whole(fs') /\ AllReachable(fs') /\ Abstract!Next
    BY <1>4, <1>5, <1>7, CallInTree
  <2> QED BY <1>3, <1>5, <2>1 DEF TreeInv, Known, Whole
<1>8. CASE fs_init
  <2>1. PICK chunk \in Chunks : SampleCall(chunk)
    BY <1>8 DEF fs_init
  <2>2. InitCalls # 0
    BY <1>1, <1>8, FileSystemAssumption DEF fs_init, Sound
  <2> QED BY <1>6, <1>7, <2>1, <2>2, SampleInTree
<1>9. CASE Call
  BY <1>7, <1>9 DEF Call
<1>10. CASE UNCHANGED vars
  BY <1>6, <1>10 DEF vars
<1> QED BY <1>1, <1>8, <1>9, <1>10 DEF Next

LEMMA TreeAlways == PathsAreWhole /\ SamplesAmongPaths /\ TreeSpec => []TreeInv
<1>1. SUFFICES ASSUME PathsAreWhole, SamplesAmongPaths PROVE TreeSpec => []TreeInv
  OBVIOUS
<1>2. TreeInit => TreeInv
  BY <1>1, InitTree
<1>3. TreeInv /\ [TreeNext]_<<vars, tree>> => TreeInv'
  BY <1>1, NextInTree
<1> QED BY <1>2, <1>3, PTL DEF TreeSpec

\* With paths that find_entry reads whole, no entry is out of reach: num_files is
\* the number of paths that lead somewhere. No mkdir, rm or failed call leaves an
\* entry that no path leads to, nor one that two paths lead to.
THEOREM EntriesAreReachableCorrect ==
  PathsAreWhole /\ SamplesAmongPaths /\ TreeSpec => []EntriesAreReachable
<1>1. SUFFICES ASSUME PathsAreWhole, SamplesAmongPaths
               PROVE  TreeSpec => []EntriesAreReachable
  OBVIOUS
<1>2. TreeInv => EntriesAreReachable
  <2> SUFFICES ASSUME TreeInv PROVE EntriesAreReachable OBVIOUS
  <2>1. Whole(fs) /\ AllReachable(fs) /\ DOMAIN tree = Found(fs)
    BY KnownIsWhole, TreeTells DEF TreeInv, Known
  <2> QED BY <1>1, <2>1, PathsCounted DEF EntriesAreReachable
<1> QED BY <1>1, <1>2, TreeAlways, PTL

\* With such paths the file system is the tree of FileTree: creating, deleting
\* and writing do to what the paths show, and return, what FileTree says they
\* may, and nothing else is seen.
THEOREM ImplementsTreeCorrect ==
  PathsAreWhole /\ SamplesAmongPaths /\ TreeSpec => ImplementsTree
<1>1. SUFFICES ASSUME PathsAreWhole, SamplesAmongPaths
               PROVE  TreeSpec => ImplementsTree
  OBVIOUS
<1>2. TreeInit => Abstract!Init
  BY <1>1, InitTree
<1>3. TreeInv /\ [TreeNext]_<<vars, tree>> => [Abstract!Next]_(Abstract!treeVars)
  BY <1>1, NextInTree
<1> QED BY <1>1, <1>2, <1>3, TreeAlways, PTL DEF TreeSpec, ImplementsTree, Abstract!Spec
=============================================================================
