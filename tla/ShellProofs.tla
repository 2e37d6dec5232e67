---------------------------- MODULE ShellProofs -----------------------------
(***************************************************************************)
(* What the shell's commands do to the file system, one call after the     *)
(* other, keeps what FileSystemProofs and DirectoryProofs prove of the     *)
(* calls: normalize_path may hand over whatever path it makes.             *)
(***************************************************************************)
EXTENDS Shell, DirectoryProofs

LEMMA CommandGood == ASSUME Good(fs), Command \/ SecondCall PROVE Good(fs')
<1>1. CASE SecondCall
  BY <1>1, WriteGood DEF SecondCall
<1>2. CASE cmd_cd_root
  BY <1>2 DEF cmd_cd_root, vars
<1>3. ASSUME NEW arg \in Args, cmd_cd(arg) PROVE Good(fs')
  BY <1>3 DEF cmd_cd, vars
<1>4. ASSUME NEW arg \in Args, cmd_touch(arg) \/ rm(arg) \/ mkdir(arg) PROVE Good(fs')
  BY <1>4, CreateFileGood, DeleteGood, CreateDirectoryGood
  DEF cmd_touch, rm, mkdir, OneCall
<1>5. ASSUME NEW arg \in Args, NEW content, write(arg, content) PROVE Good(fs')
  BY <1>5, CreateFileGood DEF write, Begin
<1>6. ASSUME NEW arg \in Args, NEW source \in Args, cmd_cp(source, arg) PROVE Good(fs')
  BY <1>6, CreateFileGood DEF cmd_cp, Begin
<1> QED BY <1>1, <1>2, <1>3, <1>4, <1>5, <1>6 DEF Command

LEMMA ShellNextGood == GoodState /\ [ShellNext]_shellVars => GoodState'
<1> SUFFICES ASSUME Good(fs), [ShellNext]_shellVars PROVE Good(fs') BY DEF GoodState
<1>1. CASE Boot
  BY <1>1, NextGood DEF Boot, Next, GoodState
<1>2. CASE Command \/ SecondCall
  BY <1>2, CommandGood
<1>3. CASE UNCHANGED shellVars
  BY <1>3 DEF shellVars, vars
<1> QED BY <1>1, <1>2, <1>3 DEF ShellNext

\* No two files share a block, whatever commands the user gives, in whatever
\* current directory, with whatever arguments and data.
THEOREM ShellOneOwnerCorrect == ShellSpec => []BlocksHaveOneOwner
<1>1. ShellInit => GoodState
  BY InitGood DEF ShellInit, GoodState
<1>2. GoodState => BlocksHaveOneOwner
  BY GoodIsOneOwner DEF GoodState
<1> QED BY <1>1, <1>2, ShellNextGood, PTL DEF ShellSpec

-----------------------------------------------------------------------------
(* The length of a path.                                                   *)

LEMMA CharactersOf ==
  ASSUME NEW p \in Seq(PathNames)
  PROVE  /\ IsFiniteSet(Characters(p)) /\ Cardinality(Characters(p)) \in Nat
         /\ \A i, k : <<i, k>> \in Characters(p) <=> i \in 1 .. Len(p) /\ k \in 0 .. p[i].len
         /\ \A c \in Characters(p) : c = <<c[1], c[2]>> /\ c[1] \in 1 .. Len(p)
<1>1. /\ Len(p) \in Nat /\ DOMAIN p = 1 .. Len(p)
      /\ \A i \in 1 .. Len(p) : p[i].len \in Nat
  <2>1. \A i \in 1 .. Len(p) : p[i] \in PathNames
    OBVIOUS
  <2>2. \A name \in PathNames : name.len \in Nat
    BY DEF PathNames
  <2> QED BY <2>1, <2>2
<1>2. ASSUME NEW i \in 1 .. Len(p) PROVE IsFiniteSet({i} \X (0 .. p[i].len))
  <2> DEFINE n == p[i].len
  <2>1. n \in Int /\ 0 \in Int
    BY <1>1
  <2> HIDE DEF n
  <2>2. IsFiniteSet(0 .. n) /\ IsFiniteSet({i})
    BY <2>1, FS_Interval, FS_Singleton
  <2> QED BY <2>2, FS_Product DEF n
<1>3. IsFiniteSet(Characters(p))
  <2> DEFINE f == [i \in 1 .. Len(p) |-> {i} \X (0 .. p[i].len)]
             rows == {f[i] : i \in 1 .. Len(p)}
  <2>1. f \in Surjection(1 .. Len(p), rows)
    BY DEF Surjection
  <2>2. IsFiniteSet(1 .. Len(p))
    <3>1. Len(p) \in Int /\ 1 \in Int
      OBVIOUS
    <3> QED BY <3>1, FS_Interval
  <2>3. \A row \in rows : IsFiniteSet(row)
    BY <1>2
  <2>4. Characters(p) = UNION rows
    BY <1>1 DEF Characters
  <2> HIDE DEF rows, f
  <2>5. IsFiniteSet(rows)
    BY <2>1, <2>2, FS_Surjection
  <2> QED BY <2>3, <2>4, <2>5, FS_UNION
<1>4. Cardinality(Characters(p)) \in Nat
  BY <1>3, FS_CardinalityType
<1>5. \A i, k : <<i, k>> \in Characters(p) <=> i \in 1 .. Len(p) /\ k \in 0 .. p[i].len
  BY <1>1 DEF Characters
<1>6. \A c \in Characters(p) : c = <<c[1], c[2]>> /\ c[1] \in 1 .. Len(p)
  BY <1>1 DEF Characters
<1> QED BY <1>3, <1>4, <1>5, <1>6

\* Names put behind others add their characters.
LEMMA JoinedLength ==
  ASSUME NEW p \in Seq(PathNames), NEW q \in Seq(PathNames)
  PROVE  Cardinality(Characters(p \o q)) =
           Cardinality(Characters(p)) + Cardinality(Characters(q))
<1> DEFINE n       == Len(p)
           m       == Len(q)
           shift   == [c \in Characters(q) |-> <<n + c[1], c[2]>>]
           shifted == {shift[c] : c \in Characters(q)}
<1>1. /\ p \o q \in Seq(PathNames) /\ Len(p \o q) = n + m /\ n \in Nat /\ m \in Nat
      /\ \A i \in 1 .. n : (p \o q)[i] = p[i]
      /\ \A i \in 1 .. m : (p \o q)[n + i] = q[i]
  OBVIOUS
<1>2. Characters(p \o q) = Characters(p) \cup shifted
  <2> DEFINE r == p \o q
  <2>1. ASSUME NEW c \in Characters(r) PROVE c \in Characters(p) \cup shifted
    <3>1. c = <<c[1], c[2]>> /\ c[1] \in 1 .. n + m /\ c[2] \in 0 .. r[c[1]].len
      BY <1>1, CharactersOf
    <3>2. CASE c[1] \in 1 .. n
      <4>1. c[2] \in 0 .. p[c[1]].len
        BY <1>1, <3>1, <3>2
      <4> QED BY <3>1, <3>2, <4>1, CharactersOf
    <3>3. CASE c[1] - n \in 1 .. m
      <4> DEFINE i == c[1] - n
                 d == <<i, c[2]>>
      <4>1. n + i = c[1] /\ r[c[1]] = q[i]
        BY <1>1, <3>1, <3>3
      <4>2. d \in Characters(q)
        BY <3>1, <3>3, <4>1, CharactersOf
      <4>3. shift[d] = c
        BY <3>1, <4>1, <4>2
      <4> QED BY <4>2, <4>3
    <3> QED BY <1>1, <3>1, <3>2, <3>3
  <2>2. ASSUME NEW c \in Characters(p) PROVE c \in Characters(r)
    <3>1. c = <<c[1], c[2]>> /\ c[1] \in 1 .. n /\ c[2] \in 0 .. p[c[1]].len
      BY CharactersOf
    <3>2. c[1] \in 1 .. n + m /\ r[c[1]] = p[c[1]]
      BY <1>1, <3>1
    <3>3. <<c[1], c[2]>> \in Characters(r)
      BY <1>1, <3>1, <3>2, CharactersOf
    <3> QED BY <3>1, <3>3
  <2>3. ASSUME NEW c \in Characters(q) PROVE shift[c] \in Characters(r)
    <3>1. c = <<c[1], c[2]>> /\ c[1] \in 1 .. m /\ c[2] \in 0 .. q[c[1]].len
      BY CharactersOf
    <3>2. n + c[1] \in 1 .. n + m /\ r[n + c[1]] = q[c[1]]
      BY <1>1, <3>1
    <3>3. <<n + c[1], c[2]>> \in Characters(r)
      BY <1>1, <3>1, <3>2, CharactersOf
    <3> QED BY <3>3
  <2> HIDE DEF r, shift
  <2> QED BY <2>1, <2>2, <2>3 DEF r
<1>3. Characters(p) \cap shifted = {}
  <2> SUFFICES ASSUME NEW c \in Characters(q), shift[c] \in Characters(p) PROVE FALSE
    OBVIOUS
  <2>1. c[1] \in 1 .. m
    BY CharactersOf
  <2>2. <<n + c[1], c[2]>> \in Characters(p)
    OBVIOUS
  <2>3. n + c[1] \in 1 .. n
    BY <2>2, CharactersOf
  <2> QED BY <1>1, <2>1, <2>3
<1>4. IsFiniteSet(shifted) /\ Cardinality(shifted) = Cardinality(Characters(q))
  <2>1. \A c, d \in Characters(q) : shift[c] = shift[d] => c = d
    <3> SUFFICES ASSUME NEW c \in Characters(q), NEW d \in Characters(q), shift[c] = shift[d]
                 PROVE  c = d
      OBVIOUS
    <3>1. n + c[1] = n + d[1] /\ c[2] = d[2]
      OBVIOUS
    <3>2. /\ c = <<c[1], c[2]>> /\ c[1] \in 1 .. m
          /\ d = <<d[1], d[2]>> /\ d[1] \in 1 .. m
      BY CharactersOf
    <3>3. c[1] = d[1]
      BY <1>1, <3>1, <3>2
    <3> QED BY <3>1, <3>2, <3>3
  <2>2. shift \in Bijection(Characters(q), shifted)
    <3> HIDE DEF shift
    <3>1. shift \in [Characters(q) -> shifted]
      BY DEF shift
    <3> QED BY <2>1, <3>1 DEF Bijection, Injection, Surjection, IsInjective
  <2> HIDE DEF shift, shifted
  <2>3. ExistsBijection(Characters(q), shifted)
    BY <2>2 DEF ExistsBijection
  <2> QED BY <2>3, CharactersOf, FS_Bijection
<1> HIDE DEF shifted
<1>5. /\ IsFiniteSet(Characters(p)) /\ Cardinality(Characters(p)) \in Nat
      /\ Cardinality(Characters(q)) \in Nat
  BY CharactersOf
<1>6. Cardinality(Characters(p) \cup shifted) =
        Cardinality(Characters(p)) + Cardinality(shifted) - Cardinality({})
  BY <1>3, <1>4, <1>5, FS_Union
<1> QED BY <1>2, <1>4, <1>5, <1>6, FS_EmptySet

\* One name has a slash and its characters.
LEMMA NameLength ==
  ASSUME NEW name \in PathNames
  PROVE  Cardinality(Characters(<<name>>)) = name.len + 1 /\ name.len \in Nat
<1> DEFINE n == name.len
           f == [k \in 0 .. n |-> <<1, k>>]
<1>1. n \in Nat
  BY DEF PathNames
<1>2. Characters(<<name>>) = {1} \X (0 .. n)
  BY DEF Characters
<1> HIDE DEF n
<1>3. f \in Bijection(0 .. n, Characters(<<name>>))
  BY <1>2 DEF Bijection, Injection, Surjection, IsInjective
<1>4. ExistsBijection(0 .. n, Characters(<<name>>))
  BY <1>3 DEF ExistsBijection
<1>5. IsFiniteSet(0 .. n) /\ Cardinality(0 .. n) = n + 1
  <2>1. 0 \in Int /\ n \in Int /\ ~(n < 0) /\ ~(0 > n)
    BY <1>1
  <2>2. Cardinality(0 .. n) = n - 0 + 1
    BY <2>1, FS_Interval
  <2> QED BY <1>1, <2>1, <2>2, FS_Interval
<1>6. Cardinality(Characters(<<name>>)) = n + 1
  BY <1>4, <1>5, FS_Bijection
<1> QED BY <1>1, <1>6 DEF n

LEMMA LastCounts ==
  ASSUME NEW p \in Seq(PathNames), Len(p) > 0
  PROVE  /\ Cardinality(Characters(p)) =
              Cardinality(Characters(ParentPath(p))) + p[Len(p)].len + 1
         /\ p[Len(p)].len \in Nat
<1> DEFINE front == ParentPath(p)
           last  == <<p[Len(p)]>>
<1>1. p # <<>> /\ Len(p) \in Nat /\ Len(p) > 0 /\ p[Len(p)] \in PathNames
  BY EmptySeq
<1>2. /\ front \in Seq(PathNames) /\ Len(front) = Len(p) - 1
      /\ \A i \in 1 .. Len(p) - 1 : front[i] = p[i]
  BY <1>1, FrontOfPath
<1>3. last \in Seq(PathNames) /\ Len(last) = 1 /\ last[1] = p[Len(p)]
  BY <1>1
<1>4. Cardinality(Characters(last)) = p[Len(p)].len + 1 /\ p[Len(p)].len \in Nat
  BY <1>1, NameLength
<1> HIDE DEF front, last
<1>5. p = front \o last
  <2> DEFINE q == front \o last
  <2>1. /\ q \in Seq(PathNames) /\ Len(q) = Len(p)
        /\ \A i \in 1 .. Len(p) :
             q[i] = IF i <= Len(front) THEN front[i] ELSE last[i - Len(front)]
    <3>1. Len(front) + Len(last) = Len(p)
      BY <1>1, <1>2, <1>3
    <3>2. /\ front \o last \in Seq(PathNames)
          /\ Len(front \o last) = Len(front) + Len(last)
          /\ \A i \in 1 .. Len(front) + Len(last) : (front \o last)[i] =
               IF i <= Len(front) THEN front[i] ELSE last[i - Len(front)]
      BY <1>2, <1>3, ConcatProperties
    <3> QED BY <3>1, <3>2
  <2>2. ASSUME NEW i \in 1 .. Len(p) PROVE p[i] = q[i]
    <3>1. CASE i = Len(p)
      <4>1. ~(i <= Len(front)) /\ i - Len(front) = 1
        BY <1>1, <1>2, <3>1
      <4> QED BY <1>3, <2>1, <3>1, <4>1
    <3>2. CASE i # Len(p)
      <4>1. i \in 1 .. Len(front)
        BY <1>1, <1>2, <3>2
      <4>2. i <= Len(front) /\ i \in 1 .. Len(p) - 1
        BY <1>2, <4>1
      <4> QED BY <1>2, <2>1, <4>2
    <3> QED BY <3>1, <3>2
  <2> HIDE DEF q
  <2>3. p = q
    BY <2>1, <2>2, SeqEqual
  <2> QED BY <2>3 DEF q
<1>6. Cardinality(Characters(p)) = Cardinality(Characters(front)) + Cardinality(Characters(last))
  BY <1>2, <1>3, <1>5, JoinedLength
<1>7. Cardinality(Characters(front)) \in Nat
  BY <1>2, CharactersOf
<1> QED BY <1>4, <1>6, <1>7 DEF front

\* A slash at the end is one character, or is all of the path.
LEMMA StrippedIsShorter ==
  ASSUME NEW p \in Seq(PathNames)
  PROVE  /\ PathLength(Stripped(p)) <= PathLength(p)
         /\ PathLength(p) <= PathLength(Stripped(p)) + 1
         /\ PathLength(p) \in Nat /\ PathLength(Stripped(p)) \in Nat
<1>1. PathLength(p) \in Nat
  BY CharactersOf DEF PathLength
<1>2. CASE ~EndsInSlash(p)
  BY <1>1, <1>2 DEF Stripped
<1>3. CASE EndsInSlash(p)
  <2> DEFINE front == ParentPath(p)
             n == Cardinality(Characters(front))
  <2>1. p # <<>> /\ Len(p) \in Nat /\ Len(p) > 0 /\ p[Len(p)].len = 0
    BY <1>3, EmptySeq DEF EndsInSlash
  <2>2. front \in Seq(PathNames) /\ Stripped(p) = front
    BY <1>3, <2>1, FrontOfPath DEF Stripped
  <2>3. n \in Nat
    BY <2>2, CharactersOf
  <2>4. Cardinality(Characters(p)) = n + 0 + 1
    BY <2>1, LastCounts
  <2> HIDE DEF n
  <2>5. PathLength(p) = n + 1
    BY <2>1, <2>3, <2>4 DEF PathLength
  <2>6. PathLength(front) = n \/ (PathLength(front) = 1 /\ n = 0)
    <3>1. CASE front = <<>>
      <4>1. Characters(front) = {}
        BY <3>1 DEF Characters
      <4> QED BY <3>1, <4>1, FS_EmptySet DEF PathLength, n
    <3>2. CASE front # <<>>
      BY <3>2 DEF PathLength, n
    <3> QED BY <3>1, <3>2
  <2> HIDE DEF front
  <2> QED BY <2>2, <2>3, <2>5, <2>6
<1> QED BY <1>1, <1>2, <1>3

LEMMA StrippedPath ==
  ASSUME NEW p \in Seq(PathNames) PROVE Stripped(p) \in Seq(PathNames)
BY ParentOfPath DEF Stripped, EndsInSlash

LEMMA BasePath ==
  ASSUME current_directory \in Seq(PathNames)
  PROVE  Base \in Seq(PathNames) /\ Base = Stripped(current_directory)
<1>1. Base = Stripped(current_directory)
  BY DEF Base, Stripped
<1> QED BY <1>1, StrippedPath

LEMMA NormalizedPath ==
  ASSUME current_directory \in Seq(PathNames), NEW arg \in Args
  PROVE  normalize_path(arg) \in Seq(PathNames) /\ Meant(arg) \in Seq(PathNames)
<1>1. Base \in Seq(PathNames)
  BY BasePath
<1>2. arg.names \in Seq(PathNames)
  BY ShellAssumption
<1>3. Base \o arg.names \in Seq(PathNames)
  BY <1>1, <1>2
<1>4. Meant(arg) \in Seq(PathNames)
  BY <1>2, <1>3, StrippedPath DEF Meant
<1> QED BY <1>1, <1>4 DEF normalize_path

\* What normalize_path compares with the limit is the length of the joined path.
LEMMA JoinedText ==
  ASSUME current_directory \in Seq(PathNames),
         NEW names \in Seq(PathNames), names # <<>>
  PROVE  /\ Base \o names \in Seq(PathNames)
         /\ PathLength(Base \o names) = BaseLength + TextLength(names)
         /\ PathLength(Base \o names) \in Nat
<1> DEFINE p == Base \o names
           a == Cardinality(Characters(Base))
           b == Cardinality(Characters(names))
<1>1. Base \in Seq(PathNames)
  BY BasePath
<1>2. p \in Seq(PathNames) /\ p # <<>>
  <2>1. Len(p) = Len(Base) + Len(names) /\ Len(Base) \in Nat /\ Len(names) \in Nat
        /\ p \in Seq(PathNames)
    BY <1>1
  <2>2. Len(names) # 0
    BY EmptySeq
  <2>3. Len(p) # 0
    BY <2>1, <2>2
  <2> QED BY <2>1, <2>3, EmptySeq
<1>3. Cardinality(Characters(p)) = a + b /\ a \in Nat /\ b \in Nat
  BY <1>1, JoinedLength, CharactersOf
<1>4. BaseLength + TextLength(names) = a + b
  <2>1. TextLength(names) = b - 1
    BY DEF TextLength
  <2>2. CASE Base = <<>>
    <3>1. Characters(Base) = {}
      BY <2>2 DEF Characters
    <3>2. a = 0 /\ BaseLength = 1
      BY <2>2, <3>1, FS_EmptySet DEF BaseLength
    <3> QED BY <1>3, <2>1, <3>2
  <2>3. CASE Base # <<>>
    <3>1. BaseLength = a + 1
      BY <2>3 DEF BaseLength, PathLength
    <3> QED BY <1>3, <2>1, <3>1
  <2> QED BY <2>2, <2>3
<1>5. PathLength(p) = a + b
  BY <1>2, <1>3 DEF PathLength
<1> HIDE DEF a, b
<1> QED BY <1>2, <1>3, <1>4, <1>5

\* A path of eleven characters or less is never dropped.
LEMMA ShortIsNotDropped ==
  ASSUME current_directory \in Seq(PathNames), NEW arg \in Args,
         PathLength(Meant(arg)) <= MaxName
  PROVE  normalize_path(arg) = Meant(arg)
<1> SUFFICES ASSUME ~arg.absolute, ~(BaseLength + TextLength(arg.names) < MaxPath)
             PROVE  FALSE
  BY DEF normalize_path
<1>1. arg.names \in Seq(PathNames) /\ arg.names # <<>>
  BY ShellAssumption
<1> DEFINE p == Base \o arg.names
           n == PathLength(p)
           m == PathLength(Stripped(p))
<1>2. p \in Seq(PathNames) /\ n = BaseLength + TextLength(arg.names) /\ n \in Nat
  BY <1>1, JoinedText
<1>3. Stripped(p) = Meant(arg)
  BY DEF Meant
<1> HIDE DEF p
<1>4. m \in Nat /\ n <= m + 1
  BY <1>2, StrippedIsShorter, StrippedPath
<1>5. m <= MaxName
  BY <1>3
<1> HIDE DEF n, m
<1> QED BY <1>2, <1>4, <1>5, ShellAssumption, FileSystemAssumption

-----------------------------------------------------------------------------
(* find_entry reads all of a path that has at most eleven characters.      *)

\* The path up to its n-th name.
Prefix(p, n) == SubSeq(p, 1, n)

\* The characters of p up to its n-th name, slashes included.
Position(p, n) == Cardinality(Characters(Prefix(p, n)))

LEMMA Positions ==
  ASSUME NEW p \in Seq(PathNames)
  PROVE  /\ Position(p, 0) = 0
         /\ \A n \in 1 .. Len(p) :
              /\ Position(p, n) = Position(p, n - 1) + p[n].len + 1
              /\ Position(p, n) <= Cardinality(Characters(p)) /\ p[n].len \in Nat
         /\ \A n \in 0 .. Len(p) : Position(p, n) \in Nat
<1>1. ASSUME NEW n \in 0 .. Len(p)
      PROVE  /\ Prefix(p, n) \in Seq(PathNames) /\ Len(Prefix(p, n)) = n
             /\ \A i \in 1 .. n : Prefix(p, n)[i] = p[i]
  <2>1. n \in Int /\ 1 \in Int /\ \A i \in 1 .. n : p[i] \in PathNames
    OBVIOUS
  <2>2. /\ SubSeq(p, 1, n) \in Seq(PathNames)
        /\ Len(SubSeq(p, 1, n)) = IF 1 <= n THEN n - 1 + 1 ELSE 0
        /\ \A i \in 1 .. n - 1 + 1 : SubSeq(p, 1, n)[i] = p[1 + i - 1]
    BY <2>1, SubSeqProperties
  <2> QED BY <2>1, <2>2 DEF Prefix
<1>2. \A n \in 0 .. Len(p) : Position(p, n) \in Nat
  BY <1>1, CharactersOf DEF Position
<1>3. Position(p, 0) = 0
  <2>1. Prefix(p, 0) = <<>>
    <3>1. 0 \in 0 .. Len(p)
      OBVIOUS
    <3> QED BY <1>1, <3>1, EmptySeq
  <2>2. Characters(<<>>) = {}
    BY DEF Characters
  <2> QED BY <2>1, <2>2, FS_EmptySet DEF Position
<1>4. ASSUME NEW n \in 1 .. Len(p)
      PROVE  /\ Position(p, n) = Position(p, n - 1) + p[n].len + 1
             /\ Position(p, n) <= Cardinality(Characters(p)) /\ p[n].len \in Nat
  <2> DEFINE q == Prefix(p, n)
             r == Prefix(p, n - 1)
  <2>1. n \in 0 .. Len(p) /\ n - 1 \in 0 .. Len(p) /\ n \in Nat /\ n > 0
    OBVIOUS
  <2>2. /\ q \in Seq(PathNames) /\ Len(q) = n /\ \A i \in 1 .. n : q[i] = p[i]
        /\ r \in Seq(PathNames) /\ Len(r) = n - 1 /\ \A i \in 1 .. n - 1 : r[i] = p[i]
    BY <1>1, <2>1
  <2> HIDE DEF q, r
  <2>3. ParentPath(q) = r
    <3>1. /\ ParentPath(q) \in Seq(PathNames) /\ Len(ParentPath(q)) = n - 1
          /\ \A i \in 1 .. n - 1 : ParentPath(q)[i] = q[i]
      BY <2>1, <2>2, FrontOfPath
    <3>2. \A i \in 1 .. n - 1 : ParentPath(q)[i] = r[i]
      BY <2>1, <2>2, <3>1
    <3> QED BY <2>2, <3>1, <3>2, SeqEqual
  <2>4. /\ Cardinality(Characters(q)) = Cardinality(Characters(r)) + p[n].len + 1
        /\ p[n].len \in Nat
    <3>1. Len(q) > 0 /\ q[Len(q)] = p[n]
      BY <2>1, <2>2
    <3> QED BY <2>2, <2>3, <3>1, LastCounts
  <2>5. Cardinality(Characters(q)) <= Cardinality(Characters(p))
    <3>1. Characters(q) \subseteq Characters(p)
      <4> SUFFICES ASSUME NEW c \in Characters(q) PROVE c \in Characters(p)
        OBVIOUS
      <4>1. c = <<c[1], c[2]>> /\ c[1] \in 1 .. n
        BY <2>2, CharactersOf
      <4>2. c[2] \in 0 .. q[c[1]].len /\ q[c[1]] = p[c[1]] /\ c[1] \in 1 .. Len(p)
        BY <2>1, <2>2, <4>1, CharactersOf
      <4>3. <<c[1], c[2]>> \in Characters(p)
        BY <4>2, CharactersOf
      <4> QED BY <4>1, <4>3
    <3> QED BY <3>1, CharactersOf, FS_Subset
  <2> QED BY <2>4, <2>5 DEF Position, q, r
<1> QED BY <1>2, <1>3, <1>4

\* Where find_entry finds the names of p.
Offsets(p, at) ==
  at = [i \in 1 .. Len(p) |-> IF i = 1 THEN 1 ELSE at[i - 1] + p[i - 1].len + 1]

LEMMA OffsetsArePositions ==
  ASSUME NEW p \in Seq(PathNames)
  PROVE  \E at : /\ at = CHOOSE f : Offsets(p, f)
                 /\ \A i \in 1 .. Len(p) : at[i] = 1 + Position(p, i - 1)
<1> DEFINE g  == [i \in 1 .. Len(p) |-> 1 + Position(p, i - 1)]
           at == CHOOSE f : Offsets(p, f)
<1>1. \A i \in 1 .. Len(p) : i - 1 \in 0 .. Len(p) /\ i \in Nat /\ Position(p, i - 1) \in Nat
  BY Positions
<1>2. Offsets(p, g)
  <2>1. ASSUME NEW i \in 1 .. Len(p)
        PROVE  g[i] = IF i = 1 THEN 1 ELSE g[i - 1] + p[i - 1].len + 1
    <3>1. CASE i = 1
      BY <3>1, Positions
    <3>2. CASE i # 1
      <4>1. i - 1 \in 1 .. Len(p) /\ i - 1 \in Nat
        BY <3>2
      <4>2. /\ Position(p, i - 1) = Position(p, i - 1 - 1) + p[i - 1].len + 1
            /\ p[i - 1].len \in Nat /\ Position(p, i - 1 - 1) \in Nat
        BY <1>1, <4>1, Positions
      <4>3. g[i] = 1 + Position(p, i - 1) /\ g[i - 1] = 1 + Position(p, i - 1 - 1)
        BY <4>1
      <4> HIDE DEF g
      <4> QED BY <3>2, <4>2, <4>3
    <3> QED BY <3>1, <3>2
  <2>2. g = [i \in 1 .. Len(p) |-> g[i]]
    OBVIOUS
  <2> HIDE DEF g
  <2> QED BY <2>1, <2>2 DEF Offsets
<1>3. Offsets(p, at)
  BY <1>2
<1>4. ASSUME NEW i \in 1 .. Len(p) PROVE at[i] = g[i]
  <2> DEFINE bad == {k \in 1 .. Len(p) : at[k] # g[k]}
  <2> SUFFICES ASSUME bad # {} PROVE FALSE
    OBVIOUS
  <2> HIDE DEF at, g
  <2>1. PICK k \in bad : \A j \in bad : k <= j
    <3>1. bad \subseteq Nat
      OBVIOUS
    <3> HIDE DEF bad
    <3> QED BY <3>1, LeastExists
  <2>2. k \in 1 .. Len(p) /\ at[k] # g[k]
    BY <2>1
  <2>3. /\ at[k] = IF k = 1 THEN 1 ELSE at[k - 1] + p[k - 1].len + 1
        /\ g[k] = IF k = 1 THEN 1 ELSE g[k - 1] + p[k - 1].len + 1
    BY <1>2, <1>3, <2>2 DEF Offsets
  <2>4. k # 1
    BY <2>2, <2>3
  <2>5. k - 1 \in 1 .. Len(p) /\ ~(k <= k - 1)
    BY <2>2, <2>4
  <2>6. k - 1 \notin bad
    BY <2>1, <2>5
  <2>7. at[k - 1] = g[k - 1]
    BY <2>5, <2>6
  <2> QED BY <2>2, <2>3, <2>4, <2>7
<1>5. \A i \in 1 .. Len(p) : at[i] = 1 + Position(p, i - 1)
  BY <1>4
<1> HIDE DEF at
<1> QED BY <1>5 DEF at

\* A name that has no more than n characters is not cut at n.
LEMMA NothingCut ==
  ASSUME NEW name \in PathNames, NEW n \in Nat, name.len <= n
  PROVE  CutAt(name, n) = name
<1> DEFINE k    == name.len
           both == {k, n}
<1>1. k \in Nat /\ k <= n
  BY DEF PathNames
<1>2. CutAt(name, n) = [name EXCEPT !.len = Min(both)]
  BY DEF CutAt
<1> HIDE DEF k
<1>3. both \subseteq Nat /\ k \in both
  BY <1>1
<1> HIDE DEF both
<1>4. Min(both) \in both /\ Min(both) <= k
  BY <1>3, MinIsLeast
<1>5. PICK m \in {k, n} : Min(both) = m
  BY <1>4 DEF both
<1>6. m = k
  BY <1>1, <1>4, <1>5
<1>7. Min(both) = name.len
  BY <1>5, <1>6 DEF k
<1> QED BY <1>2, <1>7 DEF PathNames

LEMMA ShortPathIsWhole ==
  ASSUME NEW p \in Seq(PathNames), PathLength(p) <= MaxName PROVE PathCopy(p) = p
<1> DEFINE at   == CHOOSE f : Offsets(p, f)
           n    == Len(p)
           kept == {i \in 1 .. n : at[i] <= MaxName}
<1>1. PathCopy(p) = [i \in 1 .. Cardinality(kept) |-> CutAt(p[i], MaxName - at[i])]
  BY DEF PathCopy, Offsets
<1>2. \A i \in 1 .. n : at[i] = 1 + Position(p, i - 1)
  BY OffsetsArePositions
<1>3. n \in Nat /\ p = [i \in 1 .. n |-> p[i]] /\ \A i \in 1 .. n : p[i] \in PathNames
  OBVIOUS
<1>4. MaxName \in Nat
  BY FileSystemAssumption
<1> HIDE DEF at
<1>5. ASSUME NEW i \in 1 .. n
      PROVE  at[i] <= MaxName /\ CutAt(p[i], MaxName - at[i]) = p[i]
  <2> DEFINE c == Cardinality(Characters(p))
             a == Position(p, i - 1)
             l == p[i].len
  <2>1. c <= MaxName /\ c \in Nat
    <3>1. p # <<>>
      BY <1>3, EmptySeq
    <3> QED BY <3>1, CharactersOf DEF PathLength
  <2>2. Position(p, i) = a + l + 1 /\ Position(p, i) <= c /\ l \in Nat /\ a \in Nat
    <3>1. i - 1 \in 0 .. n
      OBVIOUS
    <3> QED BY <3>1, Positions
  <2>3. at[i] = 1 + a
    BY <1>2
  <2> HIDE DEF a, c, l, n
  <2>4. a + l + 1 <= MaxName
    BY <1>4, <2>1, <2>2
  <2>5. at[i] <= MaxName /\ MaxName - at[i] \in Nat /\ l <= MaxName - at[i]
    BY <1>4, <2>2, <2>3, <2>4
  <2> QED BY <1>3, <2>5, NothingCut DEF l
<1>6. kept = 1 .. n
  BY <1>5
<1>7. Cardinality(kept) = n
  <2> HIDE DEF n, kept
  <2>1. 1 \in Int /\ n \in Int /\ (1 > n => n = 0)
    BY <1>3
  <2>2. Cardinality(1 .. n) = IF 1 > n THEN 0 ELSE n - 1 + 1
    BY <2>1, FS_Interval
  <2> QED BY <1>3, <1>6, <2>1, <2>2
<1> HIDE DEF kept, n
<1> QED BY <1>1, <1>3, <1>5, <1>7

-----------------------------------------------------------------------------
(* A command is one or two calls, each at a path that normalize_path made. *)

\* What a command does to the file system is one call at a path, or nothing.
CallAt(p) ==
  /\ p \in Seq(PathNames) /\ call'[2] = p
  /\ \/ fs_create_file(p) \/ fs_create_directory(p) \/ fs_delete_file(p)
     \/ \E content : fs_write_file(p, content)

\* What the shell keeps about its own variables.
Walkable ==
  /\ current_directory \in Seq(PathNames)
  /\ doing # <<>> =>
       /\ doing.path \in Seq(PathNames) /\ IsData(doing.content)
       /\ doing.meant \in Seq(PathNames) /\ sample = InitCalls
       /\ PathLength(doing.meant) <= MaxName => doing.path = doing.meant

ShellSound == Consistent(fs) /\ Walkable

\* A step changes the data of no file but the one at p.
OthersKept(p) ==
  \A j \in Files :
    Used(fs, j) /\ ~fs.files[j].is_directory /\ j # find_entry(fs, p)
      => KeepsData(fs, fs', j)

LEMMA CallKeeps ==
  ASSUME Consistent(fs), NEW p, CallAt(p)
  PROVE  Consistent(fs') /\ OthersKept(p)
<1>1. p \in Seq(PathNames)
  BY DEF CallAt
<1>2. CASE fs_create_file(p)
  BY <1>1, <1>2, CreateFileStep DEF OthersKept
<1>3. CASE fs_create_directory(p)
  BY <1>1, <1>3, CreateDirectoryStep DEF OthersKept
<1>4. CASE fs_delete_file(p)
  BY <1>1, <1>4, DeleteStep DEF OthersKept
<1>5. ASSUME NEW content, fs_write_file(p, content)
      PROVE  Consistent(fs') /\ OthersKept(p)
  <2>1. CASE fs' = fs
    BY <2>1 DEF OthersKept, KeepsData
  <2>2. CASE Consistent(fs') /\ Rewritten(fs, fs', find_entry(fs, p))
    BY <2>2 DEF OthersKept, Rewritten
  <2> QED BY <1>1, <1>5, <2>1, <2>2, WriteStep
<1> QED BY <1>2, <1>3, <1>4, <1>5 DEF CallAt

LEMMA CallIsAtPath ==
  ASSUME NEW p \in Seq(PathNames), NEW content,
         \/ fs_create_file(p) \/ fs_create_directory(p) \/ fs_delete_file(p)
         \/ fs_write_file(p, content)
  PROVE  CallAt(p)
<1>1. \A name : Calls(name, p) => call'[2] = p
  BY DEF Calls
<1>2. call'[2] = p
  <2>1. CASE fs_create_file(p)
    BY <1>1, <2>1 DEF fs_create_file
  <2>2. CASE fs_create_directory(p)
    BY <1>1, <2>2 DEF fs_create_directory
  <2>3. CASE fs_delete_file(p)
    BY <1>1, <2>3 DEF fs_delete_file
  <2>4. CASE fs_write_file(p, content)
    BY <1>1, <2>4 DEF fs_write_file
  <2> QED BY <2>1, <2>2, <2>3, <2>4
<1> QED BY <1>2 DEF CallAt

LEMMA CommandCalls ==
  ASSUME ShellSound, Command \/ SecondCall
  PROVE  fs' = fs \/ \E p : CallAt(p)
<1>1. \A arg \in Args : normalize_path(arg) \in Seq(PathNames)
  BY NormalizedPath DEF ShellSound, Walkable
<1>2. CASE SecondCall
  <2>1. doing.path \in Seq(PathNames)
    BY <1>2 DEF SecondCall, ShellSound, Walkable
  <2>2. fs' = fs \/ fs_write_file(doing.path, doing.content)
    BY <1>2 DEF SecondCall
  <2> QED BY <2>1, <2>2, CallIsAtPath
<1>3. CASE cmd_cd_root \/ \E arg \in Args : cmd_cd(arg)
  BY <1>3 DEF cmd_cd_root, cmd_cd, vars
<1>4. ASSUME NEW arg \in Args, cmd_touch(arg) \/ rm(arg) \/ mkdir(arg)
      PROVE  \E p : CallAt(p)
  BY <1>1, <1>4, CallIsAtPath DEF cmd_touch, rm, mkdir, OneCall
<1>5. ASSUME NEW arg \in Args,
             \/ \E content \in Contents : write(arg, content)
             \/ \E source \in Args : cmd_cp(source, arg)
      PROVE  \E p : CallAt(p)
  <2>1. fs_create_file(normalize_path(arg))
    BY <1>5 DEF write, cmd_cp, Begin
  <2> QED BY <1>1, <2>1, CallIsAtPath
<1> QED BY <1>2, <1>3, <1>4, <1>5 DEF Command

LEMMA BootCalls ==
  ASSUME Boot PROVE fs' = fs \/ \E p : CallAt(p)
<1>1. PICK chunk \in Chunks : SampleCall(chunk)
  BY DEF Boot, fs_init
<1>2. CASE fs' = fs
  BY <1>2
<1>3. ASSUME NEW p \in Seq(PathNames), NEW content \in Seq({chunk}), Named(p),
             \/ fs_create_file(p) \/ fs_create_directory(p) \/ fs_delete_file(p)
             \/ fs_write_file(p, content)
      PROVE  CallAt(p)
  BY <1>3, CallIsAtPath
<1> QED BY <1>1, <1>2, <1>3, SampleCalls

\* fs_init has made its calls before the first command.
LEMMA BootIsFirst == ASSUME Walkable, Boot PROVE doing = <<>>
<1>1. sample < InitCalls
  BY DEF Boot, fs_init
<1>2. ~(InitCalls < InitCalls)
  BY FileSystemAssumption
<1> QED BY <1>1, <1>2 DEF Walkable

LEMMA BeginWalkable ==
  ASSUME ShellSound, NEW command, NEW arg \in Args, NEW content, IsData(content),
         Begin(command, arg, content)
  PROVE  Walkable'
<1> DEFINE p == normalize_path(arg)
           m == Meant(arg)
<1>1. /\ doing' = [command |-> command, path |-> p, content |-> content, meant |-> m]
      /\ current_directory' = current_directory /\ sample' = InitCalls
  BY DEF Begin, Idle
<1>2. /\ p \in Seq(PathNames) /\ m \in Seq(PathNames)
      /\ PathLength(m) <= MaxName => p = m
  BY NormalizedPath, ShortIsNotDropped DEF ShellSound, Walkable
<1> HIDE DEF p, m
<1>3. doing'.path = p /\ doing'.content = content /\ doing'.meant = m
  BY <1>1
<1>4. IsData(doing'.content)
  BY <1>3
<1> QED BY <1>1, <1>2, <1>3, <1>4 DEF ShellSound, Walkable

LEMMA NextWalkable == ShellSound /\ [ShellNext]_shellVars => Walkable'
<1> SUFFICES ASSUME ShellSound, [ShellNext]_shellVars PROVE Walkable' OBVIOUS
<1>1. Consistent(fs) /\ Walkable /\ current_directory \in Seq(PathNames)
  BY DEF ShellSound, Walkable
<1>2. CASE UNCHANGED <<current_directory, doing, sample>>
  BY <1>1, <1>2 DEF Walkable
<1>3. CASE Boot
  <2>1. doing = <<>>
    BY <1>1, <1>3, BootIsFirst
  <2> QED BY <1>1, <1>3, <2>1 DEF Boot, Walkable
<1>4. CASE SecondCall
  BY <1>1, <1>4 DEF SecondCall, Walkable
<1>5. CASE cmd_cd_root
  <2>1. <<>> \in Seq(PathNames)
    OBVIOUS
  <2> QED BY <1>1, <1>5, <2>1 DEF cmd_cd_root, Walkable, vars
<1>6. ASSUME NEW arg \in Args, cmd_cd(arg) PROVE Walkable'
  BY <1>1, <1>6, NormalizedPath DEF cmd_cd, Walkable, vars
<1>7. ASSUME NEW arg \in Args, cmd_touch(arg) \/ rm(arg) \/ mkdir(arg) PROVE Walkable'
  BY <1>2, <1>7 DEF cmd_touch, rm, mkdir, OneCall
<1>8. ASSUME NEW arg \in Args, NEW content \in Contents, write(arg, content)
      PROVE  Walkable'
  <2>1. content \in Seq(Chunks)
    BY FileSystemAssumption
  <2>2. IsData(content)
    BY <2>1 DEF IsData
  <2> QED BY <1>1, <1>8, <2>2, NormalizedPath, BeginWalkable DEF write
<1>9. ASSUME NEW arg \in Args, NEW source \in Args, cmd_cp(source, arg)
      PROVE  Walkable'
  <2> DEFINE p == normalize_path(source)
  <2>1. /\ IsFile(fs, find_entry(fs, p))
        /\ Begin("cp", arg, fs_read_file(fs, p, MaxBlocks))
    BY <1>9 DEF cmd_cp
  <2>2. IsData(fs_read_file(fs, p, MaxBlocks))
    BY <1>1, <2>1, ReadIsData DEF Consistent
  <2> QED BY <1>1, <2>1, <2>2, NormalizedPath, BeginWalkable
<1>10. CASE UNCHANGED shellVars
  BY <1>2, <1>10 DEF shellVars, vars
<1> QED BY <1>3, <1>4, <1>5, <1>6, <1>7, <1>8, <1>9, <1>10 DEF ShellNext, Command

LEMMA NextShellSound ==
  ShellSound /\ [ShellNext]_shellVars => ShellSound' /\ OthersKept(call'[2])
<1> SUFFICES ASSUME ShellSound, [ShellNext]_shellVars
             PROVE  ShellSound' /\ OthersKept(call'[2])
  OBVIOUS
<1>1. Consistent(fs)
  BY DEF ShellSound
<1>2. Walkable'
  BY NextWalkable
<1>3. CASE fs' = fs
  BY <1>1, <1>2, <1>3 DEF ShellSound, OthersKept, KeepsData
<1>4. ASSUME NEW p, CallAt(p) PROVE ShellSound' /\ OthersKept(call'[2])
  <2>1. call'[2] = p
    BY <1>4 DEF CallAt
  <2>2. Consistent(fs') /\ OthersKept(p)
    BY <1>1, <1>4, CallKeeps
  <2> QED BY <1>2, <2>1, <2>2 DEF ShellSound
<1>5. fs' = fs \/ \E p : CallAt(p)
  BY CommandCalls, BootCalls DEF ShellNext, shellVars, vars
<1> QED BY <1>3, <1>4, <1>5

LEMMA InitShellSound == ShellInit => ShellSound
<1> SUFFICES ASSUME ShellInit PROVE ShellSound OBVIOUS
<1>1. Consistent(fs)
  BY InitConsistent DEF ShellInit
<1>2. <<>> \in Seq(PathNames)
  OBVIOUS
<1> QED BY <1>1, <1>2 DEF ShellInit, ShellSound, Walkable

LEMMA ShellSoundAlways == ShellSpec => []ShellSound
BY InitShellSound, NextShellSound, PTL DEF ShellSpec

\* Whatever commands are given, also rm of a directory that is not empty and
\* of the one the user is in: the parent of an entry in use is an entry.
THEOREM ParentsExistCorrect == ShellSpec => []ParentsExist
<1>1. ShellSound => ParentsExist
  BY RootIsFirst DEF ShellSound, Consistent, Parented, Dir, ParentsExist
<1> QED BY <1>1, ShellSoundAlways, PTL

-----------------------------------------------------------------------------
(* Whose data a command changes.                                           *)

\* If slots and parents agree, the child that a directory holds has it as its
\* parent.
LEMMA ChildHasParent ==
  ASSUME SlotsMatchParents, NEW d, Dir(fs, d), NEW i \in Files, Used(fs, i),
         Holds(fs, d, i)
  PROVE  fs.files[i].parent_index = d
<1> DEFINE slots == SlotsOf(fs, d)
           mine  == {k \in fs_list_files(fs, d) : slots[k] = i}
           m     == Len(ChainOf(fs, d)) * MaxChildren
<1>1. d \in Files /\ Used(fs, d) /\ fs.files[d].is_directory
  BY DEF Dir
<1>2. \E k \in DOMAIN slots : slots[k] = i
  BY SlotsAreCells DEF Holds
<1>3. mine # {}
  BY <1>2 DEF fs_list_files
<1>4. IsFiniteSet(mine)
  <2>1. Len(ChainOf(fs, d)) \in Nat /\ MaxChildren \in Nat
    BY BlocksOfChain, FileSystemAssumption
  <2>2. m \in Int /\ 1 \in Int
    BY <2>1
  <2>3. DOMAIN slots = 1 .. m
    BY SlotsAreCells
  <2>4. mine \subseteq DOMAIN slots
    BY DEF fs_list_files
  <2> HIDE DEF m, mine, slots
  <2> QED BY <2>2, <2>3, <2>4, FS_Interval, FS_Subset
<1>5. Cardinality(mine) = IF Used(fs, i) /\ fs.files[i].parent_index = d THEN 1 ELSE 0
  BY <1>1 DEF SlotsMatchParents
<1> HIDE DEF mine
<1> QED BY <1>3, <1>4, <1>5, FS_EmptySet

\* Then the names that lead to an entry are its own and those of its parents.
LEMMA FoundHasPath ==
  ASSUME SlotsMatchParents, Rooted(fs), NEW S, NEW names \in Seq(S),
         Resolve(fs, names) \in Files
  PROVE  HasPath(fs, Resolve(fs, names), names)
<1> DEFINE n == Len(names)
<1>1. n \in Nat
  OBVIOUS
<1>2. PICK at : Lookups(fs, names, n, at) /\ Resolve(fs, names) = at[n]
  BY <1>1, ResolveIsLookup
<1> HIDE DEF n
<1>3. /\ at[0] = Root(fs) /\ at[0] \in Files /\ Used(fs, at[0])
      /\ \A k \in 1 .. n : at[k] = Child(fs, at[k - 1], names[k])
  <2>1. 0 \in 0 .. n /\ \A k \in 1 .. n : k \in 0 .. n /\ k # 0
    BY <1>1
  <2>2. /\ at[0] = Root(fs)
        /\ \A k \in 1 .. n : at[k] = Child(fs, at[k - 1], names[k])
    BY <1>2, <2>1 DEF Lookups
  <2> QED BY <2>2, RootIsFirst DEF Rooted, Dir
<1>4. \A k \in 0 .. n : at[k] = NotFound \/ (at[k] \in Files /\ Used(fs, at[k]))
  <2> SUFFICES ASSUME NEW k \in 0 .. n, k # 0
               PROVE  at[k] = NotFound \/ (at[k] \in Files /\ Used(fs, at[k]))
    BY <1>3
  <2>1. k \in 1 .. n
    BY <1>1
  <2> QED BY <1>3, <2>1, ChildIsHeld
<1>5. ASSUME NEW k \in 1 .. n, at[k] \in Files
      PROVE  /\ at[k - 1] \in Files
             /\ fs.files[at[k]].parent_index = at[k - 1] /\ fs.files[at[k]].name = names[k]
  <2> DEFINE d == at[k - 1]
  <2>1. k - 1 \in 0 .. n
    BY <1>1
  <2>2. at[k] = Child(fs, d, names[k]) /\ at[k] # NotFound
    BY <1>3, <1>5, FilesAreNumbers
  <2> HIDE DEF d
  <2>3. /\ Used(fs, at[k]) /\ fs.files[at[k]].name = names[k]
        /\ d # NotFound /\ fs.files[d].is_directory /\ Holds(fs, d, at[k])
    BY <2>2, ChildIsHeld
  <2>4. d \in Files /\ Used(fs, d)
    BY <1>4, <2>1, <2>3 DEF d
  <2>5. fs.files[at[k]].parent_index = d
    BY <1>5, <2>3, <2>4, ChildHasParent DEF Dir
  <2> QED BY <2>3, <2>4, <2>5 DEF d
<1>6. \A k \in 0 .. n : at[k] \in Files
  <2> DEFINE bad == {j \in 0 .. n : at[n - j] \notin Files}
  <2>1. bad = {}
    <3> SUFFICES ASSUME bad # {} PROVE FALSE
      OBVIOUS
    <3>1. PICK j \in bad : \A l \in bad : j <= l
      <4>1. bad \subseteq Nat
        OBVIOUS
      <4> HIDE DEF bad
      <4> QED BY <4>1, LeastExists
    <3>2. j \in 0 .. n /\ at[n - j] \notin Files
      BY <3>1
    <3>3. j # 0
      <4>1. n - 0 = n
        BY <1>1
      <4> QED BY <1>2, <3>2, <4>1
    <3>4. /\ j - 1 \in 0 .. n /\ ~(j <= j - 1)
          /\ n - (j - 1) \in 1 .. n /\ n - (j - 1) - 1 = n - j
      BY <1>1, <3>2, <3>3
    <3>5. at[n - (j - 1)] \in Files
      BY <3>1, <3>4
    <3> QED BY <1>5, <3>2, <3>4, <3>5
  <2>2. ASSUME NEW k \in 0 .. n PROVE at[k] \in Files
    <3>1. n - k \in 0 .. n /\ n - (n - k) = k
      BY <1>1
    <3> QED BY <2>1, <3>1
  <2> QED BY <2>2
<1>7. at \in [0 .. n -> Files]
  <2>1. at = [k \in 0 .. n |-> IF k = 0 THEN Root(fs) ELSE Child(fs, at[k - 1], names[k])]
    BY <1>2 DEF Lookups
  <2>2. DOMAIN at = 0 .. n /\ at = [k \in 0 .. n |-> at[k]]
    BY <2>1
  <2> QED BY <1>6, <2>2
<1>8. \A k \in 1 .. n :
        fs.files[at[k]].parent_index = at[k - 1] /\ fs.files[at[k]].name = names[k]
  <2> SUFFICES ASSUME NEW k \in 1 .. n
               PROVE  /\ fs.files[at[k]].parent_index = at[k - 1]
                      /\ fs.files[at[k]].name = names[k]
    OBVIOUS
  <2>1. k \in 0 .. n
    BY <1>1
  <2> QED BY <1>5, <1>6, <2>1
<1> QED BY <1>2, <1>3, <1>7, <1>8 DEF HasPath, n

\* While a write or a cp is at its second call, the file system only changes by
\* that call, at the path that was meant if it is short enough.
LEMMA SecondChange ==
  ASSUME ShellSound, [ShellNext]_shellVars, doing # <<>>, fs' # fs,
         PathLength(doing.meant) <= MaxName
  PROVE  call'[2] = doing.meant /\ doing.meant \in Seq(PathNames)
<1>1. ~Boot
  BY BootIsFirst DEF ShellSound
<1>2. ~Command
  BY DEF Command, cmd_cd_root, cmd_cd, cmd_touch, rm, mkdir, write, cmd_cp, Begin,
         OneCall, Idle
<1>3. SecondCall
  BY <1>1, <1>2 DEF ShellNext, shellVars, vars
<1>4. fs_write_file(doing.path, doing.content)
  BY <1>3 DEF SecondCall
<1>5. /\ doing.path = doing.meant /\ doing.path \in Seq(PathNames)
  BY DEF ShellSound, Walkable
<1>6. call'[2] = doing.path
  BY <1>4, <1>5, CallIsAtPath DEF CallAt
<1> QED BY <1>5, <1>6

\* A call changes the data of no file but the one that find_entry finds for its
\* path.  If the path that a write or a cp means has at most eleven characters,
\* and slots and parents agree, that is the file with this name in the directory
\* with this name: neither the current directory nor what was deleted, cut or
\* created before can lead the command to another one.
THEOREM OthersKeepTheirDataCorrect == ShellSpec => OthersKeepTheirData
<1>1. ASSUME NEW s, NEW t, NEW i, KeepsData(s, t, i) PROVE Data(t, i) = Data(s, i)
  <2> DEFINE q == ChainOf(s, i)
  <2>1. /\ ChainOf(t, i) = q
        /\ \A b \in BlocksOf(s, i) : t.block[b] = s.block[b]
    BY <1>1 DEF KeepsData
  <2>2. \A k \in DOMAIN q : t.block[q[k]] = s.block[q[k]]
    BY <2>1 DEF BlocksOf, Range
  <2>3. /\ Data(s, i) = [k \in DOMAIN q |-> s.block[q[k]]]
        /\ Data(t, i) = [k \in DOMAIN q |-> t.block[q[k]]]
    BY <2>1 DEF Data, ChainOf
  <2> HIDE DEF q
  <2> QED BY <2>2, <2>3
<1>2. ASSUME ShellSound, [ShellNext]_shellVars, NEW i \in Files,
             StaysFile(i), Data(fs, i) # Data(fs', i)
      PROVE  /\ i = find_entry(fs, call'[2])
             /\ doing # <<>> /\ PathLength(doing.meant) <= MaxName /\ SlotsMatchParents
                  => HasPath(fs, i, Stripped(doing.meant))
  <2>1. i = find_entry(fs, call'[2])
    BY <1>1, <1>2, NextShellSound DEF StaysFile, OthersKept
  <2>2. ASSUME doing # <<>>, PathLength(doing.meant) <= MaxName, SlotsMatchParents
        PROVE  HasPath(fs, i, Stripped(doing.meant))
    <3>1. fs' # fs
      BY <1>2
    <3>2. call'[2] = doing.meant /\ doing.meant \in Seq(PathNames)
      BY <1>2, <2>2, <3>1, SecondChange
    <3>3. i = Resolve(fs, Components(doing.meant))
      BY <2>1, <3>2 DEF find_entry
    <3>4. Components(doing.meant) = Stripped(doing.meant)
      BY <2>2, <3>2, ShortPathIsWhole DEF Components, Stripped, EndsInSlash
    <3>5. PICK S : Stripped(doing.meant) \in Seq(S)
      BY <3>2, StrippedPath
    <3> QED BY <1>2, <2>2, <3>3, <3>4, <3>5, FoundHasPath DEF ShellSound, Consistent
  <2> QED BY <2>1, <2>2
<1>3. ShellSound /\ [ShellNext]_shellVars =>
        [\A i \in Files : StaysFile(i) /\ Data(fs, i) # Data(fs', i) =>
           /\ i = find_entry(fs, call'[2])
           /\ doing # <<>> /\ PathLength(doing.meant) <= MaxName /\ SlotsMatchParents
                => HasPath(fs, i, Stripped(doing.meant))]_shellVars
  BY <1>2
<1> QED BY <1>3, ShellSoundAlways, PTL DEF ShellSpec, OthersKeepTheirData

\* After a write or a cp that reports success, the file reads back as what
\* was to be written.
THEOREM WrittenIsReadCorrect == ShellSpec => WrittenIsRead
<1>1. ASSUME ShellSound, [ShellNext]_shellVars, doing # <<>>, doing' = <<>>, ret' = 0
      PROVE  LET i == find_entry(fs', doing.path)
             IN  IsFile(fs', i) /\ fs_read_file(fs', doing.path, MaxBlocks) = doing.content
  <2> DEFINE p == doing.path
             content == doing.content
             i == find_entry(fs, p)
  <2>1. p \in Seq(PathNames) /\ IsData(content) /\ Consistent(fs)
    BY <1>1 DEF ShellSound, Walkable
  <2>2. SecondCall
    BY <1>1 DEF ShellNext, Command, cmd_cd_root, cmd_cd, cmd_touch, rm, mkdir, write, cmd_cp,
                Begin, OneCall, Idle, Boot, shellVars
  <2>3. fs_write_file(p, content)
    BY <1>1, <2>2 DEF SecondCall, GoesOn
  <2> HIDE DEF p, content
  <2>4. /\ Consistent(fs') /\ IsFile(fs, i) /\ Rewritten(fs, fs', i)
        /\ Stored(fs', i, content)
    BY <1>1, <2>1, <2>3, WriteStep
  <2>5. i \in Files /\ ~fs.files[i].is_directory
    BY <2>4 DEF IsFile
  <2>6. find_entry(fs', p) = i
    <3> HIDE DEF i
    <3>1. Rooted(fs) /\ Rooted(fs')
      BY <2>1, <2>4 DEF Consistent
    <3>2. find_entry(fs', p) = find_entry(fs, p)
      BY <2>1, <2>4, <2>5, <3>1, RewrittenFound
    <3> QED BY <3>2 DEF i
  <2>7. IsFile(fs', i)
    BY <2>4, <2>5 DEF IsFile, Rewritten
  <2>8. fs_read_file(fs', p, MaxBlocks) = content
    BY <2>1, <2>4, <2>6, StoredIsRead
  <2> QED BY <2>6, <2>7, <2>8 DEF p, content
<1>2. ShellSound /\ [ShellNext]_shellVars =>
        [doing # <<>> /\ doing' = <<>> /\ ret' = 0
           => LET i == find_entry(fs', doing.path)
              IN  IsFile(fs', i)
                  /\ fs_read_file(fs', doing.path, MaxBlocks) = doing.content]_shellVars
  BY <1>1
<1> QED BY <1>2, ShellSoundAlways, PTL DEF ShellSpec, WrittenIsRead

-----------------------------------------------------------------------------
(* No path is longer than MAX_PATH.                                        *)

\* What a line leaves room for: an absolute path is taken as it was typed.
ShortArgs == \A arg \in Args : arg.absolute => PathLength(arg.names) <= MaxPath

LEMMA NormalizedFits ==
  ASSUME ShortArgs, current_directory \in Seq(PathNames),
         PathLength(current_directory) <= MaxPath, NEW arg \in Args
  PROVE  PathLength(normalize_path(arg)) <= MaxPath
<1>1. arg.names \in Seq(PathNames) /\ arg.names # <<>> /\ MaxPath \in Nat
  BY ShellAssumption
<1>2. Base \in Seq(PathNames) /\ Base = Stripped(current_directory)
  BY BasePath
<1>3. ASSUME NEW p \in Seq(PathNames), PathLength(p) <= MaxPath
      PROVE  PathLength(Stripped(p)) <= MaxPath
  <2>1. /\ PathLength(Stripped(p)) <= PathLength(p)
        /\ PathLength(p) \in Nat /\ PathLength(Stripped(p)) \in Nat
    BY StrippedPath, StrippedIsShorter
  <2> QED BY <1>1, <1>3, <2>1
<1>4. CASE arg.absolute
  BY <1>1, <1>3, <1>4 DEF ShortArgs, normalize_path, Meant
<1>5. CASE ~arg.absolute /\ BaseLength + TextLength(arg.names) < MaxPath
  <2> DEFINE p == Base \o arg.names
             n == PathLength(p)
  <2>1. p \in Seq(PathNames) /\ n = BaseLength + TextLength(arg.names) /\ n \in Nat
    BY <1>1, <1>2, JoinedText
  <2> HIDE DEF n
  <2>2. n <= MaxPath
    BY <1>1, <1>5, <2>1
  <2>3. normalize_path(arg) = Stripped(p)
    BY <1>5 DEF normalize_path, Meant
  <2> HIDE DEF p
  <2> QED BY <1>3, <2>1, <2>2, <2>3 DEF n
<1>6. CASE ~arg.absolute /\ ~(BaseLength + TextLength(arg.names) < MaxPath)
  BY <1>2, <1>3, <1>6 DEF normalize_path
<1> QED BY <1>4, <1>5, <1>6

Short == PathLength(current_directory) <= MaxPath

LEMMA NextShort == ShortArgs /\ ShellSound /\ Short /\ [ShellNext]_shellVars => Short'
<1> SUFFICES ASSUME ShortArgs, ShellSound, Short, [ShellNext]_shellVars PROVE Short'
  OBVIOUS
<1>1. CASE current_directory' = current_directory
  BY <1>1 DEF Short
<1>2. CASE current_directory' = <<>>
  BY <1>2, ShellAssumption, FileSystemAssumption DEF Short, PathLength
<1>3. ASSUME NEW arg \in Args, current_directory' = normalize_path(arg) PROVE Short'
  BY <1>3, NormalizedFits DEF Short, ShellSound, Walkable
<1> QED BY <1>1, <1>2, <1>3
  DEF ShellNext, Command, cmd_cd_root, cmd_cd, cmd_touch, rm, mkdir, write, cmd_cp,
      Begin, OneCall, Boot, SecondCall, shellVars

\* With absolute arguments that fit into a path, every path that the shell
\* makes and every current directory fits into MAX_PATH, however deep cd has
\* gone.
THEOREM PathsFitCorrect == ShortArgs /\ ShellSpec => []PathsFit
<1>1. SUFFICES ASSUME ShortArgs PROVE ShellSpec => []PathsFit
  OBVIOUS
<1>2. ShellInit => Short
  BY ShellAssumption, FileSystemAssumption DEF ShellInit, Short, PathLength
<1>3. ShellSound /\ Short /\ [ShellNext]_shellVars => Short'
  BY <1>1, NextShort
<1>4. ShellSound /\ Short => PathsFit
  BY <1>1, NormalizedFits DEF ShellSound, Walkable, Short, PathsFit
<1> QED BY <1>2, <1>3, <1>4, ShellSoundAlways, PTL DEF ShellSpec
=============================================================================
