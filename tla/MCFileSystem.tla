---------------------------- MODULE MCFileSystem ----------------------------
(***************************************************************************)
(* Instances of FileSystem for TLC.                                        *)
(***************************************************************************)
EXTENDS FileSystemTree

CONSTANTS x, y

A == Name("a", 1)
B == Name("b", 1)
C == Name("ccccccccc", 9)

\* Paths that find_entry reads whole, "/a/ccccccccc" the longest there can be.
WholePaths ==
  {<<>>, <<A>>, <<B>>, <<C>>, <<A, CutAt(C, 8)>>}

\* "/welcome.txt" is cut to "/welcome.tx" and "/ccccccccc/a" to "/ccccccccc/";
\* "/docs//" ends in an empty name.
OddPaths ==
  {Welcome, Readme, Docs, Docs \o <<NoName, NoName>>, <<C>>, <<C, A>>}

\* They are what the theorems about the tree ask for (TreeProofs).
ASSUME WholePathsAreWhole == Paths = WholePaths => PathsAreWhole /\ SamplesAmongPaths

TwoChunks == {x, y}
AllTexts == STRING

Data == {<<>>, <<x>>, <<y, x>>}

\* States that differ only in what free blocks hold, which nothing reads before
\* it is written, or in the last call, go on alike.
View == <<[fs EXCEPT !.block =
             [b \in Blocks |-> IF fs.fat[b] = None THEN 0 ELSE @[b]]],
          sample, IF sample < InitCalls THEN ret ELSE 0>>
=============================================================================
