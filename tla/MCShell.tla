------------------------------ MODULE MCShell -------------------------------
(***************************************************************************)
(* Instance of Shell for TLC.                                              *)
(***************************************************************************)
EXTENDS Shell, TLC

CONSTANTS x, y

Relative(names) == [absolute |-> FALSE, names |-> names]
Absolute(names) == [absolute |-> TRUE, names |-> names]

A == Name("a", 1)
C == Name("ccccccccc", 9)

\* "a", which is lost behind "/ccccccccc", where the lookup stops; "docs///",
\* which leaves an empty name; "/docs"; "/welcome.txt", which is never found.
FiveArgs ==
  {Relative(<<A>>), Relative(<<C>>), Relative(Docs \o <<NoName, NoName, NoName>>),
   Absolute(Docs), Absolute(Welcome)}

TwoChunks == {x, y}
AllTexts == STRING
OneChunkData == {<<x>>, <<y>>}
NoPaths == {}

\* What a file's blocks hold is copied and compared, never looked into.
ChunksAlike == Permutations(TwoChunks)

\* States that differ only in what free blocks hold, which nothing reads before
\* it is written, or in a call that is over, go on alike.
View == <<[fs EXCEPT !.block =
             [b \in Blocks |-> IF fs.fat[b] = None THEN 0 ELSE @[b]]],
          sample, current_directory, doing,
          IF sample < InitCalls \/ doing # <<>> THEN ret ELSE 0>>
=============================================================================
