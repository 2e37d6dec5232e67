--------------------------- MODULE FileSystemTree ---------------------------
(***************************************************************************)
(* FileSystem implements FileTree.  `tree' is a history variable: after    *)
(* every call it is what find_entry and fs_read_file make of the buffer.   *)
(***************************************************************************)
EXTENDS FileSystem

CONSTANT DirNode   \* FileTree's value of a directory

ASSUME DirNodeAssumption ==
  DirNode \notin Seq(Chunks \cup [Slots -> Files \cup {NoParent}])

VARIABLE tree

\* What each path leads to, and what reading a whole file gives.
TreeOf(s) ==
  [p \in {q \in Paths : find_entry(s, q) # NotFound} |->
     IF IsDirectory(s, find_entry(s, p)) THEN DirNode ELSE fs_read_file(s, p, MaxBlocks)]

TreeInit == Init /\ tree = TreeOf(fs)
TreeNext == Next /\ tree' = TreeOf(fs')
TreeSpec == TreeInit /\ [][TreeNext]_<<vars, tree>>

Abstract == INSTANCE FileTree WITH tree <- tree, call <- call, ret <- ret

\* find_entry reads every path whole: path_copy takes all of it, no name is
\* empty or longer than an entry's, and the directory above is among the paths.
PathsAreWhole ==
  /\ <<>> \in Paths
  /\ \A p \in Paths :
       /\ PathCopy(p) = p /\ \A k \in DOMAIN p : p[k].len \in 1 .. MaxName
       /\ p # <<>> => ParentPath(p) \in Paths

\* What fs_init calls with is among what callers call with, or it makes none of
\* its sample calls.
SamplesAmongPaths ==
  \/ InitCalls = 0
  \/ /\ {Welcome, Readme, Docs, Manual} \subseteq Paths
     /\ \A chunk \in Chunks : <<chunk>> \in Contents

\* Every call does to the tree, and returns, what FileTree says it may.
ImplementsTree == Abstract!Spec

\* Nothing is out of reach: there are as many entries as paths that lead to one.
EntriesAreReachable == fs.num_files = Cardinality(DOMAIN tree)
=============================================================================
