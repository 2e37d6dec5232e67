------------------------------ MODULE FileTree ------------------------------
(***************************************************************************)
(* What the file system promises its callers: a tree of directories and    *)
(* files named by paths, and what each call returns.  FileSystem           *)
(* implements it on the paths find_entry reads whole.                      *)
(***************************************************************************)
EXTENDS Integers, Sequences, FiniteSets, Functions

CONSTANTS
  Paths,      \* absolute paths, each a sequence of names; <<>> is the root
  Contents,   \* what can be written to a file
  DirNode,    \* the value of a directory
  MaxFiles    \* files and directories there can be, the root included

VARIABLES
  tree,   \* the paths that exist, with what is there
  call,   \* the last call: its name and path
  ret     \* what it returned: 0, or -1 for failure

treeVars == <<tree, call, ret>>

Parent(p) == SubSeq(p, 1, Len(p) - 1)

Exists(p) == p \in DOMAIN tree
IsDir(p)  == Exists(p) /\ tree[p] = DirNode
IsFile(p) == Exists(p) /\ tree[p] # DirNode

Init ==
  /\ tree = [p \in {<<>>} |-> DirNode]
  /\ call = <<"fs_init", <<>>>> /\ ret = 0

Same(result) == ret' = result /\ UNCHANGED tree

\* Creating what exists succeeds and changes nothing; a call may fail for want
\* of a parent or of space, and then changes nothing either.
Create(name, p, node) ==
  /\ call' = <<name, p>>
  /\ \/ Exists(p) /\ Same(0)
     \/ /\ ~Exists(p) /\ IsDir(Parent(p))
        /\ tree' = [q \in DOMAIN tree \cup {p} |-> IF q = p THEN node ELSE tree[q]]
        /\ ret' = 0
     \/ ~Exists(p) /\ Same(-1)
     \/ Cardinality(DOMAIN tree) = MaxFiles /\ Same(-1)

Removable(p) ==
  Exists(p) /\ p # <<>> /\ \A q \in DOMAIN tree \ {<<>>} : Parent(q) # p

\* Whatever is not the root and has nothing below it can be deleted.
Delete(p) ==
  /\ call' = <<"fs_delete_file", p>>
  /\ \/ /\ Removable(p)
        /\ tree' = Restrict(tree, DOMAIN tree \ {p})
        /\ ret' = 0
     \/ ~Removable(p) /\ Same(-1)

\* A file that does not fit is lost, and with it what it held before.
Write(p, content) ==
  /\ call' = <<"fs_write_file", p>>
  /\ \/ /\ IsFile(p)
        /\ \/ tree' = [tree EXCEPT ![p] = content] /\ ret' = 0
           \/ tree' = [tree EXCEPT ![p] = <<>>] /\ ret' = -1
     \/ ~IsFile(p) /\ Same(-1)

Next ==
  \E p \in Paths :
    \/ Create("fs_create_file", p, <<>>)
    \/ Create("fs_create_directory", p, DirNode)
    \/ Delete(p)
    \/ \E content \in Contents : Write(p, content)

Spec == Init /\ [][Next]_treeVars
=============================================================================
