----------------------------- MODULE FileSystem -----------------------------
(***************************************************************************)
(* filesystem.c: a table of entries, a block allocation table and the      *)
(* blocks, which hold a directory's children or a file's data.  Every      *)
(* fs_ call is one action; FileTree is what the calls promise together.    *)
(*                                                                         *)
(* Sizes are counted in blocks.  A path is the sequence of its names; a    *)
(* name is a text and how many of its characters there are, so that a name *)
(* cut short is another name of the same text.                             *)
(***************************************************************************)
EXTENDS Integers, Sequences, FiniteSets, FiniteSetsExt, Functions

CONSTANTS
  MaxFiles,     \* MAX_FILES, 32
  MaxBlocks,    \* MAX_BLOCKS, 128
  MaxChildren,  \* MAX_CHILDREN, 8: children that one block holds
  MaxName,      \* MAX_FILENAME - 1, 11
  Texts,        \* what names are made of
  Paths,        \* the paths calls are made with
  Chunks,       \* what one block can hold of a file's data
  Contents,     \* what is written to files: sequences of chunks
  InitCalls     \* bound: how many of fs_init's seven sample calls are made

\* The names in a path that a call is made with, which may be too long.
PathNames == [text : Texts, len : Nat]

ASSUME FileSystemAssumption ==
  /\ MaxFiles \in 1 .. 255 /\ MaxBlocks \in 2 .. 65534
  /\ MaxChildren \in Nat \ {0} /\ MaxName \in Nat /\ MaxName >= 4
  /\ Paths \subseteq Seq(PathNames)
  /\ Contents \subseteq Seq(Chunks) /\ InitCalls \in 0 .. 7

ASSUME TextsAssumption ==
  {"", "root", "welcome.txt", "readme.txt", "docs", "manual.txt"} \subseteq Texts

VARIABLES
  fs,         \* fs_buffer: the superblock's files and num_files, fat, and block
  sample,     \* how many of fs_init's sample calls have been made
  call, ret   \* the last call, and what it returned

vars == <<fs, sample, call, ret>>

NoParent == 255     \* also a slot with no child
NotFound == -1
None     == 65535   \* 0xFFFF: a free block, or an entry without any
End      == 65534   \* 0xFFFE: the last block of a chain

Files  == 0 .. MaxFiles - 1
Blocks == 1 .. MaxBlocks - 1
Slots  == 1 .. MaxChildren

-----------------------------------------------------------------------------
(* Paths.  <<>> and <<"">> are "/", and a path that ends in a slash ends    *)
(* in an empty name.                                                       *)

Name(text, len) == [text |-> text, len |-> len]
NoName == Name("", 0)

\* The first n characters of a name.
CutAt(name, n) == [name EXCEPT !.len = Min({@, n})]

ParentPath(p) == SubSeq(p, 1, Len(p) - 1)

\* What find_entry sees of a path: fs_strcpy, written for names, copies it into
\* path_copy and stops after MaxName characters.
PathCopy(p) ==
  LET at[i \in 1 .. Len(p)] == IF i = 1 THEN 1 ELSE at[i - 1] + p[i - 1].len + 1
      kept == {i \in 1 .. Len(p) : at[i] <= MaxName}
  IN  [i \in 1 .. Cardinality(kept) |-> CutAt(p[i], MaxName - at[i])]

\* The names find_entry looks up: a slash at the end is not followed.
Components(p) ==
  LET c == PathCopy(p)
  IN  IF c # <<>> /\ c[Len(c)].len = 0 THEN ParentPath(c) ELSE c

-----------------------------------------------------------------------------
(* Blocks.                                                                 *)

\* Where a walk along table fat from block b is after each of its steps.
Walk(fat, b) ==
  LET at[i \in 1 .. MaxBlocks] ==
        IF i = 1 THEN b
        ELSE LET before == at[i - 1] IN IF before \in Blocks THEN fat[before] ELSE None
  IN  at

\* The blocks it visits.
Chain(fat, b) ==
  LET at == Walk(fat, b)
  IN  [i \in 1 .. Cardinality({j \in 1 .. MaxBlocks : at[j] \in Blocks}) |-> at[i]]

\* Mutant: the mark of a chain's end is taken for that of a free block.
FreeOrLastBlocks(fat) == {b \in Blocks : fat[b] \in {None, End}}

FreeBlocks(fat) == {b \in Blocks : fat[b] = None}

\* n calls of allocate_block: the n lowest free blocks.
allocate_block(fat, n) ==
  {b \in FreeBlocks(fat) : Cardinality({c \in FreeBlocks(fat) : c < b}) < n}

\* Mutant: only the first block of the chain is freed.
FreeFirstBlock(fat, b) == [c \in Blocks |-> IF c = b THEN None ELSE fat[c]]

\* The blocks that a walk from block b comes to, which may also go round: b,
\* and every block that is linked to one of them.
Reached(fat, b) ==
  LET Closed(S) == b \in S /\ \A c \in S : fat[c] \in Blocks => fat[c] \in S
      closed    == {S \in SUBSET Blocks : Closed(S)}
  IN  {c \in Blocks : b \in Blocks /\ \A S \in closed : c \in S}

free_blocks(fat, b) ==
  LET gone == Reached(fat, b)
  IN  [c \in Blocks |-> IF c \in gone THEN None ELSE fat[c]]

\* The slots of directory d, in the order of the walks along its blocks.
SlotsOf(s, d) ==
  LET chain == Chain(s.fat, s.files[d].first_block)
  IN  [k \in 1 .. Len(chain) * MaxChildren |->
         s.block[chain[(k - 1) \div MaxChildren + 1]][((k - 1) % MaxChildren) + 1]]

SetSlot(s, d, k, child) ==
  LET chain == Chain(s.fat, s.files[d].first_block)
  IN  [s EXCEPT !.block[chain[(k - 1) \div MaxChildren + 1]]
                       [((k - 1) % MaxChildren) + 1] = child]

NoChildren == [k \in Slots |-> NoParent]

CanAddChild(s, d) ==
  FreeBlocks(s.fat) # {} \/ \E k \in DOMAIN SlotsOf(s, d) : SlotsOf(s, d)[k] = NoParent

\* The first empty slot takes the child; a directory that is full grows by a
\* block.  (A directory always has a block: mkdir allocates its first.)
add_child_to_directory(s, d, child) ==
  LET slots == SlotsOf(s, d)
      holes == {k \in DOMAIN slots : slots[k] = NoParent}
      chain == Chain(s.fat, s.files[d].first_block)
      new   == Min(FreeBlocks(s.fat))
  IN  IF holes # {} THEN SetSlot(s, d, Min(holes), child)
      ELSE [s EXCEPT !.fat[new] = End, !.fat[chain[Len(chain)]] = new,
                     !.block[new] = [NoChildren EXCEPT ![1] = child]]

\* Mutant: only the directory's first block is searched.
RemoveFromFirstBlock(s, d, child) ==
  LET mine == {k \in Slots : SlotsOf(s, d)[k] = child}
  IN  IF mine = {} THEN s ELSE SetSlot(s, d, Min(mine), NoParent)

remove_child_from_directory(s, d, child) ==
  LET slots == SlotsOf(s, d)
      mine  == {k \in DOMAIN slots : slots[k] = child}
  IN  IF mine = {} THEN s ELSE SetSlot(s, d, Min(mine), NoParent)

-----------------------------------------------------------------------------
(* Entries.                                                                *)

ClearedEntry == [name |-> NoName, size |-> 0, first_block |-> None,
                 is_directory |-> FALSE, parent_index |-> NoParent]

Used(s, i) == s.files[i].name.len > 0

FreeEntries(s) == {i \in Files : ~Used(s, i)}

Root(s) == Min({i \in Files : /\ Used(s, i) /\ s.files[i].is_directory
                              /\ s.files[i].parent_index = NoParent})

\* The child of directory d that a walk finds first under this name.
Child(s, d, name) ==
  LET slots == SlotsOf(s, d)
      hits  == {k \in DOMAIN slots : /\ slots[k] \in Files /\ Used(s, slots[k])
                                     /\ s.files[slots[k]].name = name}
  IN  IF d = NotFound \/ ~s.files[d].is_directory \/ hits = {}
        THEN NotFound ELSE slots[Min(hits)]

Resolve(s, names) ==
  LET at[i \in 0 .. Len(names)] ==
        IF i = 0 THEN Root(s) ELSE Child(s, at[i - 1], names[i])
  IN  at[Len(names)]

find_entry(s, p) == Resolve(s, Components(p))

\* The parent_index that find_entry gives with an entry it found.
FoundParent(s, p) == Resolve(s, ParentPath(Components(p)))

IsDirectory(s, i) == i \in Files /\ s.files[i].is_directory
IsFile(s, i)      == i \in Files /\ ~s.files[i].is_directory

\* What fs_read_file puts into a buffer of max blocks.
fs_read_file(s, p, max) ==
  LET i     == find_entry(s, p)
      chain == Chain(s.fat, s.files[i].first_block)
  IN  [k \in 1 .. Min({max, s.files[i].size, Len(chain)}) |-> s.block[chain[k]]]

\* The slots of directory d with the entries that fs_list_files prints.
fs_list_files(s, d) ==
  {k \in DOMAIN SlotsOf(s, d) : SlotsOf(s, d)[k] \in Files /\ Used(s, SlotsOf(s, d)[k])}

fs_get_stats(s) ==
  LET used == {i \in Files : Used(s, i)}
      dirs == {i \in used : s.files[i].is_directory}
  IN  [total_files       |-> Cardinality(used \ dirs),
       total_directories |-> Cardinality(dirs),
       used_blocks       |-> Cardinality(Blocks \ FreeBlocks(s.fat)),
       free_blocks       |-> Cardinality(FreeBlocks(s.fat)) + 1,
       total_size        |-> MapThenSumSet(LAMBDA i : s.files[i].size, used \ dirs)]

-----------------------------------------------------------------------------
(* The calls.                                                              *)

Calls(name, p)  == call' = <<name, p>>
Return(value)   == ret' = value /\ UNCHANGED fs
Become(s)       == ret' = 0 /\ fs' = s

AlreadyThere(p) == fs.num_files < MaxFiles /\ find_entry(fs, p) # NotFound

\* The checks that fs_create_file and fs_create_directory share.
Creatable(p) ==
  /\ fs.num_files < MaxFiles /\ find_entry(fs, p) = NotFound
  /\ IsDirectory(fs, find_entry(fs, ParentPath(p)))
  /\ FreeEntries(fs) # {}

extract_filename(p) == CutAt(p[Len(p)], MaxName)

\* Mutant: the new entry is counted twice.
EnterCountedTwice(s, i, p, d, is_directory, first_block) ==
  [s EXCEPT !.num_files = @ + 2,
            !.files[i] = [name |-> extract_filename(p), size |-> 0,
                          first_block |-> first_block,
                          is_directory |-> is_directory, parent_index |-> d]]

\* Entry i of the table becomes a child of d.
Enter(s, i, p, d, is_directory, first_block) ==
  [s EXCEPT !.num_files = @ + 1,
            !.files[i] = [name |-> extract_filename(p), size |-> 0,
                          first_block |-> first_block,
                          is_directory |-> is_directory, parent_index |-> d]]

fs_create_file(p) ==
  LET d == find_entry(fs, ParentPath(p))
      i == Min(FreeEntries(fs))
  IN  /\ Calls("fs_create_file", p)
      /\ \/ AlreadyThere(p) /\ Return(0)
         \/ ~AlreadyThere(p) /\ ~Creatable(p) /\ Return(-1)
         \/ /\ Creatable(p)
            /\ IF extract_filename(p).len > 0 /\ CanAddChild(fs, d)
                 THEN Become(Enter(add_child_to_directory(fs, d, i),
                                   i, p, d, FALSE, None))
                 ELSE Return(-1)

\* The directory's own block is taken before its parent may need one more; the
\* name is not looked at.
fs_create_directory(p) ==
  LET d     == find_entry(fs, ParentPath(p))
      i     == Min(FreeEntries(fs))
      new   == Min(FreeBlocks(fs.fat))
      taken == [fs EXCEPT !.fat[new] = End, !.block[new] = NoChildren]
  IN  /\ Calls("fs_create_directory", p)
      /\ \/ AlreadyThere(p) /\ Return(0)
         \/ ~AlreadyThere(p) /\ ~Creatable(p) /\ Return(-1)
         \/ Creatable(p) /\ FreeBlocks(fs.fat) = {} /\ Return(-1)
         \/ /\ Creatable(p) /\ FreeBlocks(fs.fat) # {}
            /\ IF CanAddChild(taken, d)
                 THEN Become(Enter(add_child_to_directory(taken, d, i),
                                   i, p, d, TRUE, new))
                 ELSE /\ fs' = [taken EXCEPT !.fat = free_blocks(@, new)]
                      /\ ret' = -1

\* Mutant: a directory need not be empty.
DeletableFull(i) == i \in Files /\ fs.files[i].parent_index # NoParent

Deletable(i) ==
  /\ i \in Files /\ fs.files[i].parent_index # NoParent
  /\ fs.files[i].is_directory =>
       \A k \in DOMAIN SlotsOf(fs, i) : SlotsOf(fs, i)[k] = NoParent

fs_delete_file(p) ==
  LET i == find_entry(fs, p)
  IN  /\ Calls("fs_delete_file", p)
      /\ \/ ~Deletable(i) /\ Return(-1)
         \/ /\ Deletable(i)
            /\ Become([remove_child_from_directory(fs, FoundParent(fs, p), i) EXCEPT
                         !.fat = free_blocks(@, fs.files[i].first_block),
                         !.files[i] = ClearedEntry,
                         !.num_files = @ - 1])

\* Mutant: no block is linked to the one before it.
LinkedToNone(fat, bs) == [b \in Blocks |-> IF b \in bs THEN End ELSE fat[b]]

\* Mutant: the last block is not marked.
LinkedLastFree(fat, bs) ==
  [b \in Blocks |->
     IF b \notin bs \/ \A c \in bs : c <= b THEN fat[b]
     ELSE Min({c \in bs : c > b})]

\* Table fat once the blocks bs have been chained, in their order.
Linked(fat, bs) ==
  [b \in Blocks |->
     IF b \notin bs THEN fat[b]
     ELSE IF \A c \in bs : c <= b THEN End ELSE Min({c \in bs : c > b})]

\* Mutant: the entry keeps the number of a block that it gave up.
FailedWriteStale(i, left) == [fs EXCEPT !.fat = left]

\* The old blocks are given up first: when the data does not fit, the entry
\* loses them and keeps its size.
FailedWrite(i, left) == [fs EXCEPT !.fat = left, !.files[i].first_block = None]

fs_write_file(p, content) ==
  LET i    == find_entry(fs, p)
      left == free_blocks(fs.fat, fs.files[i].first_block)
      bs   == allocate_block(left, Len(content))
  IN  /\ Calls("fs_write_file", p)
      /\ \/ ~IsFile(fs, i) /\ Return(-1)
         \/ /\ IsFile(fs, i) /\ Cardinality(bs) < Len(content)
            /\ fs' = FailedWrite(i, left)
            /\ ret' = -1
         \/ /\ IsFile(fs, i) /\ Cardinality(bs) = Len(content)
            /\ Become([fs EXCEPT
                 !.fat = Linked(left, bs),
                 !.block = [b \in Blocks |->
                              IF b \in bs
                                THEN content[1 + Cardinality({c \in bs : c < b})]
                                ELSE @[b]],
                 !.files[i].first_block = IF bs = {} THEN None ELSE Min(bs),
                 !.files[i].size = Len(content)])

-----------------------------------------------------------------------------
(* fs_init: an empty root, then the sample files.                          *)

Init ==
  /\ fs = [files |-> [i \in Files |->
                        IF i = 0 THEN [ClearedEntry EXCEPT !.name = Name("root", 4),
                                                           !.first_block = 1,
                                                           !.is_directory = TRUE]
                        ELSE ClearedEntry],
           num_files |-> 1,
           fat |-> [b \in Blocks |-> IF b = 1 THEN End ELSE None],
           block |-> [b \in Blocks |-> IF b = 1 THEN NoChildren
                                       ELSE [k \in Slots |-> 0]]]
  /\ sample = 0
  /\ call = <<"fs_init", <<>>>> /\ ret = 0

Welcome == <<Name("welcome.txt", 11)>>
Readme  == <<Name("readme.txt", 10)>>
Docs    == <<Name("docs", 4)>>
Manual  == Docs \o <<Name("manual.txt", 10)>>

\* What fs_init does only if the call before returned 0.
IfDone(Action) == IF ret = 0 THEN Action ELSE UNCHANGED <<fs, call, ret>>

SampleCall(chunk) ==
  \/ sample = 0 /\ fs_create_file(Welcome)
  \/ sample = 1 /\ IfDone(fs_write_file(Welcome, <<chunk>>))
  \/ sample = 2 /\ fs_create_file(Readme)
  \/ sample = 3 /\ IfDone(fs_write_file(Readme, <<chunk>>))
  \/ sample = 4 /\ fs_create_directory(Docs)
  \/ sample = 5 /\ IfDone(fs_create_file(Manual))
  \/ sample = 6 /\ IfDone(fs_write_file(Manual, <<chunk>>))

fs_init ==
  /\ sample < InitCalls
  /\ sample' = sample + 1
  /\ \E chunk \in Chunks : SampleCall(chunk)

Call ==
  /\ sample = InitCalls
  /\ \E p \in Paths :
       \/ fs_create_file(p)
       \/ fs_create_directory(p)
       \/ fs_delete_file(p)
       \/ \E content \in Contents : fs_write_file(p, content)
  /\ UNCHANGED sample

Next == fs_init \/ Call

Spec == Init /\ [][Next]_vars

-----------------------------------------------------------------------------
(* Properties.                                                             *)

Names == [text : Texts, len : 0 .. MaxName]

Entries == [name : Names, size : Nat, first_block : Blocks \cup {None},
            is_directory : BOOLEAN, parent_index : Files \cup {NoParent}]

\* The types of the variables.
TypeOK ==
  /\ fs.files \in [Files -> Entries]
  /\ fs.num_files \in 1 .. MaxFiles
  /\ fs.fat \in [Blocks -> Blocks \cup {None, End}]
  /\ fs.block \in [Blocks -> Chunks \cup [Slots -> Files \cup {NoParent}]]
  /\ sample \in 0 .. InitCalls /\ ret \in {0, -1}

\* Whatever the calls, a block that an entry or a chain leads to is allocated,
\* and one thing only leads to it: no two files share a block, no chain joins
\* another or comes back to itself, and free_blocks frees nobody else's data.
BlocksHaveOneOwner ==
  \A b \in Blocks :
    LET owners == {i \in Files : fs.files[i].first_block = b}
        links  == {c \in Blocks : fs.fat[c] = b}
    IN  /\ Cardinality(owners) + Cardinality(links) <= 1
        /\ owners \cup links # {} => fs.fat[b] # None

\* The two ways the tree is stored agree: what fs_list_files shows for a
\* directory is exactly the entries whose parent_index names it, each once, and
\* every other slot is empty, so that rm's test for emptiness is the listing's.
SlotsMatchParents ==
  \A d \in Files : Used(fs, d) /\ fs.files[d].is_directory =>
    LET slots == SlotsOf(fs, d)
    IN  /\ fs_list_files(fs, d) = {k \in DOMAIN slots : slots[k] # NoParent}
        /\ \A i \in Files :
             Cardinality({k \in fs_list_files(fs, d) : slots[k] = i}) =
               IF Used(fs, i) /\ fs.files[i].parent_index = d THEN 1 ELSE 0

\* What fsinfo counts is true: its files and directories are as many as
\* num_files, which both creates compare with MAX_FILES, and its used blocks are
\* those that the entries lead to: no call leaks a block.  Its total data size
\* is not: after a write that did not fit it adds a size whose blocks are gone.
StatsAddUp ==
  LET stats == fs_get_stats(fs)
  IN  /\ stats.total_files + stats.total_directories = fs.num_files
      /\ stats.used_blocks =
           Cardinality(UNION {Range(Chain(fs.fat, fs.files[i].first_block)) : i \in Files})

\* A file's chain is as long as its size says, or was lost to a write that did
\* not fit: no read ever runs past the data.
SizeMatchesChain ==
  \A i \in Files : Used(fs, i) /\ ~fs.files[i].is_directory =>
    Len(Chain(fs.fat, fs.files[i].first_block)) \in {0, fs.files[i].size}

\* filesystem.h: "num_files; // Number of files".
NumFilesCounts == fs.num_files = Cardinality({i \in Files : Used(fs, i)})

\* fs_init creates the sample files and writes their text.
SamplesAreWritten ==
  sample = 7 => \A p \in {Welcome, Readme, Manual} :
                  IsFile(fs, find_entry(fs, p)) /\ fs_read_file(fs, p, 1) # <<>>
=============================================================================
