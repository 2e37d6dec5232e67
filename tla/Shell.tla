------------------------------- MODULE Shell --------------------------------
(***************************************************************************)
(* The shell's commands on the file system: kernel.c's cmd_ functions and  *)
(* the branches of handle_command, with the current directory and          *)
(* normalize_path.  Commands run one at a time (Kernel's                   *)
(* KeyboardNotReentered); the ones made of two fs_ calls are two steps, as *)
(* background_task may read the file system in between.                    *)
(*                                                                         *)
(* ls, cat, find, tree and fsinfo print fs_list_files, fs_read_file and    *)
(* fs_get_stats and change nothing.                                        *)
(***************************************************************************)
EXTENDS FileSystem

CONSTANTS
  MaxPath,  \* 255: a path must stay shorter to be joined
  Args      \* the paths that commands are given: [absolute, names]

ASSUME ShellAssumption ==
  /\ MaxPath \in Nat /\ MaxPath > MaxName + 1
  /\ Args \subseteq [absolute : BOOLEAN, names : Seq(PathNames) \ {<<>>}]

VARIABLES
  current_directory,
  doing   \* the rest of a command that is not at its end: what it writes where

shellVars == <<vars, current_directory, doing>>

-----------------------------------------------------------------------------
(* normalize_path.                                                         *)

\* The characters of the names, and a slash for each.
Characters(names) == UNION {{i} \X (0 .. names[i].len) : i \in DOMAIN names}

\* Names between slashes, and a path: "/" is one character.
TextLength(names) == Cardinality(Characters(names)) - 1

PathLength(p) == IF p = <<>> THEN 1 ELSE Cardinality(Characters(p))

EndsInSlash(p) == p # <<>> /\ p[Len(p)].len = 0

\* The path without its last slash; "/" and "" are the same path.
Stripped(p) == IF EndsInSlash(p) THEN ParentPath(p) ELSE p

\* The current directory, with a slash behind it.
Base ==
  IF EndsInSlash(current_directory) THEN ParentPath(current_directory)
                                    ELSE current_directory

BaseLength ==
  IF Base = <<>> THEN 1 ELSE PathLength(Base) + 1

\* The path that an argument means in the current directory, without a slash
\* at its end.
Meant(arg) == Stripped(IF arg.absolute THEN arg.names ELSE Base \o arg.names)

\* Mutant: the length is not looked at.
NormalizedAnyLength(arg) == Meant(arg)

\* Mutant: an argument is taken to begin at the root.
NormalizedAtRoot(arg) == Stripped(arg.names)

\* A relative path that does not fit is dropped: the command gets the current
\* directory itself.
normalize_path(arg) ==
  IF arg.absolute \/ BaseLength + TextLength(arg.names) < MaxPath
    THEN Meant(arg) ELSE Base

-----------------------------------------------------------------------------
(* Commands.                                                               *)

Idle == sample = InitCalls /\ doing = <<>>

\* cmd_cd.  Any entry will do: that it is a directory is not looked at.
cmd_cd(arg) ==
  /\ Idle
  /\ find_entry(fs, normalize_path(arg)) # NotFound
  /\ current_directory' = normalize_path(arg)
  /\ UNCHANGED <<vars, doing>>

cmd_cd_root ==
  /\ Idle
  /\ current_directory' = <<>>
  /\ UNCHANGED <<vars, doing>>

OneCall(Action) ==
  /\ Idle
  /\ Action
  /\ UNCHANGED <<sample, current_directory, doing>>

cmd_touch(arg) == OneCall(fs_create_file(normalize_path(arg)))

rm(arg) == OneCall(fs_delete_file(normalize_path(arg)))

mkdir(arg) == OneCall(fs_create_directory(normalize_path(arg)))

\* The first of two calls creates the file.  What the user meant is kept for
\* the properties.
Begin(command, arg, content) ==
  /\ Idle
  /\ fs_create_file(normalize_path(arg))
  /\ doing' = [command |-> command, path |-> normalize_path(arg),
               content |-> content, meant |-> Meant(arg)]
  /\ UNCHANGED <<sample, current_directory>>

write(arg, content) == Begin("write", arg, content)

\* cmd_cp has read the source before it touches the destination.
cmd_cp(source, destination) ==
  LET p == normalize_path(source) IN
  /\ IsFile(fs, find_entry(fs, p))
  /\ Begin("cp", destination, fs_read_file(fs, p, MaxBlocks))

\* Mutant: success is taken to be a positive result.
GoesOnPositive == ret > 0

\* write also goes on when there is a file already, though the table is full.
GoesOn ==
  \/ ret = 0
  \/ doing.command = "write" /\ find_entry(fs, doing.path) # NotFound

SecondCall ==
  /\ doing # <<>> /\ doing' = <<>>
  /\ IF GoesOn THEN fs_write_file(doing.path, doing.content)
               ELSE UNCHANGED <<fs, call, ret>>
  /\ UNCHANGED <<sample, current_directory>>

ShellInit == Init /\ current_directory = <<>> /\ doing = <<>>

Command ==
  \/ cmd_cd_root
  \/ \E arg \in Args :
       \/ cmd_cd(arg) \/ cmd_touch(arg) \/ rm(arg) \/ mkdir(arg)
       \/ \E content \in Contents : write(arg, content)
       \/ \E source \in Args : cmd_cp(source, arg)

Boot == fs_init /\ UNCHANGED <<current_directory, doing>>

ShellNext == Boot \/ Command \/ SecondCall

ShellSpec == ShellInit /\ [][ShellNext]_shellVars

-----------------------------------------------------------------------------
(* Properties.                                                             *)

\* No path overruns its buffer, though string_copy's bound never applies: not
\* the current directory, however often a command like cd makes it longer, and
\* not what a command makes of it.
PathsFit ==
  /\ PathLength(current_directory) <= MaxPath
  /\ \A arg \in Args : PathLength(normalize_path(arg)) <= MaxPath

\* Every entry hangs on a directory that exists, also when commands are given
\* in a current directory that was deleted, or that is a file.
ParentsExist ==
  \A i \in Files : Used(fs, i) /\ i # Root(fs) =>
    LET d == fs.files[i].parent_index
    IN  d \in Files /\ Used(fs, d) /\ fs.files[d].is_directory

Data(s, i) ==
  LET chain == Chain(s.fat, s.files[i].first_block)
  IN  [k \in DOMAIN chain |-> s.block[chain[k]]]

StaysFile(i) ==
  /\ Used(fs, i) /\ ~fs.files[i].is_directory
  /\ fs'.files[i].name = fs.files[i].name

\* The entry's name and those of the directories above it, by parent_index.
HasPath(s, i, names) ==
  \E at \in [0 .. Len(names) -> Files] :
    /\ at[0] = Root(s) /\ at[Len(names)] = i
    /\ \A k \in 1 .. Len(names) :
         s.files[at[k]].parent_index = at[k - 1] /\ s.files[at[k]].name = names[k]

\* A call changes the data of no file but the one that find_entry finds for its
\* path.  And if the path that the user means has at most eleven characters, so
\* that find_entry reads all of it, and no empty name has left a slot behind,
\* that is the file of this name in the directory of this name.  With a longer
\* path write and cp do change another file's data: find_entry cuts the path,
\* and normalize_path may have dropped it.
OthersKeepTheirData ==
  [][\A i \in Files :
       StaysFile(i) /\ Data(fs, i) # Data(fs', i) =>
         /\ i = find_entry(fs, call'[2])
         /\ doing # <<>> /\ PathLength(doing.meant) <= MaxName /\ SlotsMatchParents
              => HasPath(fs, i, Stripped(doing.meant))]_shellVars

\* What write and cp say they have written is what cat then shows.
WrittenIsRead ==
  [][doing # <<>> /\ doing' = <<>> /\ ret' = 0
       => LET i == find_entry(fs', doing.path)
          IN  IsFile(fs', i)
              /\ fs_read_file(fs', doing.path, MaxBlocks) = doing.content]_shellVars

=============================================================================
