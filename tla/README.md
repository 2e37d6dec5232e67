# A verification project for CAPTAIN-OS

TLA+ models of the CAPTAIN-OS kernel (`src/`), checked with TLC on small
instances, and theorems about them proved with TLAPS for every value of the
constants. The reference is the code; where a comment or a message of the
repository says something else, a run shows it (*Findings*).

## The system

CAPTAIN-OS is a single-CPU x86-64 kernel: a boot loader, two tasks under a round
robin scheduler, two interrupt lines, a text console, and a shell over an
in-memory file system. There is no user mode and no memory protection; nothing
survives a restart.

| Component | State | Operations | Works with |
|---|---|---|---|
| Interrupt controllers, `pic.c` | requests, lines in service (hardware) | `pic_remap`, `pic_send_eoi` | handlers send the end-of-interrupt (EOI) |
| Tasks and scheduler, `task.c`, `isr.asm` | `tasks`, `num_tasks`, `current_task`, `scheduler_initialized`, saved stacks | `task_init`, `task_create`, `schedule`, `task_yield`, `task_sleep`, `start_multitasking`, `simple_switch_task` | called by boot, tasks and the timer handler |
| Critical sections, `task.c` | `in_critical_section`, the CPU's interrupt flag | `enter_`/`exit_critical_section` | console, keyboard handler, both tasks |
| Interrupt handlers, `idt.c`, `isr.asm` | `timer_ticks`, shift and caps lock | `timer_handler`, `keyboard_handler`, `exception_handler` | scheduler, line buffer, shell |
| Keyboard controller, `idt.c` | the controller's registers (hardware) | `enable_keyboard` | prints, and thereby enables interrupts; the keyboard handler reads the same port |
| Line editing, `idt.c` | `input_buffer`, `input_pos` | per key | console; Enter calls `handle_command` |
| Console, `vga.c` | cursor, screen | `print_char`, `print_string`, `scroll_screen`, `clear_screen_proper` | everybody |
| File system, `filesystem.c` | entries, `num_files`, FAT, blocks | the `fs_` calls, `find_entry` | shell; the background task reads statistics |
| Shell, `kernel.c`, `cmd.c` | `current_directory`, history | `handle_command` and the `cmd_` functions | runs **inside the keyboard handler** |
| Background task, `kernel.c` | two counters | display, health check, yield | console, file system |
| Utilities, `utils.c` | none | `itoa`, string functions | shell |
| Timer chip, `pit.c` | divisor | `pit_init` | raises IRQ0 |
| Framebuffer, `framebuffer.c` | | | not in the Makefile, not linked |
| Boot loader | | mode switch, paging, GDT | calls `kernel_main` |

What is hard in it, in the order of importance:

1. **Interrupts, switches and sections.** `timer_handler` calls `schedule`
   *before* it sends its EOI, so a task can be switched away from inside a handler
   whose line stays in service until the task comes back. `keyboard_handler` runs
   whole commands, with interrupts on, because every print ends a critical section
   and critical sections do not nest. What keeps the system working is an
   interplay of the controller's priorities, the EOI order and the flag.
   *Correct when*: a line in service has exactly one handler that owes its EOI; the
   EOI, which names no line, ends the right one; the keyboard handler is never
   re-entered; nothing masks scheduling for good; no task is lost or starved; the
   stack that executes is the current task's.
2. **Boot.** Interrupts are on long before the tasks exist, and `schedule` can run
   between any two statements of `start_multitasking`.
3. **The file system's three linked structures**: the entry table, the FAT's chains,
   and directories whose slots duplicate `parent_index`. Calls that fail halfway
   must restore them. *Correct when*: blocks have one owner, slots and parents
   agree, the statistics add up, and together the calls behave as a tree.
4. **The path lookup**, which reads eleven characters of a path.
5. **The cursor**, which the keyboard handler, the shell's welcome and the background
   task's display move, each in the middle of the others. *Correct when*: it stays on
   the screen, and the line on the screen is the line in the buffer.
6. **The shell's compositions**: `write` and `cp` are a create and a write of a path that
   `normalize_path` has made from a current directory that may be gone. *Correct when*:
   the file system stays whole, no other file changes as long as the lookup sees the whole path, and no path
   overruns its buffer.
7. **The keyboard's handshake**: five attempts against answers that are late, lost or
   taken by the interrupt handler. *Correct when*: it ends, what it reports as a success
   is one, and no byte stays in the controller unread.
8. **The ring of the history**: small, but every number of wrap-arounds and repeats has to agree.

## Modules

| Module | What it is |
|---|---|
| `Pic` | the interrupt controllers: request and in-service registers, priority, non-specific EOI |
| `Tasks` | `task.c` and `simple_switch_task`: operators and actions on the task table, contexts and the section flag |
| `Kernel` | extends both: boot, handlers, tasks, `Next`, fairness, properties |
| `KernelProofs` | the inductive invariant and six theorems; two more for a boot shorter than a time slice |
| `MCKernel` | instances |
| `FileTree` | the abstract specification: a tree of directories and files, and what each call may return |
| `FileSystem` | `filesystem.c`: entries, FAT, blocks, one action per `fs_` call |
| `FileSystemTree` | `FileSystem` with the history variable `tree`, and the refinement of `FileTree` |
| `FileSystemProofs` | blocks have one owner, for every size; what a chain lists |
| `DirectoryProofs` | extends it: types, sizes, what directories list, statistics |
| `TreeProofs` | extends it and `FileSystemTree`: nothing is out of reach; the refinement of `FileTree` |
| `MCFileSystem` | instances |
| `Shell` | extends `FileSystem`: the commands, the current directory, `normalize_path` |
| `ShellProofs` | extends `DirectoryProofs`: what the commands keep |
| `MCShell` | instance |
| `Line` | the line buffer under the keys, and `parse_command` |
| `LineEditor` | extends `Line`: shift and caps lock, Enter, the history's ring |
| `CommandHistory` | the abstract specification: the list of the last commands |
| `LineEditorProofs` | the ring implements the list |
| `MCLineEditor` | instance |
| `Console` | extends `Line`: screen and cursor, and who moves it in the middle of whom |
| `ConsoleProofs` | the cursor and the echo, for every screen |
| `MCConsole` | instance |
| `Keyboard` | `enable_keyboard`, the controller and the keyboard handler's read |
| `KeyboardProofs` | its safety |
| `MCKeyboard` | instance |

### Kernel

A **stack** (`stack[c]`) is a sequence of activations, one for each task and one for
the boot stack; the last of `stack[cpu]` executes. An activation is a `kind` (task or
boot code, timer handler, keyboard handler), a point it has reached (`pc`) and the
number of critical sections it has open (`depth`). An interrupt appends an
activation to whatever stack executes and clears the flag; `Iret` removes it.
`rsp[t]` is what the task's `rsp` field points at: which stack, how high, and which
routine pushed the words there. Words are named by the register they were pushed
for, so that a pop in another order finds the wrong word; a context that is resumed
although its words are gone, or were never there, leaves the CPU `Wild`.

One action is one run of instructions that no interrupt can split visibly: while the
flag is clear, or where only one shared variable is touched. Where the code runs
with interrupts on, its statements are separate actions (`StartScan`, `StartCurrent`,
`StartRunning`, `StartInitialized`, `StartJump`; `TaskYield` and `YieldSchedule`).

| Code | Actions |
|---|---|
| `timer_handler`, `keyboard_handler` | `TimerHandler`, `KeyIgnored`, `KeyTaken`, `EndOfInterrupt`, `Iret` |
| prints and sections of tasks and handlers | `EnterSection`, `LeaveSection` |
| `task_wrapper`, `task_yield`, `schedule` | `TaskEntry`, `TaskYield`, `YieldSchedule`, `TaskReturn`, `ExitSchedule`, `SwitchedIn` with `Schedule` |
| `kernel_main`, `start_multitasking` | `EnableKeyboard` ... `StartJump` |
| the devices | `TimerFires`, `KeyPressed`, `Interrupt` |

Abstractions: `hlt` only waits; `task_sleep` is several `TaskYield`s; the text of a
print is left out, its sections are not; a command is an arbitrary number of nested
sections of the keyboard handler; `enable_keyboard` is the `sti` that the last print
of each of its paths ends with. `schedule` through a null `current_task` reads address 0,
which is mapped: the model lets it find nothing or run wild.

### File system

`fs` is one record: `files`, `num_files`, `fat`, `block`. A path is a sequence of names
and a name is a text with a length, because `find_entry` copies the whole path with
a routine for names and so cuts it after eleven characters (`PathCopy`). Sizes are
counted in blocks. A call is one action: the calls run in the keyboard handler, which
is never re-entered (`KeyboardMutex`), and the background task only reads. `fs_init`'s
seven sample calls are steps before the others when `InitCalls` is 7.

Left out: null-pointer checks and `fs_initialized` (no call precedes `fs_init`); two texts
of which one begins the other; that blocks 126 and 127 lie partly or wholly behind
`fs_buffer`; branches that cannot be taken, like `add_child_to_directory` for a directory
without a block.

`FileTree` promises: creating what exists succeeds and changes nothing; creating needs
a parent; a call may fail for want of space and then changes nothing, except that a
write that does not fit leaves the file empty; deleting removes exactly one node without
children. The mapping is `TreeOf`: the paths that `find_entry` finds, and what
`fs_read_file` gives. It is kept in a history variable because TLC then computes it once
per state.

### Shell

`Shell` adds `current_directory` and `doing`, the second half of a command that is two
calls. Each command is `normalize_path` of an argument and then `FileSystem`'s action;
`write` and `cp` are `Begin` (the create) and `SecondCall` (the write, if `GoesOn`),
because the background task may read in between. An argument is absolute or not and a
sequence of names with lengths, so that `normalize_path`'s test of 255 characters is the
real one on shorter paths: it drops an argument that does not fit, and `Stripped` takes
the last slash away. `Meant` is the path without that test; `doing.meant` keeps it for the
properties, with nothing of the code reading it. `cmd_cd` takes any entry `find_entry` finds, a file too. The commands
run one at a time (`KeyboardMutex`).

Left out: commands that only print, counts of arguments, and the joining of `write`'s data
arguments, which are one content. `rm` of the current directory is possible and modelled.

### Line, LineEditor, Console

`line` is `input_buffer` up to `input_pos`. `Line` has what a key does to it and
`ParseCommand`, a fold over the line with `parse_command`'s state. In `LineEditor` keys are
pairs of characters (plain, shifted) and a bit that says whether caps lock concerns them.
`shift_pressed` is set and cleared by bytes that may come in any order (`ShiftPress`, `ShiftRelease`), since the code
sees bytes and not keys; `kept`, what an earlier Enter left in the line, is a history variable. `Enter` is
`handle_command` up to `parse_command`: the history, and `LineAfterCommand`. Of what follows, only how a
command finds its branch is modelled: by the first argument, but `echo` by the buffer (`IsEcho`).

`Console` has the rest of `keyboard_handler`, `vga.c` and what the two tasks print. A *job* is
somebody who is printing: what is left to print, the statement it has reached, and the
cursor it saved. Jobs are stacked: whoever begins in the middle of another ends before it.
That is what `Kernel` shows: a key's handler lies on top of what it interrupted, and a
task that a timer interrupt switches to in the middle of a key runs with the timer's line
in service (`AwayKeyMasksAll`), so that nothing interrupts it, until its yield brings the
key's task back; hence `MayHandleKey`. Every statement on the cursor or the screen is an
action (`Advance`, `Wrap`, `RowUp`, `Home`, `Scroll`, `LastRow`), except those that open a
handler or a section up to its first `print_char`, which run with interrupts off.
`echo_at` is a history variable: where the line's echo begins on the screen, or that it cannot
be told, after the display or the welcome has overwritten it, a key was typed inside
another job, or its first row has scrolled away. Texts are one glyph; the display's `itoa` is
text. What else is printed (newline, clear, the reset of the line) is no character.

### Keyboard

The device side is external: the keyboard's queue, the output register with its request,
the byte that port 0x60 repeats when the register is empty, the command in the input
register. `CommandTaken` acknowledges, asks again or says nothing, at any time later. A wait
of 65536 polls ends when it sees what it waits for (`SendCommand`, `SeeOutput`) or at a poll that
does not (`InputTimeout`, `OutputTimeout`): the number of polls is abstracted, as the keyboard
may be slower than any. `print_string` turns interrupts on, hence `iflag' = TRUE` in `Retry`
and `Return`, and from the second attempt on `InterruptAccepted` and `HandlerReads` come in
between any two steps, also between the poll that sees a byte and the read.

## Runs

| Run | Instance | Shows |
|---|---|---|
| `kernel` | 2 tasks, slice of 2 ticks, 1 tick during boot, 3 activations per stack, 2 nested sections | types; no task is lost; the executing stack is the current task's; every task runs again and again |
| `kernel_slow_boot` | 3 tasks that may return, slice of 1 tick, 4 ticks during boot | in-service lines match handlers; EOIs end their own interrupts; no keyboard re-entry; the flag masks interrupts; a key that waits for its stack masks everything |
| `nested_sections`, `new_task_flags`, `boot_slice` | as `kernel`; `boot_slice` has 2 ticks during boot | findings |
| `fs` | 4 entries, 5 blocks, 2 children per block, paths read whole | types, block ownership, slots, counts of entries and blocks, sizes, reachability, the refinement of `FileTree` |
| `shell` | 7 entries, 7 blocks, paths of 15, five arguments, after the sample calls | block ownership with cut paths, duplicates and empty names; paths fit; parents exist; a write changes no other file than the one its path means, if the lookup reads the whole path; what is written is read |
| `line` | ring of 2, a first line of up to 6 characters, then 2 | `parse_command` against a definition by positions; what a line left behind does to the next; the refinement of `CommandHistory` |
| `console` | screen of 2 rows by 3, lines of 2 | the cursor stays on the screen; the echo is the line |
| `keyboard` | 5 attempts, 2 bytes held back | true success; no forgotten byte; `enable_keyboard` returns; the keyboard is never locked |
| `fs_empty_name`, `fs_samples` | 6 entries, 8 blocks | findings |

**Why the bounds are enough.** A slice of one or two ticks instead of 50 puts a call of
`schedule` at every point it could come; the count has no other use. Three activations
hold a task, a keyboard handler and a timer handler on top of it, and a timer handler
that nests at another's `iretq`; the controller's priorities keep further ones to that
last kind. Two nested sections are the code's `print_char` in `print_string` (the
keyboard handler adds a third that behaves as the second does, since leaving any of
them opens all). With five blocks and four entries the table and the FAT both run out,
a directory of two slots per block grows to a second block and `mkdir` fails after it
has taken its own. In `shell` the sample calls leave
room for two more entries and few blocks; the five arguments are a name, a name that only just fits the lookup (so that a name below it is
lost), a path that ends in empty names, a directory and a path that is never found; 15
characters are few enough that joining fails after one `cd`. In `line` a first line of six
characters holds every order of two words, quotes and blanks that `parse_command` tells
apart, and a ring of two wraps and repeats with lines of two. In `console` a row holds
prompt and line exactly, so a line wraps and scrolls and a backspace goes back a row. In
`keyboard` two bytes are a late answer and a key.
The file system's `View` identifies states that differ in what free blocks hold (nothing
reads a block before writing it) or in the last call; `FileTree`'s steps do not depend on
the call before. `shell` has the same view, and its two chunks are symmetric: what a file's
blocks hold is copied and compared and never looked into, and the run checks no liveness. In `kernel_slow_boot` deadlock is not checked: a lost context stops the CPU.
Runs that check liveness use no view and no symmetry.

**Fairness** (`FairSpec`). Weak fairness of the CPU: it executes something if it can.
Strong fairness of `TaskYield`, because the shell yields in every turn of its loop and the
background task in every 2500th; of the rest of a task's code between yields; and, for each
height of a stack, of the handler at that height. All are enabled only between
interrupts, hence strong: the handlers and sections are straight-line code, and a
100 Hz timer and a keyboard do not interrupt so densely that an interrupted activation
never gets another instruction. No fairness is asked of the devices: `EveryTaskRuns` holds
through yields alone. `Keyboard` assumes that a requested interrupt is accepted when interrupts are on and
its handler reads (weak), and (strong) that interrupts leave boot some instructions and that
a flush that goes on for ever finds the register empty again and again: a keyboard sends some
ten bytes a second, a poll takes a microsecond. Nothing is asked of the keyboard: it may never answer.

Each property of a passing run has a mutant: an operator in the module that changes a
definition as a slip in the code would (no `cli`, the EOI before the command, only the
first block freed), under which TLC finds the property violated.

## Findings

- **Critical sections do not nest** (`nested_sections`). `exit_critical_section` clears the one
  flag and turns interrupts on; `print_char` does so inside `print_string`'s section, so a
  section with a print in it is over at the first character.
- **A new task's flags** (`new_task_flags`). `task_create` lays the stack out for
  `start_multitasking` (flags lowest); `simple_switch_task` pops flags last. The second task starts
  with interrupts off and 0x202 in r15. Harmless once it prints or yields.
- **A slice that ends during boot** (`boot_slice`). `start_multitasking` sets `current_task`, its state and
  `scheduler_initialized` with interrupts on, and only then leaves the boot stack (task.c:190-194). If the 50th
  tick falls in between, `schedule` makes a real switch: it saves the boot stack as task 0's
  context, leaves task 0 READY and runs task 1. The context that `task_create` made for the shell task is
  gone. Ticks count from `enable_keyboard`'s first print on, which turns interrupts on for the
  rest of the boot. If the tick that ends the slice falls before `start_multitasking`'s scan instead, `schedule`'s first call
  marks task 0 RUNNING, boot goes on and starts task 1, and task 0 is never READY again; the run's instance has these
  behaviours too. Half a second from the first print is a slow keyboard controller or a slow
  emulator. `kernel` shows that ticks that come there but do not end a slice do no harm.
- **The sample files** (`fs_samples`). `welcome.txt` and `docs/manual.txt` are created and stay empty,
  because the lookup sees `/welcome.tx` and `/docs/manua`.
- **Empty directory names** (`fs_empty_name`). `mkdir` does not check the name: the entry is counted
  and free at once, and the next create takes it over.

What the models show besides; the repository says nothing of these cases, or no more than a help text
does (kernel.c:126, "Write data to file"):

- `cd` takes a file, and the current directory can be deleted; commands given there fail or
  act on what `find_entry` makes of the path, and `ParentsExist` holds nevertheless.
- A write or copy to a path of more than eleven characters can change another file: with `/aaaaaaaaaa` there,
  `write /aaaaaaaaaab` overwrites it, since the lookup cuts the path (filesystem.c:131).
- A relative path that is too long to join is dropped, and the command acts on the current
  directory (cmd.c:20); if `cd` went into a file, a write then overwrites that file. `OthersKeepTheirData` excepts both:
  its second half is about paths that the lookup reads whole.
- After a write that did not fit, `ls` and fsinfo's total data size go on showing the old size of a
  file whose blocks are gone (filesystem.c:525-543). `SizeMatchesChain` says so; `StatsAddUp` is about the counts.
- A line of blanks or quotes alone stays in the buffer behind a new prompt. Blanks change no argument
  of the next command, but `echo`, which is looked for at the start of the buffer (kernel.c:368), becomes an
  unknown command, as it is with a blank typed before it (`BlankRestHidesOnlyEcho`). An open quote joins what
  follows into one argument.
- `shift_pressed` can stay on with no shift key down: keyboards send the byte 2A behind an E0 around other keys,
  and `scancode_to_ascii` ignores the E0 (idt.c:20-31); and a release can be the byte that `enable_keyboard` reads (idt.c:193).
  It stays until the next release. No property says that flag and keys agree.
- A key typed inside the display of the counter is echoed at the top right, and the cursor then goes
  back to a place the line has outgrown. `EchoMatchesLine` excepts it until the next prompt.
- `enable_keyboard` can end with its message of failure although the keyboard is enabled, when the
  handler has taken the acknowledgement or the answer came late. The keyboard works then.

`PROJECT.json` has the lines, and under `hazards` those without a property yet.

## Proofs

| Theorem | Property | For every |
|---|---|---|
| `KernelProofs!TypeCorrect` | `TypeOK` | number of tasks, slice, boot length, nesting of interrupts and of sections |
| `KernelProofs!InServiceCorrect` | `InServiceMatches` | same |
| `KernelProofs!FlagCorrect` | `FlagMasksInterrupts` | same |
| `KernelProofs!KeyboardMutex` | `KeyboardNotReentered` | same |
| `KernelProofs!EoiCorrect` | `EoiEndsOwnInterrupt` | same |
| `KernelProofs!AwayKeyCorrect` | `AwayKeyMasksAll` | same |
| `KernelProofs!NobodyLost` | `NobodyIsLost` | same, with `ShortBoot` |
| `KernelProofs!CurrentExecutes` | `CurrentTaskExecutes` | same, with `ShortBoot` |
| `FileSystemProofs!OneOwnerCorrect` | `BlocksHaveOneOwner` | table, FAT and block size, set of paths, data |
| `DirectoryProofs!FileSystemTypeCorrect` | `TypeOK` | same |
| `DirectoryProofs!SizeMatchesChainCorrect` | `SizeMatchesChain` | same |
| `DirectoryProofs!SlotsMatchParentsCorrect` | `SlotsMatchParents` | same, with `NamedPaths` |
| `DirectoryProofs!StatsAddUpCorrect` | `StatsAddUp` | same, with `NamedPaths` |
| `TreeProofs!EntriesAreReachableCorrect` | `EntriesAreReachable` | same, with `PathsAreWhole`, `SamplesAmongPaths` |
| `TreeProofs!ImplementsTreeCorrect` | `ImplementsTree` | same, with `PathsAreWhole`, `SamplesAmongPaths` |
| `ShellProofs!ShellOneOwnerCorrect` | `BlocksHaveOneOwner` | table, FAT and block size, data, and every argument and limit of paths |
| `ShellProofs!ParentsExistCorrect` | `ParentsExist` | same |
| `ShellProofs!OthersKeepTheirDataCorrect` | `OthersKeepTheirData` | same; the property has its own premise on the path |
| `ShellProofs!WrittenIsReadCorrect` | `WrittenIsRead` | same |
| `ShellProofs!PathsFitCorrect` | `PathsFit` | same, with `ShortArgs` |
| `LineEditorProofs!TypeCorrect` | `TypeOK` | alphabet, keys, line limit, ring |
| `LineEditorProofs!HistoryCorrect` | `ImplementsHistory` | same |
| `ConsoleProofs!TypeCorrect` | `TypeOK` | screen, alphabet, line limit, tab, column of the display, outputs |
| `ConsoleProofs!CursorCorrect` | `CursorOnScreen` | same |
| `ConsoleProofs!EchoCorrect` | `EchoMatchesLine` | same |
| `KeyboardProofs!TypeCorrect` | `TypeOK` | number of attempts and of bytes held back |
| `KeyboardProofs!SuccessCorrect` | `SuccessIsTrue` | same |
| `KeyboardProofs!NoByteCorrect` | `NoByteIsForgotten` | same |

They rest on the assumptions the modules name (positive numbers, distinct model values).
The first six of `KernelProofs` hold whatever happens at boot, also in the behaviours of the
findings and after a context is lost. The last two have the premise `ShortBoot`: fewer ticks
come during boot than a slice has, and no task returns (kernel.c's two do not). Without its
first half the run `boot_slice` refutes them. `NamedPaths`, that no path ends in an empty
name, is the premise under which a table stays tidy: the run `fs_empty_name` shows an entry
with an empty name that is counted and free at once, and the commands can make one
(`mkdir docs///`), so these two theorems are about the file system and not about the shell.
`PathsAreWhole` is the premise of the tree: `find_entry` reads every path whole, so a path has at
most eleven characters and no empty name. Without it both theorems are false: `fs_samples` shows a file that
is created and has no path, `fs_empty_name` a directory that is reported as made and is not there. The sample calls' own paths are longer than that, so with `MAX_FILENAME` as it is `SamplesAmongPaths` leaves
the file system that begins with an empty root; with longer names it covers the samples too. TLC
evaluates both premises for `fs` (`WholePathsAreWhole`), whose paths they admit.
`ShortArgs`, that an absolute argument fits into `MAX_PATH`, is true of the code: an
argument is a part of a line of 79 characters, and `MAX_PATH` is 256. That joined paths may be longer than
the lookup reads (255 against 11, `ShellAssumption`) is what makes the second half of `OthersKeepTheirData`
independent of `normalize_path`'s limit.

**Kernel.** `IInv` adds to the properties: `Shaped`, what activation can lie where on a
stack; `NotYet`, that a task that does not exist has none; and `UnderTimer`. The last is the
reason why the EOI, which clears the highest-priority line whoever sends it, ends the right
interrupt: a keyboard handler that owes its EOI and does not execute, or shares the
controller with a timer interrupt, lies under a timer handler that owes one too. While that
one is owed the controller delivers nothing, so the timer handler sends its EOI first, when
its stack runs again. `InServiceMatches` alone is not inductive without it. Most steps replace
the executing activation and perhaps leave its stack; `Retop` and `RetopInv` prove once
what such a step does, and `ScheduleInv` reduces `schedule` to it.

**Scheduler.** `Phases` is preserved together with `IInv`. At boot it counts: `timer_ticks` plus the tick that
is requested or has a handler at its start is at most what has come, so below the slice, and no
handler calls `schedule` (`BootTick`); that two handlers cannot be at their start at once
is `InServiceMatches`. Meanwhile every created task lies as `task_create` left it. Afterwards
the executing stack is the current task's and the others are READY and `Resting`: their
context is on their own stack and as high as it was when saved. A switch keeps this because it saves
the caller where it stands and takes a task that rests (`ScheduleRun`); all else touches the
executing stack only.

**File system.** What leads to a block is an entry, through `first_block`, or another block, through
its link. `BlocksHaveOneOwner` counts both; `Good` says the same without counting (`Owned`: two
entries, two links, or an entry and a link never lead to one block, and what is led to is
allocated) and that `fs` has its fields and the FAT its values (`Shape`). It is preserved
because a call takes only free blocks, which nothing leads to (`FreeIsUnclaimed`), and frees
only what its own entry leads to. The latter is `Reached`: as the *least* set that is closed under links
it can be reasoned about without induction along the chain (`ReachedIsLeast`, `FreeChain`: if nothing in it
led to one of its blocks but the first, the set without that block would be closed too). The new blocks of a write are
linked in their order (`LinkedKeepsOwned`); that first-fit allocation yields a free block is the
existence of a least number in a set (`LeastExists`). `ShellProofs` adds that a command's steps
are calls of the file system on some path, which is all that `Good` asks.

**Directories.** `Chain` is a recursive function, so what is on a chain is proved through its prefixes:
`Walks` says what the first *n* blocks along the FAT are, that there is such a walk for every *n* is
again the least number that has none, and `ChainUntouched` is what every call needs: a chain none of
whose links changed is the same chain. `Resolve` is treated alike, with `Lookups`: what a path resolves
to is in use, and a slot of the directory before it holds it. On this stands `Consistent`: the
fields and links have their types and `Owned`; entry 0 is the root; a directory has a block and
all blocks of its chain are tables of children (`Directories`); an entry in use is in a slot of its
parent, which is a directory in use (`Parented`, of which `ParentsExist` is a half that is not
inductive: deleting has to know that a directory without children is nobody's parent); a file's chain is as long as its
size, or empty (`Sized`). `num_files` is only an upper bound there (`Counted`), because of the empty name.
`Sound` adds what the variables besides `fs` are. `Tidy` is what holds beyond that with `NamedPaths`: what a
directory lists is in use and its child, once; an entry that is not in use has no block;
`num_files` is exact; and no block that is taken is on nobody's chain (`NoLeakBut`, with the
blocks a call has just taken as its exception while it runs). `SlotsMatchParents` and `StatsAddUp` count, `Tidy` does
not: `TidyMatches` and `TidyAddsUp` go from one to the other through injections.

**Tree.** `TreeInv` is `Known` and `Told`. `Told` says that the history variable is `TreeOf(fs)`; `Known` adds
to `Sound` and `Tidy` that siblings have different names (`UniqueNames`) and that every entry
in use has a path (`AllReachable`). Counting entries by paths needs that two paths never lead
to one entry: `PathsAreApart` takes the shortest path that shares its entry with another and goes
up one directory on both sides (`ParentIsShorter`), which is also why no directory is
below itself. `FoundGrows` is what a create does to lookups: with one entry more whose parent was
there, every path finds what it found, and the new entry has exactly the path of its parent and its name
(`GrownFinds`). Deleting reads the same lemma backwards, as the old table is the new one grown by the
entry; that `FileTree` allows the removal is `DeletableIsRemovable`: a directory's slots are
empty exactly if no path goes through it. A write changes no lookup and one path's data
(`RewrittenTree`). With these each call is one step of `FileTree` (`CreatedInTree`, `DeletedInTree`, `WrittenInTree`,
`SampleInTree`), a failed one included.

**Shell.** `ShellSound` is `Consistent` and that the current directory and a pending write's path are paths. That
data is kept is proved of each call (`KeepsData`: same chain, same blocks): a write frees and takes only
what no other file has, and deleting clears one slot of a directory. `WrittenIsRead` follows a
write to its blocks (`Stored`) and back along the chain that `Linked` made of them. In `PathsFit`,
`normalize_path` drops what would be too long, and `Stripped` only shortens. For `OthersKeepTheirData` a path that is meant to
have at most eleven characters is not dropped, wherever the slash goes (`JoinedText`, `ShortIsNotDropped`), so
the call gets it; `PathCopy` keeps all its names (`ShortPathIsWhole`), and what `find_entry` finds for them is
reached name by name through slots, hence through `parent_index` where the two agree (`FoundHasPath`).

**Console.** Where a job may find the cursor depends on the statement it is at (`RowLimit`, `ColLimit`: one
row below the screen between the line feed and the scrolling, one column past it before the wrap) and, for a
key inside another job, on where that one had left it (`RowMax`, `ColMax`). The display sets the cursor itself, but
what it has saved has to be within the limits of the job below (`AtBorrowed`): that is why a row
restored first and a column second is enough. `Stacked` says which jobs can lie inside which,
so that there are at most three. `Showing` is the invariant behind `EchoMatchesLine`, by who
prints: for a key, `EchoPosition` says for each statement of `print_char` where the cursor is, if what follows goes to
a given position; `Pending` that only the last spaces of a tab are left to print; `Shown` that
the rest of the line is on the screen. For the display, the same holds of the cursor it has
saved, with it staying in the first row or reaching the second (`Displaying`). Positions are
numbers `row * width + col`, so that wrapping is an equation and scrolling a subtraction; that different cells have different
numbers (`PositionOrder`) and every number below the screen's end a cell (`PositionFound`) is arithmetic
with a constant width.

**History.** `FilledInOrder` relates position and count: until the ring is full the position is
the count. With it an entry that overwrites the oldest slot appends to the listing and takes its
head, and the slot before the position is the listing's last.

**Keyboard.** `AnswersAreGenuine`: an acknowledgement on its way, in the register, or, once the flush is
over, in the port's last byte can only be the keyboard's answer in this boot; the firmware's
last byte in the port is never read after a poll that saw a byte, unless a later one replaced it.

Model-checked only: liveness (`EveryTaskRuns`, `EnableReturns`, `KeyboardNeverStuck`), which the
prover cannot state with its `ENABLED`; `ArgumentsAreWords` and `BlankRestHidesOnlyEcho`, because
`parse_command` is a fold, whose result for every line needs induction over the line. The findings' properties are false and have no theorem.

## Not modelled

- Exceptions: `exception_handler` prints and halts. No modelled step faults; a lost context
  runs `Wild`, and what executes there is arbitrary memory.
- The text commands, `itoa`, wording. `itoa` changes its caller's buffer only, and every caller's is long enough.
- The PIT's divisor: one write at boot; afterwards it is an interrupt that may come at any time.
- The framebuffer: not in the Makefile, not linked.
- The boot loader, but for two facts (interrupts are off when `kernel_main` starts; page 0
  is mapped).
- Bytes of stack, so an overflow of a task's 4096 is out of sight; what lies behind
  `fs_buffer`, which blocks 126 and 127 overlap.

## Plan

Done in this order: `Pic`, `Tasks`, `Kernel` and its proofs; `FileTree`, `FileSystem` and the
refinement; `Line`, `LineEditor` and the history; `Keyboard`; `Console`; `Shell`; the proofs of the
history, the keyboard, block ownership and the scheduler; those of the directories, the
shell and the console; those of the tree. What is left: `Exceptions` as activations of `Kernel`, if a fault that the
code can meet is found, and the refinement for paths that are cut, which needs another abstract specification:
one where a path is the eleven characters that `find_entry` reads of it.
