------------------------------- MODULE Kernel -------------------------------
(***************************************************************************)
(* The kernel's control flow: kernel_main's boot sequence, the two tasks,  *)
(* the interrupt service routines of isr.asm and idt.c, and the scheduler  *)
(* and critical sections of Tasks, over the interrupt controllers of Pic.  *)
(*                                                                         *)
(* One action is one run of instructions that no interrupt can split in a  *)
(* way the rest of the kernel could see.                                   *)
(***************************************************************************)
EXTENDS Tasks, Pic

CONSTANTS
  SliceTicks,    \* timer interrupts between two calls of schedule (50)
  MaxBootTicks,  \* timer interrupts that may come before the tasks start
  MaxHeight,     \* bound: activations on one stack
  MaxSections    \* bound: critical sections entered inside one another

ASSUME KernelAssumption ==
  /\ SliceTicks \in Nat \ {0} /\ MaxBootTicks \in Nat
  /\ MaxHeight \in Nat \ {0} /\ MaxSections \in Nat \ {0}

VARIABLES
  timer_ticks,   \* modulo SliceTicks
  boot_ticks,    \* how many of the MaxBootTicks have come
  first_task     \* the local of start_multitasking

vars == <<taskVars, picVars, timer_ticks, boot_ticks, first_task>>

clockVars == <<timer_ticks, boot_ticks, first_task>>

Irq(kind) == IF kind = "timer" THEN TimerIrq ELSE KeyboardIrq

-----------------------------------------------------------------------------
(* The devices and the CPU's response to the controller.                   *)

TimerFires ==
  /\ cpu = Boot => boot_ticks < MaxBootTicks
  /\ boot_ticks' = IF cpu = Boot THEN boot_ticks + 1 ELSE boot_ticks
  /\ Raise(TimerIrq)
  /\ UNCHANGED <<taskVars, timer_ticks, first_task>>

KeyPressed ==
  /\ Raise(KeyboardIrq)
  /\ UNCHANGED <<taskVars, clockVars>>

\* Through an interrupt gate: the flag is cleared, the activation is pushed
\* on whatever stack executes.
Interrupt(kind) ==
  /\ cpu # Wild /\ iflag /\ Height(cpu) < MaxHeight
  /\ Deliverable(Irq(kind))
  /\ Acknowledge(Irq(kind))
  /\ iflag' = FALSE
  /\ stack' = [stack EXCEPT ![cpu] = Append(@, Frame(kind, "enter"))]
  /\ UNCHANGED <<tableVars, in_critical_section, cpu, clockVars>>

-----------------------------------------------------------------------------
(* Interrupt service routines.                                             *)

\* Mutant: the count never starts again.
NextTickUnwrapped == timer_ticks + 1

NextTick == (timer_ticks + 1) % SliceTicks

\* Mutant: the end-of-interrupt is sent before schedule is called.
TimerHandlerEarlyEoi ==
  /\ At("timer", "enter")
  /\ timer_ticks' = NextTick
  /\ pic_send_eoi
  /\ IF timer_ticks' = 0 /\ ~in_critical_section
       THEN Schedule("iret")
       ELSE ReturnTo("iret") /\ UNCHANGED <<tableVars, in_critical_section, iflag>>
  /\ UNCHANGED <<boot_ticks, first_task>>

\* timer_handler up to the end-of-interrupt: every SliceTicks-th tick calls
\* schedule, unless a critical section is on.
TimerHandler ==
  /\ At("timer", "enter")
  /\ timer_ticks' = NextTick
  /\ IF timer_ticks' = 0 /\ ~in_critical_section
       THEN Schedule("eoi")
       ELSE ReturnTo("eoi") /\ UNCHANGED <<tableVars, in_critical_section, iflag>>
  /\ UNCHANGED <<picVars, boot_ticks, first_task>>

\* Mutant: such a key returns without the end-of-interrupt.
KeyIgnoredNoEoi ==
  /\ At("keyboard", "enter")
  /\ ReturnTo("iret")
  /\ UNCHANGED <<tableVars, in_critical_section, iflag, picVars, clockVars>>

\* A scancode that stands for no character: only the end-of-interrupt is left.
KeyIgnored ==
  /\ At("keyboard", "enter")
  /\ ReturnTo("eoi")
  /\ UNCHANGED <<tableVars, in_critical_section, iflag, picVars, clockVars>>

\* Mutant: the end-of-interrupt is sent before the command runs.
KeyTakenEarlyEoi ==
  /\ At("keyboard", "enter")
  /\ enter_critical_section
  /\ pic_send_eoi
  /\ stack' = WithTop([GoTo("work") EXCEPT !.depth = 1])
  /\ UNCHANGED <<tableVars, cpu, clockVars>>

\* Any other: the line is edited and, on Enter, the command runs, all of it
\* inside the handler's critical section.
KeyTaken ==
  /\ At("keyboard", "enter")
  /\ enter_critical_section
  /\ stack' = WithTop([GoTo("work") EXCEPT !.depth = 1])
  /\ UNCHANGED <<tableVars, cpu, picVars, clockVars>>

EndOfInterrupt(kind) ==
  /\ At(kind, "eoi")
  /\ pic_send_eoi
  /\ ReturnTo("iret")
  /\ UNCHANGED <<tableVars, in_critical_section, iflag, clockVars>>

\* The flags the interrupt found had IF set.
Iret(kind) ==
  /\ At(kind, "iret")
  /\ iflag' = TRUE
  /\ stack' = [stack EXCEPT ![cpu] = SubSeq(@, 1, Len(@) - 1)]
  /\ UNCHANGED <<tableVars, in_critical_section, cpu, picVars, clockVars>>

-----------------------------------------------------------------------------
(* Critical sections, entered by a task's code or by the keyboard handler's:*)
(* print_string's and clear_screen's inside the caller's own.              *)

InSection == At("base", "body") \/ At("keyboard", "work")

EnterSection ==
  /\ InSection /\ TopOf(cpu).depth < MaxSections
  /\ enter_critical_section
  /\ stack' = WithTop([TopOf(cpu) EXCEPT !.depth = @ + 1])
  /\ UNCHANGED <<tableVars, cpu, picVars, clockVars>>

\* Leaving the outermost one ends the keyboard handler's work.
LeaveSection ==
  /\ InSection /\ TopOf(cpu).depth > 0
  /\ exit_critical_section
  /\ stack' = WithTop([TopOf(cpu) EXCEPT
                         !.depth = @ - 1,
                         !.pc = IF @ = "work" /\ TopOf(cpu).depth = 1
                                  THEN "eoi" ELSE @])
  /\ UNCHANGED <<tableVars, cpu, picVars, clockVars>>

-----------------------------------------------------------------------------
(* Tasks.                                                                  *)

\* task_wrapper calls the entry function.
TaskEntry ==
  /\ At("base", "entry")
  /\ ReturnTo("body")
  /\ UNCHANGED <<tableVars, in_critical_section, iflag, picVars, clockVars>>

\* Through a null current_task the write goes to address 4.
SetCurrentState(from, to) ==
  state' = IF current_task # Null /\ state[current_task] \in from
             THEN [state EXCEPT ![current_task] = to] ELSE state

\* task_yield, up to its call of schedule: interrupts may come in between.
TaskYield ==
  /\ At("base", "body") /\ TopOf(cpu).depth = 0
  /\ SetCurrentState({"RUNNING"}, "READY")
  /\ ReturnTo("yield")
  /\ UNCHANGED <<num_tasks, rsp, current_task, scheduler_initialized,
                 in_critical_section, iflag, picVars, clockVars>>

YieldSchedule ==
  /\ At("base", "yield")
  /\ Schedule("body")
  /\ UNCHANGED <<picVars, clockVars>>

\* The entry function returned: task_wrapper blocks the task for good.
TaskReturn ==
  /\ cpu \in Returning
  /\ At("base", "body") /\ TopOf(cpu).depth = 0
  /\ SetCurrentState({"READY", "RUNNING", "BLOCKED"}, "BLOCKED")
  /\ ReturnTo("exit")
  /\ UNCHANGED <<num_tasks, rsp, current_task, scheduler_initialized,
                 in_critical_section, iflag, picVars, clockVars>>

\* task_wrapper's last loop; its hlt only waits.
ExitSchedule ==
  /\ At("base", "exit")
  /\ Schedule("exit")
  /\ UNCHANGED <<picVars, clockVars>>

\* A context comes back out of simple_switch_task: schedule's last sti.  A
\* task that has returned is never READY again, so it was task_yield's call.
SwitchedIn(kind) ==
  /\ At(kind, "switched")
  /\ iflag' = TRUE
  /\ ReturnTo(IF kind = "timer" THEN "eoi" ELSE "body")
  /\ UNCHANGED <<tableVars, in_critical_section, picVars, clockVars>>

-----------------------------------------------------------------------------
(* kernel_main.  idt_init, pic_remap, pit_init and fs_init run with the     *)
(* interrupt flag clear and leave this module's state as Init has it.      *)

BootStep(from, to) == At("base", from) /\ ReturnTo(to)

\* enable_keyboard prints on every path it takes, and print_string's critical
\* section leaves the interrupt flag set: boot goes on with interrupts on.
EnableKeyboard ==
  /\ BootStep("reset", "keyboard")
  /\ exit_critical_section
  /\ UNCHANGED <<tableVars, picVars, clockVars>>

InitTasks ==
  /\ BootStep("keyboard", "create")
  /\ task_init
  /\ UNCHANGED <<iflag, picVars, clockVars>>

CreateTask ==
  /\ At("base", "create") /\ num_tasks < NTasks
  /\ task_create(WithTop(GoTo(IF num_tasks + 1 = NTasks THEN "delay"
                                                       ELSE "create")))
  /\ UNCHANGED <<iflag, cpu, picVars, clockVars>>

BootSti ==
  /\ BootStep("delay", "scan")
  /\ iflag' = TRUE
  /\ UNCHANGED <<tableVars, in_critical_section, picVars, clockVars>>

\* start_multitasking, statement by statement: an interrupt may call schedule
\* between any two.  Without a READY task it returns and kernel_main halts.
StartScan ==
  /\ At("base", "scan")
  /\ IF ReadyTasks = {}
       THEN /\ stack' = WithTop(GoTo("halted"))
            /\ iflag' = FALSE
            /\ UNCHANGED first_task
       ELSE /\ stack' = WithTop(GoTo("current"))
            /\ \E t \in ReadyTasks :
                 (\A u \in ReadyTasks : t <= u) /\ first_task' = t
            /\ UNCHANGED iflag
  /\ UNCHANGED <<tableVars, in_critical_section, cpu, picVars,
                 timer_ticks, boot_ticks>>

StartCurrent ==
  /\ BootStep("current", "running")
  /\ current_task' = first_task
  /\ UNCHANGED <<num_tasks, state, rsp, scheduler_initialized,
                 in_critical_section, iflag, picVars, clockVars>>

StartRunning ==
  /\ BootStep("running", "initialized")
  /\ SetCurrentState({"READY", "RUNNING", "BLOCKED"}, "RUNNING")
  /\ UNCHANGED <<num_tasks, rsp, current_task, scheduler_initialized,
                 in_critical_section, iflag, picVars, clockVars>>

StartInitialized ==
  /\ BootStep("initialized", "jump")
  /\ scheduler_initialized' = TRUE
  /\ UNCHANGED <<num_tasks, state, rsp, current_task, in_critical_section, iflag,
                 picVars, clockVars>>

\* RSP leaves the boot stack and the pops run.
StartJump ==
  /\ At("base", "jump")
  /\ IF current_task = Null THEN cpu' = Wild /\ UNCHANGED iflag
                            ELSE SwitchTo(rsp[current_task], "start")
  /\ stack' = [stack EXCEPT ![Boot] = <<>>]
  /\ boot_ticks' = 0
  /\ UNCHANGED <<tableVars, in_critical_section, picVars, timer_ticks,
                 first_task>>

-----------------------------------------------------------------------------
Init ==
  /\ PicInit
  /\ num_tasks = 0 /\ current_task = Null
  /\ scheduler_initialized = FALSE /\ in_critical_section = FALSE
  /\ state = [t \in TaskIds |-> "READY"]
  /\ rsp = [t \in TaskIds |-> Saved(t, "create", 0)]
  /\ iflag = FALSE /\ cpu = Boot
  /\ stack = [c \in Stacks |->
               IF c = Boot THEN <<Frame("base", "reset")>> ELSE <<>>]
  /\ timer_ticks = 0 /\ boot_ticks = 0 /\ first_task = 0

Devices == TimerFires \/ KeyPressed

Handler ==
  \/ TimerHandler \/ KeyIgnored \/ KeyTaken
  \/ \E kind \in {"timer", "keyboard"} : EndOfInterrupt(kind) \/ Iret(kind)

Section == EnterSection \/ LeaveSection

Task ==
  \/ TaskEntry \/ TaskYield \/ YieldSchedule \/ TaskReturn \/ ExitSchedule
  \/ \E kind \in {"base", "timer"} : SwitchedIn(kind)

Booting ==
  \/ EnableKeyboard \/ InitTasks \/ CreateTask \/ BootSti \/ StartScan
  \/ StartCurrent \/ StartRunning \/ StartInitialized \/ StartJump

Next ==
  \/ Devices
  \/ \E kind \in {"timer", "keyboard"} : Interrupt(kind)
  \/ Handler \/ Section \/ Task \/ Booting

Spec == Init /\ [][Next]_vars

-----------------------------------------------------------------------------
(* Fairness.  The CPU goes on executing.  However many interrupts come in    *)
(* between, the executing task gets to its next task_yield (shell_task calls *)
(* it in every turn of its loop, background_task every 2500), critical      *)
(* sections and handlers, which are straight-line code, get to their end,   *)
(* and interrupts do not follow one another so closely that the iretq of    *)
(* one is never reached before the next.                                   *)

Leave(kind) == TopOf(cpu).kind = kind /\ TopOf(cpu).depth = 1 /\ LeaveSection

TaskGoesOn ==
  \/ TaskEntry \/ YieldSchedule \/ ExitSchedule \/ SwitchedIn("base")
  \/ Leave("base") \/ Booting

HandlerGoesOn(h) ==
  /\ cpu # Wild /\ Height(cpu) = h
  /\ Handler \/ SwitchedIn("timer") \/ Leave("keyboard")

Fairness ==
  /\ WF_vars(Handler \/ Section \/ Task \/ Booting)
  /\ SF_vars(TaskYield)
  /\ SF_vars(TaskGoesOn)
  /\ \A h \in 2 .. MaxHeight : SF_vars(HandlerGoesOn(h))

FairSpec == Spec /\ Fairness

-----------------------------------------------------------------------------
(* Properties.                                                             *)

Points ==
  {"reset", "keyboard", "create", "delay", "scan", "current", "running",
   "initialized", "jump", "halted", "entry", "body", "yield", "exit",
   "switched", "enter", "work", "eoi", "iret"}

Frames == [kind : Kinds, pc : Points, depth : 0 .. MaxSections]

Contexts == [stack : Stacks, layout : {"create", "switch"}, height : Nat]

\* The types of the variables; only a task whose context was lost, or that
\* has left the boot stack, has no activation.
TypeOK ==
  /\ PicTypeOK
  /\ num_tasks \in 0 .. NTasks
  /\ state \in [TaskIds -> {"READY", "RUNNING", "BLOCKED"}]
  /\ rsp \in [TaskIds -> Contexts]
  /\ current_task \in TaskIds \cup {Null}
  /\ scheduler_initialized \in BOOLEAN /\ in_critical_section \in BOOLEAN
  /\ iflag \in BOOLEAN
  /\ cpu \in Stacks \cup {Wild}
  /\ stack \in [Stacks -> Seq(Frames)]
  /\ cpu # Wild => stack[cpu] # <<>>
  /\ timer_ticks \in 0 .. SliceTicks - 1
  /\ boot_ticks \in Nat /\ first_task \in TaskIds

\* The i-th activation of c is a handler of this line whose end-of-interrupt
\* is still to be sent.
Pending(c, i, irq) ==
  /\ stack[c][i].kind # "base" /\ stack[c][i].pc # "iret"
  /\ Irq(stack[c][i].kind) = irq

\* A line is in service exactly while one handler, on one stack, owes its
\* end-of-interrupt: timer_handler calls schedule before pic_send_eoi, so the
\* handler that owes it may be on a stack that does not execute.
InServiceMatches ==
  \A irq \in Irqs :
    /\ irq \in isr <=> \E c \in Stacks : \E i \in 1 .. Height(c) :
                         Pending(c, i, irq)
    /\ \A c, d \in Stacks : \A i \in 1 .. Height(c), j \in 1 .. Height(d) :
         Pending(c, i, irq) /\ Pending(d, j, irq) => c = d /\ i = j

\* At most one keyboard handler is at work, on any stack, although it runs
\* with interrupts on and can be switched away from: so no command runs in
\* the middle of another one, and the shell's and the file system's state has
\* one writer.
KeyboardNotReentered ==
  \A c, d \in Stacks : \A i \in 1 .. Height(c), j \in 1 .. Height(d) :
    /\ stack[c][i].kind = "keyboard" /\ stack[c][i].pc \in {"enter", "work"}
    /\ stack[d][j].kind = "keyboard" /\ stack[d][j].pc \in {"enter", "work"}
    => c = d /\ i = j

\* While a keyboard handler that was switched away from waits for its stack to
\* run again, no interrupt is accepted: what the other tasks do meanwhile is not
\* interrupted, the background display in the middle of a key included.
AwayKeyMasksAll ==
  \A c \in Stacks \ {cpu} : \A i \in 1 .. Height(c) :
    Pending(c, i, KeyboardIrq) => \A irq \in Irqs : ~Deliverable(irq)

\* The EOI of pic_send_eoi names no line; it nevertheless always ends the
\* interrupt whose handler sends it.
EoiEndsOwnInterrupt ==
  [][\A kind \in {"timer", "keyboard"} :
       EndOfInterrupt(kind) => isr' = isr \ {Irq(kind)} /\ isr' # isr]_vars

\* While in_critical_section is set no interrupt is accepted, and it is the
\* executing activation that set it: timer_handler's test of the flag and
\* schedule's guard never leave a handler or another task with it on.
FlagMasksInterrupts ==
  in_critical_section => /\ ~iflag
                         /\ cpu # Wild /\ TopOf(cpu).depth > 0

\* Once the tasks run, every created task is the current one, or READY with a
\* context on its own stack that simple_switch_task can resume, or returned.
NobodyIsLost ==
  cpu # Boot =>
    \A t \in TaskIds :
      \/ t = current_task
      \/ state[t] = "READY" /\ rsp[t].stack = t /\ Resumable(rsp[t], "switch")
      \/ state[t] = "BLOCKED" /\ t \in Returning

\* Once the tasks run, the stack that executes is current_task's, and no
\* other task is RUNNING.
CurrentTaskExecutes ==
  cpu # Boot => /\ cpu = current_task
                /\ \A t \in TaskIds : state[t] = "RUNNING" => t = cpu

\* Every task that does not return gets the CPU again and again.
EveryTaskRuns == \A t \in TaskIds \ Returning : []<>(cpu = t)

\* What task.h offers as critical sections: between entering one and leaving
\* it, the activation is neither interrupted nor switched away from.
SectionsAreNotInterrupted ==
  \A c \in Stacks : \A i \in 1 .. Height(c) :
    stack[c][i].depth > 0 => c = cpu /\ i = Height(c)

\* A new task starts with the flags task_create pushed for it, 0x202:
\* interrupts on.
TaskStartsInterruptible == At("base", "entry") => iflag
=============================================================================
