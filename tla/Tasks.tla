------------------------------- MODULE Tasks -------------------------------
(***************************************************************************)
(* task.c and simple_switch_task (isr.asm): the task table, the round      *)
(* robin scheduler, the saved contexts and the critical-section flag.      *)
(*                                                                         *)
(* A context is a stack of activations, the last one executing when the    *)
(* context owns the CPU.  `cpu' is the stack RSP points into; the kernel   *)
(* itself only knows current_task, and the two agree only if the scheduler *)
(* keeps them so.                                                          *)
(***************************************************************************)
EXTENDS Integers, Sequences

CONSTANTS
  NTasks,     \* tasks kernel_main creates (2; task.h allows MAX_TASKS)
  Returning,  \* the tasks whose entry function may return
  Boot,       \* the stack boot.asm sets up, on which kernel_main runs
  Null,       \* current_task = 0
  Wild        \* the CPU runs on a context that was not saved there

TaskIds == 0 .. NTasks - 1
Stacks  == TaskIds \cup {Boot}

ASSUME TasksAssumption ==
  /\ NTasks \in Nat \ {0}
  /\ Returning \subseteq TaskIds
  /\ Boot \notin TaskIds /\ Null \notin TaskIds /\ Wild \notin TaskIds
  /\ Wild # Boot

VARIABLES
  num_tasks, state, rsp, current_task, scheduler_initialized,
  in_critical_section,
  iflag,      \* the interrupt flag of RFLAGS
  cpu,        \* the stack that executes
  stack       \* the activations of every stack

tableVars == <<num_tasks, state, rsp, current_task, scheduler_initialized>>
cpuVars   == <<in_critical_section, iflag, cpu, stack>>
taskVars  == <<tableVars, cpuVars>>

-----------------------------------------------------------------------------
(* Activations.  `depth' counts the critical sections the activation has    *)
(* entered and not left.                                                   *)

Kinds == {"base", "timer", "keyboard"}

Frame(kind, pc) == [kind |-> kind, pc |-> pc, depth |-> 0]

Height(c) == Len(stack[c])
TopOf(c)  == stack[c][Height(c)]

\* The executing activation is of this kind and has reached this point.
At(kind, pc) == cpu # Wild /\ TopOf(cpu).kind = kind /\ TopOf(cpu).pc = pc

\* The stacks once the executing activation has become f.
WithTop(f) == [stack EXCEPT ![cpu] = [@ EXCEPT ![Len(@)] = f]]

GoTo(pc) == [TopOf(cpu) EXCEPT !.pc = pc]

-----------------------------------------------------------------------------
(* Saved contexts.  rsp[t] is the stack it points into, how many            *)
(* activations that stack had, and which routine pushed the words there.   *)
(* A word is named by the register it was pushed for, from the lowest      *)
(* address up.                                                             *)

Saved(c, layout, h) == [stack |-> c, layout |-> layout, height |-> h]

Callee == <<"r15", "r14", "r13", "r12", "rbx", "rbp">>

\* task_create pushes the flags last, simple_switch_task pushes them first.
Pushed(layout) ==
  IF layout = "create" THEN <<"flags">> \o Callee ELSE Callee \o <<"flags">>

\* Mutant: simple_switch_task pops rbp and rbx in the order it pushed them.
PoppedInPushOrder(routine) ==
  IF routine = "start" THEN <<"flags">> \o Callee
  ELSE <<"r15", "r14", "r13", "r12", "rbp", "rbx", "flags">>

\* start_multitasking pops the flags first, simple_switch_task pops them last.
Popped(routine) ==
  IF routine = "start" THEN <<"flags">> \o Callee ELSE Callee \o <<"flags">>

\* The word that lands in register r.
Lands(r, layout, routine) ==
  LET i == CHOOSE j \in 1 .. 7 : Popped(routine)[j] = r
  IN  Pushed(layout)[i]

\* The interrupt flag after the pops: the words of a new context are zero but
\* for its flags, 0x202; a switched-out one saved its flags after cli.
RestoredIF(layout, routine) ==
  layout = "create" /\ Lands("flags", layout, routine) = "flags"

\* There is a context, the pops leave it a usable frame pointer (a new one has
\* none to lose), and its words are still those that were saved.
Resumable(s, routine) ==
  /\ s.layout = "create" \/ Lands("rbp", s.layout, routine) = "rbp"
  /\ s.height > 0 /\ s.height = Height(s.stack)
  /\ TopOf(s.stack).pc = IF s.layout = "create" THEN "entry" ELSE "switched"

-----------------------------------------------------------------------------
(* Critical sections: one flag, not a count.                               *)

\* Mutant: without its cli.
EnterWithoutCli == in_critical_section' = TRUE /\ UNCHANGED iflag

enter_critical_section ==
  /\ iflag' = FALSE
  /\ in_critical_section' = TRUE

exit_critical_section ==
  /\ in_critical_section' = FALSE
  /\ iflag' = TRUE

-----------------------------------------------------------------------------
(* task_init and task_create.                                              *)

task_init ==
  /\ num_tasks' = 0
  /\ current_task' = Null
  /\ scheduler_initialized' = FALSE
  /\ in_critical_section' = FALSE
  /\ state' = [t \in TaskIds |-> "BLOCKED"]
  /\ UNCHANGED rsp

\* The next slot of the table becomes a READY task whose stack holds one
\* activation of task_wrapper.  num_tasks is incremented last, so nothing of
\* this shows before the whole of it does.
task_create(stacks) ==
  /\ state' = [state EXCEPT ![num_tasks] = "READY"]
  /\ rsp' = [rsp EXCEPT ![num_tasks] = Saved(num_tasks, "create", 1)]
  /\ stack' = [stacks EXCEPT ![num_tasks] = <<Frame("base", "entry")>>]
  /\ num_tasks' = num_tasks + 1
  /\ UNCHANGED <<current_task, scheduler_initialized, in_critical_section>>

-----------------------------------------------------------------------------
(* schedule().  Every call names the point its caller goes on at.          *)

ReadyTasks == {t \in 0 .. num_tasks - 1 : state[t] = "READY"}

\* Mutant: the scan starts at the first task, not after the current one.
ScanFromFirst(t) == t

\* How far the scan from the task after current_task is when it meets t.
ScanDistance(t) == (t - current_task - 1) % num_tasks

\* t is the task the scan stops at.
NextReady(t) ==
  /\ t \in ReadyTasks
  /\ \A u \in ReadyTasks : ScanDistance(t) <= ScanDistance(u)

ReturnTo(pc) == stack' = WithTop(GoTo(pc)) /\ UNCHANGED cpu

\* The early returns: no interrupt flag is touched.
ScheduleRefuses(pc) ==
  /\ num_tasks = 0 \/ in_critical_section
  /\ ReturnTo(pc)
  /\ UNCHANGED <<tableVars, in_critical_section, iflag>>

\* The first call marks the first READY task as the one that runs, and goes
\* on running the caller.
ScheduleFirst(pc) ==
  /\ ~scheduler_initialized
  /\ scheduler_initialized' = TRUE
  /\ IF ReadyTasks = {}
       THEN UNCHANGED <<current_task, state>>
       ELSE \E t \in ReadyTasks :
              /\ \A u \in ReadyTasks : t <= u
              /\ current_task' = t
              /\ state' = [state EXCEPT ![t] = "RUNNING"]
  /\ ReturnTo(pc)
  /\ iflag' = TRUE
  /\ UNCHANGED <<num_tasks, rsp, in_critical_section>>

\* Nothing else is READY, or the scan came round to the caller itself, whose
\* state stays READY when it is task_yield that calls.
ScheduleStays(pc) ==
  /\ scheduler_initialized /\ current_task # Null
  /\ \/ ReadyTasks = {} /\ state[current_task] = "RUNNING"
     \/ NextReady(current_task)
  /\ ReturnTo(pc)
  /\ iflag' = TRUE
  /\ UNCHANGED <<tableVars, in_critical_section>>

\* Nothing is READY and the caller is blocked: the kernel forgets it.
ScheduleNone(pc) ==
  /\ scheduler_initialized /\ current_task # Null
  /\ ReadyTasks = {} /\ state[current_task] # "RUNNING"
  /\ current_task' = Null
  /\ ReturnTo(pc)
  /\ iflag' = TRUE
  /\ UNCHANGED <<num_tasks, state, rsp, scheduler_initialized,
                 in_critical_section>>

\* RSP is loaded from s.  What a context finds that was not saved for it, or
\* that has moved since, the kernel does not define: the CPU is lost.
SwitchTo(s, routine) ==
  IF Resumable(s, routine)
    THEN cpu' = s.stack /\ iflag' = RestoredIF(s.layout, routine)
    ELSE cpu' = Wild /\ UNCHANGED iflag

\* Mutant: the task switched away from stays RUNNING.
SwitchStatesNextOnly(next) == [state EXCEPT ![next] = "RUNNING"]

\* A running task becomes READY again, a yielding or blocked one stays as it is.
SwitchStates(next) ==
  [state EXCEPT ![current_task] = IF @ = "RUNNING" THEN "READY" ELSE @,
                ![next] = "RUNNING"]

\* The caller's context goes to current_task's slot, whichever stack it is on,
\* and the next task's comes back.
ScheduleSwitch ==
  /\ scheduler_initialized /\ current_task # Null
  /\ \E next \in ReadyTasks \ {current_task} :
       /\ NextReady(next)
       /\ state' = SwitchStates(next)
       /\ current_task' = next
       /\ rsp' = [rsp EXCEPT
                     ![current_task] = Saved(cpu, "switch", Height(cpu))]
       /\ stack' = WithTop(GoTo("switched"))
       /\ SwitchTo(rsp[next], "switch")
  /\ UNCHANGED <<num_tasks, scheduler_initialized, in_critical_section>>

\* current_task->id is read through the null pointer, and page 0 is mapped: the
\* scan starts wherever the word at address 0 says.  From inside the table it
\* finds nothing (no task can be READY when the last one is blocked), from
\* outside it takes for a task what is none.
ScheduleNull(pc) ==
  /\ scheduler_initialized /\ current_task = Null
  /\ stack' = WithTop(GoTo(pc))
  /\ \/ iflag' = TRUE /\ UNCHANGED cpu
     \/ cpu' = Wild /\ UNCHANGED iflag
  /\ UNCHANGED <<tableVars, in_critical_section>>

Schedule(pc) ==
  \/ ScheduleRefuses(pc)
  \/ /\ num_tasks > 0 /\ ~in_critical_section
     /\ \/ ScheduleFirst(pc)
        \/ ScheduleStays(pc)
        \/ ScheduleNone(pc)
        \/ ScheduleSwitch
        \/ ScheduleNull(pc)
=============================================================================
