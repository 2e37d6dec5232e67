---------------------------- MODULE KernelProofs ----------------------------
(***************************************************************************)
(* Safety of the kernel's control flow, for every number of tasks, length  *)
(* of a time slice and of the boot, depth of interrupts and of sections.   *)
(***************************************************************************)
EXTENDS Kernel, SequenceTheorems, TLAPS

-----------------------------------------------------------------------------
(* The inductive invariant.                                                *)

Early == {"reset", "keyboard"}

BootPoints == Early \cup {"create", "delay", "scan", "current", "running",
                          "initialized", "jump", "halted"}

TaskPoints == {"entry", "body", "yield", "exit", "switched"}

\* What an activation of each kind can be, and where it lies on its stack: the
\* oldest is kernel_main or task_wrapper, the others are interrupts.
Fits(f, c, i) ==
  /\ f.kind = "base" <=> i = 1
  /\ f.kind = "base" => f.pc \in IF c = Boot THEN BootPoints ELSE TaskPoints
  /\ f.kind = "timer" => f.pc \in {"enter", "switched", "eoi", "iret"}
  /\ f.kind = "keyboard" => f.pc \in {"enter", "work", "eoi", "iret"}
  /\ f.depth > 0 => f.pc \in {"body", "work"}
  /\ f.pc = "work" => f.depth > 0

Shaped == \A c \in Stacks : \A i \in 1 .. Height(c) : Fits(stack[c][i], c, i)

\* A task that is not created yet has no activation, and none is created before
\* task_init has run.
NotYet ==
  /\ \A t \in TaskIds : t >= num_tasks => stack[t] = <<>>
  /\ stack[Boot] # <<>> /\ stack[Boot][1].pc \in Early => num_tasks = 0

\* Why the non-specific EOI is enough: a keyboard handler that is not on the
\* executing stack, or that shares the controller with a timer interrupt, lies
\* under the timer handler that owes its end-of-interrupt.
UnderTimer ==
  \A c \in Stacks : \A i \in 1 .. Height(c) :
    /\ Pending(c, i, KeyboardIrq)
    /\ c # cpu \/ TimerIrq \in isr
    => Pending(c, Height(c), TimerIrq)

IInv ==
  /\ TypeOK /\ Shaped /\ NotYet
  /\ InServiceMatches /\ UnderTimer
  /\ FlagMasksInterrupts

-----------------------------------------------------------------------------
(* Steps that only replace the executing activation.                       *)

\* What WithTop does to the stacks.
LEMMA WithTopValue ==
  ASSUME TypeOK, cpu # Wild, NEW f \in Frames
  PROVE  /\ WithTop(f) \in [Stacks -> Seq(Frames)]
         /\ Height(cpu) \in Nat \ {0}
         /\ \A c \in Stacks :
              /\ Len(WithTop(f)[c]) = Height(c)
              /\ \A i \in 1 .. Height(c) :
                   WithTop(f)[c][i] = IF c = cpu /\ i = Height(c) THEN f
                                      ELSE stack[c][i]
<1>1. cpu \in Stacks /\ stack \in [Stacks -> Seq(Frames)]
  BY DEF TypeOK
<1>2. stack[cpu] \in Seq(Frames) /\ stack[cpu] # <<>>
  BY <1>1 DEF TypeOK
<1>3. Len(stack[cpu]) \in Nat \ {0} /\ Len(stack[cpu]) \in 1 .. Len(stack[cpu])
  BY <1>2
<1> DEFINE s == [stack[cpu] EXCEPT ![Len(stack[cpu])] = f]
<1>4. /\ s \in Seq(Frames) /\ Len(s) = Len(stack[cpu])
      /\ \A i \in 1 .. Len(stack[cpu]) :
           s[i] = IF i = Len(stack[cpu]) THEN f ELSE stack[cpu][i]
  BY <1>2, <1>3, ExceptSeq
<1>5. WithTop(f) = [stack EXCEPT ![cpu] = s]
  BY DEF WithTop
<1> HIDE DEF s
<1>6. \A c \in Stacks : WithTop(f)[c] = IF c = cpu THEN s ELSE stack[c]
  BY <1>1, <1>5
<1> QED
  BY <1>1, <1>2, <1>3, <1>4, <1>5, <1>6 DEF Height

LEMMA WithTopFacts ==
  ASSUME TypeOK, cpu # Wild, NEW f \in Frames, stack' = WithTop(f)
  PROVE  /\ stack' \in [Stacks -> Seq(Frames)]
         /\ Height(cpu) \in Nat \ {0}
         /\ \A c \in Stacks :
              /\ Height(c)' = Height(c)
              /\ \A i \in 1 .. Height(c) :
                   stack'[c][i] = IF c = cpu /\ i = Height(c) THEN f
                                  ELSE stack[c][i]
BY WithTopValue DEF Height

\* What a step that replaces the executing activation, and may leave its stack
\* for another, does to the invariant's conjuncts about the stacks.
LEMMA Retop ==
  ASSUME TypeOK, Shaped, NotYet, InServiceMatches, UnderTimer, cpu # Wild,
         NEW f \in Frames, stack' = WithTop(f),
         Fits(f, cpu, Height(cpu)),
         f.kind = TopOf(cpu).kind,
         f.pc = "iret" <=> TopOf(cpu).pc = "iret",
         f.pc \in Early => TopOf(cpu).pc \in Early,
         num_tasks' = num_tasks, isr' = isr,
         cpu' = cpu \/ f.kind = "base" \/ (f.kind = "timer" /\ f.pc # "iret")
  PROVE  Shaped' /\ NotYet' /\ InServiceMatches' /\ UnderTimer'
<1> DEFINE h == Height(cpu)
<1>1. /\ cpu \in Stacks /\ h \in Nat \ {0} /\ h \in 1 .. h
      /\ stack \in [Stacks -> Seq(Frames)] /\ stack' \in [Stacks -> Seq(Frames)]
  BY WithTopFacts DEF TypeOK
<1>2. \A c \in Stacks :
        /\ Height(c)' = Height(c) /\ Height(c) \in Nat
        /\ \A i \in 1 .. Height(c) :
             stack'[c][i] = IF c = cpu /\ i = h THEN f ELSE stack[c][i]
  BY <1>1, WithTopFacts DEF Height
<1>3. TopOf(cpu) = stack[cpu][h]
  BY DEF TopOf
<1> HIDE DEF h
<1>4. \A c \in Stacks : \A i \in 1 .. Height(c) : \A irq \in Irqs :
        Pending(c, i, irq)' <=> Pending(c, i, irq)
  BY <1>1, <1>2, <1>3 DEF Pending, Irq
<1>5. Shaped'
  BY <1>1, <1>2 DEF Shaped, Fits, h
<1>6. NotYet'
  <2>1. \A c \in Stacks : stack[c] = <<>> <=> stack'[c] = <<>>
    BY <1>1, <1>2, EmptySeq DEF Height
  <2>2. ASSUME stack'[Boot] # <<>>, stack'[Boot][1].pc \in Early
        PROVE  stack[Boot] # <<>> /\ stack[Boot][1].pc \in Early
    <3>1. Boot \in Stacks /\ stack[Boot] # <<>> /\ 1 \in 1 .. Height(Boot)
      BY <1>1, <2>1, <2>2, EmptySeq DEF Stacks, Height
    <3>2. stack'[Boot][1] = IF Boot = cpu /\ 1 = h THEN f ELSE stack[Boot][1]
      BY <1>2, <3>1
    <3> QED
      BY <1>3, <2>2, <3>1, <3>2
  <2> QED
    BY <2>1, <2>2 DEF NotYet, Stacks
<1>7. InServiceMatches'
  BY <1>2, <1>4 DEF InServiceMatches
<1>8. UnderTimer'
  <2> SUFFICES ASSUME NEW c \in Stacks, NEW i \in 1 .. Height(c),
                      Pending(c, i, KeyboardIrq), c # cpu' \/ TimerIrq \in isr
               PROVE  Pending(c, Height(c), TimerIrq)'
    BY <1>2, <1>4 DEF UnderTimer, Irqs
  <2>1. Height(c) \in 1 .. Height(c)
    BY <1>2
  <2>2. CASE c # cpu \/ TimerIrq \in isr
    BY <1>2, <1>4, <2>1, <2>2 DEF UnderTimer, Irqs
  <2>3. CASE c = cpu /\ TimerIrq \notin isr
    <3>1. c = cpu /\ cpu' # cpu
      BY <2>3
    <3>2. f.kind # "base"
      <4> SUFFICES ASSUME f.kind = "base" PROVE FALSE
        OBVIOUS
      <4>1. h = 1
        BY DEF Fits, h
      <4>2. stack[cpu][1].kind = "base"
        BY <1>3, <4>1
      <4> QED
        BY <1>2, <3>1, <4>1, <4>2 DEF Pending, Irq, KeyboardIrq, TimerIrq, h
    <3>3. f.kind = "timer" /\ f.pc # "iret"
      BY <3>1, <3>2
    <3>4. stack'[c][Height(c)'] = f
      BY <1>2, <2>1, <3>1 DEF h
    <3> QED
      BY <3>3, <3>4 DEF Pending, Irq, TimerIrq
  <2> QED
    BY <2>2, <2>3
<1> QED
  BY <1>5, <1>6, <1>7, <1>8

\* The executing activation fits its stack.
LEMMA TopFacts ==
  ASSUME IInv, cpu # Wild
  PROVE  /\ cpu \in Stacks /\ Height(cpu) \in Nat \ {0}
         /\ Height(cpu) \in 1 .. Height(cpu)
         /\ TopOf(cpu) = stack[cpu][Height(cpu)]
         /\ TopOf(cpu) \in Frames /\ Fits(TopOf(cpu), cpu, Height(cpu))
<1>1. cpu \in Stacks /\ stack[cpu] \in Seq(Frames) /\ stack[cpu] # <<>>
  BY DEF IInv, TypeOK
<1>2. Height(cpu) \in Nat \ {0} /\ Height(cpu) \in 1 .. Height(cpu)
  BY <1>1, EmptySeq DEF Height
<1> QED
  BY <1>1, <1>2, ElementOfSeq DEF IInv, Shaped, TopOf, Height

\* The types of the variables but for the stacks and the controller.
Scalars ==
  /\ num_tasks \in 0 .. NTasks
  /\ state \in [TaskIds -> {"READY", "RUNNING", "BLOCKED"}]
  /\ rsp \in [TaskIds -> Contexts]
  /\ current_task \in TaskIds \cup {Null}
  /\ scheduler_initialized \in BOOLEAN /\ in_critical_section \in BOOLEAN
  /\ iflag \in BOOLEAN
  /\ timer_ticks \in 0 .. SliceTicks - 1
  /\ boot_ticks \in Nat /\ first_task \in TaskIds

\* A step that makes f the executing activation, in or out of a switch,
\* preserves the invariant.
LEMMA RetopInv ==
  ASSUME IInv, cpu # Wild, NEW f \in Frames, stack' = WithTop(f), Scalars',
         Fits(f, cpu, Height(cpu)),
         f.kind = TopOf(cpu).kind,
         f.pc = "iret" <=> TopOf(cpu).pc = "iret",
         f.pc \in Early => TopOf(cpu).pc \in Early,
         num_tasks' = num_tasks, picVars' = picVars,
         cpu' \in Stacks \cup {Wild},
         cpu' = cpu \/ f.kind = "base" \/ (f.kind = "timer" /\ f.pc # "iret"),
         cpu' # Wild => Height(cpu') > 0,
         in_critical_section' => ~iflag' /\ cpu' = cpu /\ f.depth > 0
  PROVE  IInv'
<1>1. isr' = isr /\ irr' = irr
  BY DEF picVars
<1>2. Shaped' /\ NotYet' /\ InServiceMatches' /\ UnderTimer'
  BY <1>1, Retop DEF IInv
<1>3. /\ stack' \in [Stacks -> Seq(Frames)]
      /\ Height(cpu) \in Nat \ {0} /\ Height(cpu) \in 1 .. Height(cpu)
      /\ cpu \in Stacks
      /\ \A c \in Stacks :
           /\ Height(c)' = Height(c)
           /\ \A i \in 1 .. Height(c) :
                stack'[c][i] = IF c = cpu /\ i = Height(c) THEN f ELSE stack[c][i]
  BY WithTopFacts, TopFacts DEF IInv
<1>4. TypeOK'
  <2>1. cpu' # Wild => stack'[cpu'] # <<>>
    <3> SUFFICES ASSUME cpu' # Wild PROVE stack'[cpu'] # <<>>
      OBVIOUS
    <3>1. cpu' \in Stacks
      OBVIOUS
    <3>2. Len(stack'[cpu']) > 0
      BY <1>3, <3>1 DEF Height
    <3> QED
      BY <3>2, EmptySeq
  <2> QED
    BY <1>1, <1>3, <2>1 DEF IInv, TypeOK, PicTypeOK, Scalars
<1>5. FlagMasksInterrupts'
  <2> SUFFICES ASSUME in_critical_section'
               PROVE  ~iflag' /\ cpu' # Wild /\ stack'[cpu'][Height(cpu)'].depth > 0
    BY DEF FlagMasksInterrupts, TopOf, Height
  <2>1. stack'[cpu][Height(cpu)] = f
    BY <1>3
  <2> QED
    BY <1>3, <2>1
<1> QED
  BY <1>2, <1>4, <1>5 DEF IInv

\* What a context saved for this routine is worth: the stack it is on is not
\* empty.
LEMMA SwitchToFacts ==
  ASSUME IInv, NEW s \in Contexts, NEW routine, SwitchTo(s, routine)
  PROVE  /\ cpu' \in Stacks \cup {Wild} /\ iflag' \in BOOLEAN
         /\ cpu' # Wild => /\ Height(cpu') > 0
                           /\ TopOf(cpu').pc \in {"entry", "switched"}
<1>1. s.stack \in Stacks /\ s.height \in Nat
  BY DEF Contexts
<1>2. CASE Resumable(s, routine)
  <2>1. cpu' = s.stack /\ iflag' \in BOOLEAN
    BY <1>2 DEF SwitchTo, RestoredIF
  <2>2. Height(s.stack) > 0 /\ TopOf(s.stack).pc \in {"entry", "switched"}
    BY <1>2 DEF Resumable
  <2> QED
    BY <1>1, <2>1, <2>2
<1>3. CASE ~Resumable(s, routine)
  BY <1>3 DEF SwitchTo, IInv, TypeOK
<1> QED
  BY <1>2, <1>3

LEMMA ReadyAreTasks ==
  ASSUME IInv
  PROVE  ReadyTasks \subseteq TaskIds
BY TasksAssumption DEF IInv, TypeOK, ReadyTasks, TaskIds

\* A call of schedule from the timer handler, or from a task outside of any
\* critical section.
LEMMA ScheduleInv ==
  ASSUME IInv, cpu # Wild, NEW pc \in Points \ Early,
         TopOf(cpu).depth = 0, TopOf(cpu).pc # "iret", pc # "iret",
         TopOf(cpu).kind \in {"base", "timer"},
         Fits(GoTo(pc), cpu, Height(cpu)),
         Fits(GoTo("switched"), cpu, Height(cpu)),
         Schedule(pc), picVars' = picVars,
         timer_ticks' \in 0 .. SliceTicks - 1, boot_ticks' \in Nat,
         first_task' \in TaskIds
  PROVE  IInv'
<1>1. /\ cpu \in Stacks /\ TopOf(cpu) \in Frames /\ Height(cpu) \in Nat \ {0}
      /\ Wild \notin Stacks
  BY TopFacts, TasksAssumption DEF Stacks
<1>2. ~in_critical_section
  BY <1>1 DEF IInv, FlagMasksInterrupts
<1>3. \A p \in Points :
        /\ GoTo(p) \in Frames /\ GoTo(p).kind = TopOf(cpu).kind
        /\ GoTo(p).pc = p /\ GoTo(p).depth = 0
  BY <1>1 DEF Frames, GoTo
<1>4. pc \in Points /\ "switched" \in Points /\ "switched" \notin Early
      /\ "switched" # "iret"
  BY DEF Points, Early
<1>5. ASSUME stack' = WithTop(GoTo(pc)), Scalars', num_tasks' = num_tasks,
             cpu' = cpu \/ cpu' = Wild, in_critical_section' = in_critical_section
      PROVE  IInv'
  BY <1>1, <1>2, <1>3, <1>4, <1>5, RetopInv
<1>6. Scalars
  BY DEF IInv, TypeOK, Scalars
<1>7. CASE ScheduleRefuses(pc)
  BY <1>5, <1>6, <1>7 DEF ScheduleRefuses, ReturnTo, tableVars, Scalars
<1>8. CASE ScheduleFirst(pc)
  <2>1. /\ current_task' \in TaskIds \cup {Null}
        /\ state' \in [TaskIds -> {"READY", "RUNNING", "BLOCKED"}]
    BY <1>6, <1>8, ReadyAreTasks DEF ScheduleFirst, Scalars
  <2> QED
    BY <1>5, <1>6, <1>8, <2>1 DEF ScheduleFirst, ReturnTo, Scalars
<1>9. CASE ScheduleStays(pc)
  BY <1>5, <1>6, <1>9 DEF ScheduleStays, ReturnTo, tableVars, Scalars
<1>10. CASE ScheduleNone(pc)
  BY <1>5, <1>6, <1>10 DEF ScheduleNone, ReturnTo, Scalars
<1>11. CASE ScheduleNull(pc)
  BY <1>5, <1>6, <1>11 DEF ScheduleNull, tableVars, Scalars
<1>12. CASE ScheduleSwitch
  <2>1. PICK next \in ReadyTasks \ {current_task} :
          /\ state' = SwitchStates(next)
          /\ current_task' = next
          /\ rsp' = [rsp EXCEPT
                       ![current_task] = Saved(cpu, "switch", Height(cpu))]
          /\ stack' = WithTop(GoTo("switched"))
          /\ SwitchTo(rsp[next], "switch")
    BY <1>12 DEF ScheduleSwitch
  <2>2. next \in TaskIds /\ rsp[next] \in Contexts
    BY <1>6, ReadyAreTasks DEF Scalars
  <2>3. /\ cpu' \in Stacks \cup {Wild} /\ iflag' \in BOOLEAN
        /\ cpu' # Wild => Height(cpu') > 0
    BY <2>1, <2>2, SwitchToFacts
  <2>4. Saved(cpu, "switch", Height(cpu)) \in Contexts
    BY <1>1 DEF Saved, Contexts
  <2>5. state' \in [TaskIds -> {"READY", "RUNNING", "BLOCKED"}]
    BY <1>6, <2>1, <2>2 DEF Scalars, SwitchStates
  <2>6. rsp' \in [TaskIds -> Contexts]
    BY <1>6, <2>1, <2>4 DEF Scalars
  <2>7. Scalars' /\ num_tasks' = num_tasks /\ ~in_critical_section'
    BY <1>2, <1>6, <1>12, <2>1, <2>2, <2>3, <2>5, <2>6 DEF ScheduleSwitch, Scalars
  <2> QED
    BY <1>1, <1>3, <1>4, <2>1, <2>3, <2>7, RetopInv
<1> QED
  BY <1>2, <1>7, <1>8, <1>9, <1>10, <1>11, <1>12 DEF Schedule

-----------------------------------------------------------------------------
(* The actions, one lemma each where they do more than move on.            *)

\* What holds where the executing activation is at a given point.
LEMMA AtFacts ==
  ASSUME IInv, NEW kind, NEW pc, At(kind, pc)
  PROVE  /\ cpu # Wild /\ cpu \in Stacks /\ Wild \notin Stacks
         /\ TopOf(cpu) \in Frames /\ TopOf(cpu).kind = kind /\ TopOf(cpu).pc = pc
         /\ Fits(TopOf(cpu), cpu, Height(cpu))
         /\ Height(cpu) \in Nat \ {0}
         /\ pc \notin {"body", "work"} => TopOf(cpu).depth = 0 /\ ~in_critical_section
         /\ \A p \in Points :
              /\ GoTo(p) \in Frames /\ GoTo(p).kind = kind /\ GoTo(p).pc = p
              /\ GoTo(p).depth = TopOf(cpu).depth
<1>1. cpu # Wild /\ TopOf(cpu).kind = kind /\ TopOf(cpu).pc = pc
  BY DEF At
<1>2. /\ cpu \in Stacks /\ Wild \notin Stacks /\ Height(cpu) \in Nat \ {0}
      /\ TopOf(cpu) \in Frames /\ Fits(TopOf(cpu), cpu, Height(cpu))
  BY <1>1, TopFacts, TasksAssumption DEF Stacks
<1>3. TopOf(cpu).depth \in Nat
  BY <1>2, KernelAssumption DEF Frames
<1>4. pc \notin {"body", "work"} => TopOf(cpu).depth = 0 /\ ~in_critical_section
  BY <1>1, <1>2, <1>3 DEF Fits, IInv, FlagMasksInterrupts
<1>5. \A p \in Points :
        /\ GoTo(p) \in Frames /\ GoTo(p).kind = kind /\ GoTo(p).pc = p
        /\ GoTo(p).depth = TopOf(cpu).depth
  BY <1>1, <1>2 DEF Frames, GoTo
<1> QED
  BY <1>1, <1>2, <1>4, <1>5

LEMMA DevicesInv ==
  ASSUME IInv, Devices
  PROVE  IInv'
<1>1. /\ irr' \in SUBSET Irqs /\ isr' = isr /\ boot_ticks' \in Nat
      /\ taskVars' = taskVars /\ timer_ticks' = timer_ticks
      /\ first_task' = first_task
  BY DEF Devices, TimerFires, KeyPressed, Raise, clockVars, IInv, TypeOK,
         PicTypeOK, Irqs
<1>2. /\ stack' = stack /\ cpu' = cpu /\ iflag' = iflag
      /\ in_critical_section' = in_critical_section /\ num_tasks' = num_tasks
      /\ UNCHANGED <<state, rsp, current_task, scheduler_initialized>>
  BY <1>1 DEF taskVars, tableVars, cpuVars
<1>3. TypeOK'
  BY <1>1, <1>2 DEF IInv, TypeOK, PicTypeOK
<1> QED
  BY <1>1, <1>2, <1>3 DEF IInv, Shaped, NotYet, InServiceMatches, UnderTimer,
       FlagMasksInterrupts, Pending, Height, TopOf, Fits

LEMMA TimerHandlerInv ==
  ASSUME IInv, TimerHandler
  PROVE  IInv'
<1>1. At("timer", "enter") /\ picVars' = picVars
  BY DEF TimerHandler
<1>2. /\ cpu # Wild /\ cpu \in Stacks /\ TopOf(cpu).kind = "timer"
      /\ TopOf(cpu).pc = "enter" /\ TopOf(cpu).depth = 0 /\ ~in_critical_section
      /\ Height(cpu) \in Nat \ {0} /\ Fits(TopOf(cpu), cpu, Height(cpu))
  BY <1>1, AtFacts
<1>3. \A p \in {"eoi", "switched"} :
        /\ p \in Points \ Early /\ p # "iret"
        /\ GoTo(p) \in Frames /\ GoTo(p).kind = "timer" /\ GoTo(p).pc = p
        /\ GoTo(p).depth = 0
        /\ Fits(GoTo(p), cpu, Height(cpu))
  BY <1>1, <1>2, AtFacts DEF Points, Early, Fits
<1>4. /\ timer_ticks' \in 0 .. SliceTicks - 1 /\ boot_ticks' \in Nat
      /\ first_task' \in TaskIds
  BY KernelAssumption DEF TimerHandler, NextTick, IInv, TypeOK
<1>5. CASE Schedule("eoi")
  BY <1>1, <1>2, <1>3, <1>4, <1>5, ScheduleInv
<1>6. CASE ReturnTo("eoi") /\ UNCHANGED <<tableVars, in_critical_section, iflag>>
  <2>1. Scalars' /\ num_tasks' = num_tasks
    BY <1>4, <1>6 DEF tableVars, IInv, TypeOK, Scalars
  <2> QED
    BY <1>1, <1>2, <1>3, <1>6, <2>1, RetopInv DEF ReturnTo
<1> QED
  BY <1>5, <1>6 DEF TimerHandler

LEMMA KeyIgnoredInv ==
  ASSUME IInv, KeyIgnored
  PROVE  IInv'
<1>1. /\ At("keyboard", "enter") /\ picVars' = picVars
      /\ stack' = WithTop(GoTo("eoi")) /\ cpu' = cpu
  BY DEF KeyIgnored, ReturnTo
<1>2. Scalars' /\ num_tasks' = num_tasks /\ in_critical_section' = in_critical_section
  BY DEF KeyIgnored, tableVars, clockVars, IInv, TypeOK, Scalars
<1>3. "eoi" \in Points /\ "eoi" \notin Early
  BY DEF Points, Early
<1> QED
  BY <1>1, <1>2, <1>3, AtFacts, RetopInv DEF Fits

LEMMA KeyTakenInv ==
  ASSUME IInv, KeyTaken
  PROVE  IInv'
<1> DEFINE f == [GoTo("work") EXCEPT !.depth = 1]
<1>1. /\ At("keyboard", "enter") /\ picVars' = picVars
      /\ stack' = WithTop(f) /\ cpu' = cpu /\ ~iflag'
  BY DEF KeyTaken, enter_critical_section
<1>2. Scalars' /\ num_tasks' = num_tasks
  BY DEF KeyTaken, enter_critical_section, tableVars, clockVars, IInv, TypeOK, Scalars
<1>3. "work" \in Points /\ "work" \notin Early
  BY DEF Points, Early
<1>4. f \in Frames /\ f.kind = "keyboard" /\ f.pc = "work" /\ f.depth = 1
  BY <1>1, <1>3, AtFacts, KernelAssumption DEF Frames
<1> HIDE DEF f
<1> QED
  BY <1>1, <1>2, <1>3, <1>4, AtFacts, RetopInv DEF Fits

\* The handler that sends an EOI owes one, and the controller clears its line.
LEMMA EoiFacts ==
  ASSUME IInv, NEW kind \in {"timer", "keyboard"}, At(kind, "eoi"), pic_send_eoi
  PROVE  /\ Irq(kind) \in isr /\ isr' = isr \ {Irq(kind)}
         /\ Pending(cpu, Height(cpu), Irq(kind))
<1>1. /\ cpu \in Stacks /\ Height(cpu) \in 1 .. Height(cpu)
      /\ TopOf(cpu) = stack[cpu][Height(cpu)]
      /\ TopOf(cpu).kind = kind /\ TopOf(cpu).pc = "eoi"
  BY TopFacts DEF At
<1>2. Pending(cpu, Height(cpu), Irq(kind)) /\ Irq(kind) \in Irqs
  BY <1>1 DEF Pending, Irq, Irqs
<1>3. Irq(kind) \in isr /\ isr \in SUBSET Irqs
  BY <1>1, <1>2 DEF IInv, InServiceMatches, TypeOK, PicTypeOK
<1>4. kind = "keyboard" => TimerIrq \notin isr
  <2> SUFFICES ASSUME kind = "keyboard", TimerIrq \in isr PROVE FALSE
    OBVIOUS
  <2>1. Pending(cpu, Height(cpu), KeyboardIrq)
    BY <1>2 DEF Irq
  <2>2. Pending(cpu, Height(cpu), TimerIrq)
    BY <1>1, <2>1 DEF IInv, UnderTimer
  <2> QED
    BY <1>1, <2>2 DEF Pending, Irq, TimerIrq, KeyboardIrq
<1>5. {k \in isr : \A j \in isr : k <= j} = {Irq(kind)}
  <2>1. isr \in {{0}, {1}, {0, 1}} /\ Irq(kind) \in {0, 1}
    BY <1>3 DEF Irqs, Irq, TimerIrq, KeyboardIrq
  <2>2. Irq(kind) = 1 => isr = {1}
    BY <1>3, <1>4, <2>1 DEF Irq, TimerIrq, KeyboardIrq
  <2>3. CASE Irq(kind) = 0
    BY <1>3, <2>1, <2>3
  <2>4. CASE Irq(kind) = 1
    BY <2>2, <2>4
  <2> QED
    BY <2>1, <2>3, <2>4
<1> QED
  BY <1>2, <1>3, <1>5 DEF pic_send_eoi

LEMMA EndOfInterruptInv ==
  ASSUME IInv, NEW kind \in {"timer", "keyboard"}, EndOfInterrupt(kind)
  PROVE  IInv'
<1> DEFINE f == GoTo("iret")
           h == Height(cpu)
<1>1. /\ At(kind, "eoi") /\ pic_send_eoi /\ irr' = irr
      /\ stack' = WithTop(f) /\ cpu' = cpu
  BY DEF EndOfInterrupt, pic_send_eoi, ReturnTo
<1>2. /\ Irq(kind) \in isr /\ isr' = isr \ {Irq(kind)}
      /\ Pending(cpu, h, Irq(kind))
  BY <1>1, EoiFacts
<1>3. /\ f \in Frames /\ f.kind = kind /\ f.pc = "iret" /\ f.depth = 0
      /\ cpu \in Stacks /\ cpu # Wild /\ ~in_critical_section
      /\ Fits(TopOf(cpu), cpu, h) /\ TopOf(cpu).kind = kind /\ h \in Nat \ {0}
  BY <1>1, AtFacts DEF Points
<1>4. Fits(f, cpu, h)
  BY <1>3 DEF Fits
<1> HIDE DEF f
<1>5. /\ stack \in [Stacks -> Seq(Frames)] /\ stack' \in [Stacks -> Seq(Frames)]
      /\ \A c \in Stacks :
           /\ Height(c)' = Height(c) /\ Height(c) \in Nat
           /\ \A i \in 1 .. Height(c) :
                stack'[c][i] = IF c = cpu /\ i = h THEN f ELSE stack[c][i]
  BY <1>1, <1>3, WithTopFacts DEF IInv, TypeOK, Height
<1>6. Irq(kind) \in Irqs /\ isr \in SUBSET Irqs
  BY DEF Irq, Irqs, IInv, TypeOK, PicTypeOK
<1>7. \A c \in Stacks : \A i \in 1 .. Height(c) : \A irq \in Irqs :
        Pending(c, i, irq)' <=> Pending(c, i, irq) /\ irq # Irq(kind)
  <2> SUFFICES ASSUME NEW c \in Stacks, NEW i \in 1 .. Height(c), NEW irq \in Irqs
               PROVE  Pending(c, i, irq)' <=> Pending(c, i, irq) /\ irq # Irq(kind)
    OBVIOUS
  <2>1. CASE c = cpu /\ i = h
    BY <1>2, <1>3, <1>5, <2>1 DEF Pending
  <2>2. CASE ~(c = cpu /\ i = h)
    <3>1. Pending(c, i, irq)' <=> Pending(c, i, irq)
      BY <1>5, <2>2 DEF Pending
    <3>2. h \in 1 .. Height(cpu)
      BY <1>3
    <3>3. Pending(c, i, irq) => irq # Irq(kind)
      BY <1>2, <1>3, <1>6, <2>2, <3>2 DEF IInv, InServiceMatches
    <3> QED
      BY <3>1, <3>3
  <2> QED
    BY <2>1, <2>2
<1>8. TypeOK'
  <2>1. cpu' # Wild => stack'[cpu'] # <<>>
    BY <1>1, <1>3, <1>5, EmptySeq DEF Height
  <2> QED
    BY <1>1, <1>2, <1>5, <2>1 DEF EndOfInterrupt, IInv, TypeOK, PicTypeOK,
       tableVars, clockVars
<1>9. Shaped'
  BY <1>4, <1>5 DEF IInv, Shaped, Fits
<1>10. NotYet'
  <2>1. /\ num_tasks' = num_tasks /\ f.pc \notin Early
        /\ \A c \in Stacks : stack[c] = <<>> <=> stack'[c] = <<>>
    BY <1>3, <1>5, EmptySeq DEF EndOfInterrupt, tableVars, Early, Height
  <2>2. Boot \in Stacks /\ TaskIds \subseteq Stacks
    BY DEF Stacks
  <2>3. stack[Boot] # <<>> => 1 \in 1 .. Height(Boot)
    BY <1>5, <2>2, EmptySeq DEF Height
  <2> QED
    BY <1>5, <2>1, <2>2, <2>3 DEF IInv, NotYet
<1>11. InServiceMatches'
  BY <1>2, <1>5, <1>6, <1>7 DEF IInv, InServiceMatches
<1>12. UnderTimer'
  <2> SUFFICES ASSUME NEW c \in Stacks, NEW i \in 1 .. Height(c),
                      Pending(c, i, KeyboardIrq), KeyboardIrq # Irq(kind),
                      c # cpu \/ TimerIrq \in isr'
               PROVE  FALSE
    BY <1>1, <1>5, <1>7 DEF UnderTimer, Irqs
  <2>1. Irq(kind) = TimerIrq
    BY DEF Irq
  <2>2. c # cpu
    BY <1>2, <2>1
  <2>3. Pending(c, Height(c), TimerIrq)
    BY <2>2 DEF IInv, UnderTimer
  <2>5. Height(c) \in 1 .. Height(c)
    BY <1>5
  <2>4. h \in 1 .. Height(cpu)
    BY <1>3
  <2> QED
    BY <1>2, <1>3, <1>6, <2>1, <2>2, <2>3, <2>4, <2>5 DEF IInv, InServiceMatches
<1>13. FlagMasksInterrupts'
  BY <1>3 DEF EndOfInterrupt, FlagMasksInterrupts
<1> QED
  BY <1>8, <1>9, <1>10, <1>11, <1>12, <1>13 DEF IInv

LEMMA InterruptInv ==
  ASSUME IInv, NEW kind \in {"timer", "keyboard"}, Interrupt(kind)
  PROVE  IInv'
<1> DEFINE f == Frame(kind, "enter")
           h == Height(cpu)
           line == Irq(kind)
           Owes(c, i, irq) ==
             /\ stack'[c][i].kind # "base" /\ stack'[c][i].pc # "iret"
             /\ Irq(stack'[c][i].kind) = irq
<1>1. /\ cpu # Wild /\ cpu \in Stacks /\ h \in Nat \ {0} /\ cpu' = cpu
      /\ stack \in [Stacks -> Seq(Frames)]
      /\ stack' = [stack EXCEPT ![cpu] = Append(@, f)]
      /\ iflag /\ ~iflag' /\ in_critical_section' = in_critical_section
      /\ num_tasks' = num_tasks /\ irr' = irr \ {line} /\ isr' = isr \cup {line}
  BY TopFacts DEF Interrupt, Acknowledge, tableVars, IInv, TypeOK
<1>2. f \in Frames /\ f.kind = kind /\ f.pc = "enter" /\ f.depth = 0
  BY KernelAssumption DEF Frame, Frames, Kinds, Points
<1> HIDE DEF f
<1>3. /\ stack' \in [Stacks -> Seq(Frames)]
      /\ Len(stack'[cpu]) = h + 1 /\ stack'[cpu][h + 1] = f
      /\ \A c \in Stacks :
           /\ c # cpu => Len(stack'[c]) = Height(c)
           /\ Height(c) \in Nat
           /\ \A i \in 1 .. Height(c) : stack'[c][i] = stack[c][i]
  BY <1>1, <1>2 DEF Height
<1>4. \A c \in Stacks : \A i \in 1 .. Len(stack'[c]) :
        i \in 1 .. Height(c) \/ (c = cpu /\ i = h + 1)
  BY <1>1, <1>3
<1>5. line \in Irqs /\ isr \in SUBSET Irqs /\ line \notin isr
      /\ (line = KeyboardIrq => isr = {})
  BY DEF Interrupt, Deliverable, Irq, Irqs, TimerIrq, KeyboardIrq, IInv, TypeOK,
         PicTypeOK
<1>6. /\ \A c \in Stacks : \A i \in 1 .. Height(c) : \A irq \in Irqs :
           Owes(c, i, irq) <=> Pending(c, i, irq)
      /\ \A irq \in Irqs : Owes(cpu, h + 1, irq) <=> irq = line
  <2>1. \A irq : Owes(cpu, h + 1, irq) <=> irq = line
    BY <1>2, <1>3 DEF Irq
  <2> QED
    BY <1>3, <2>1 DEF Pending
<1>7. \A c \in Stacks : \A i \in 1 .. Height(c) : ~Pending(c, i, line)
  BY <1>5 DEF IInv, InServiceMatches
<1> HIDE DEF Owes
<1>8. TypeOK'
  <2>1. stack'[cpu] # <<>>
    BY <1>1, <1>3, EmptySeq DEF Height
  <2>2. irr' \in SUBSET Irqs /\ isr' \in SUBSET Irqs
    BY <1>1, <1>5 DEF IInv, TypeOK, PicTypeOK
  <2> QED
    BY <1>1, <1>3, <2>1, <2>2 DEF Interrupt, IInv, TypeOK, PicTypeOK, tableVars,
       clockVars
<1>9. Shaped'
  <2>1. Fits(f, cpu, h + 1)
    BY <1>1, <1>2 DEF Fits
  <2>2. \A c \in Stacks : \A i \in 1 .. Len(stack'[c]) : Fits(stack'[c][i], c, i)
    BY <1>3, <1>4, <2>1 DEF IInv, Shaped
  <2> QED
    BY <2>2 DEF Shaped, Fits, Height
<1>10. NotYet'
  <2>1. \A c \in Stacks : stack'[c] = <<>> => stack[c] = <<>>
    BY <1>1, <1>3, EmptySeq DEF Height
  <2>2. \A c \in Stacks : stack[c] = <<>> => stack'[c] = <<>>
    BY <1>1, <1>3, EmptySeq DEF Height, IInv, TypeOK
  <2>3. stack[Boot] # <<>> => stack'[Boot][1] = stack[Boot][1]
    BY <1>1, <1>3, EmptySeq DEF Height, Stacks
  <2> QED
    BY <1>1, <2>1, <2>2, <2>3 DEF IInv, NotYet, Stacks
<1>11. InServiceMatches'
  <2> SUFFICES ASSUME NEW irq \in Irqs
               PROVE  /\ irq \in isr' <=> \E c \in Stacks : \E i \in 1 .. Len(stack'[c]) :
                                           Owes(c, i, irq)
                      /\ \A c, d \in Stacks :
                         \A i \in 1 .. Len(stack'[c]), j \in 1 .. Len(stack'[d]) :
                           Owes(c, i, irq) /\ Owes(d, j, irq)
                             => c = d /\ i = j
    BY DEF InServiceMatches, Height, Pending, Owes
  <2>1. CASE irq = line
    <3>1. \A c \in Stacks : \A i \in 1 .. Len(stack'[c]) :
            Owes(c, i, irq) <=> c = cpu /\ i = h + 1
      BY <1>1, <1>4, <1>6, <1>7, <2>1
    <3>2. h + 1 \in 1 .. Len(stack'[cpu])
      BY <1>1, <1>3
    <3> QED
      BY <1>1, <2>1, <3>1, <3>2
  <2>2. CASE irq # line
    <3>1. \A c \in Stacks : \A i \in 1 .. Len(stack'[c]) :
            Owes(c, i, irq) <=> i \in 1 .. Height(c) /\ Pending(c, i, irq)
      BY <1>1, <1>4, <1>6, <2>2
    <3>2. \A c \in Stacks : \A i \in 1 .. Height(c) : i \in 1 .. Len(stack'[c])
      BY <1>1, <1>3
    <3>3. irq \in isr' <=> irq \in isr
      BY <1>1, <2>2
    <3> QED
      BY <3>1, <3>2, <3>3 DEF IInv, InServiceMatches
  <2> QED
    BY <2>1, <2>2
<1>12. UnderTimer'
  <2> SUFFICES ASSUME NEW c \in Stacks, NEW i \in 1 .. Len(stack'[c]),
                      Owes(c, i, KeyboardIrq), c # cpu \/ TimerIrq \in isr'
               PROVE  Owes(c, Len(stack'[c]), TimerIrq)
    BY <1>1 DEF UnderTimer, Height, Pending, Owes
  <2>1. CASE line = TimerIrq
    <3>1. i \in 1 .. Height(c) /\ Pending(c, i, KeyboardIrq)
      BY <1>4, <1>6, <2>1 DEF Irqs, TimerIrq, KeyboardIrq
    <3>2. c = cpu
      <4> SUFFICES ASSUME c # cpu PROVE FALSE
        OBVIOUS
      <4>1. Pending(c, Height(c), TimerIrq)
        BY <3>1 DEF IInv, UnderTimer
      <4>2. Height(c) \in 1 .. Height(c)
        BY <1>3, <3>1
      <4> QED
        BY <1>7, <2>1, <4>1, <4>2
    <3> QED
      BY <1>3, <1>6, <2>1, <3>2 DEF Irqs
  <2>2. CASE line = KeyboardIrq
    <3>1. TimerIrq \notin isr'
      BY <1>1, <1>5, <2>2 DEF TimerIrq, KeyboardIrq
    <3>2. c # cpu
      BY <3>1
    <3>3. i \in 1 .. Height(c) /\ Pending(c, i, KeyboardIrq)
      BY <1>4, <1>6, <3>2 DEF Irqs
    <3> QED
      BY <1>7, <2>2, <3>3
  <2> QED
    BY <2>1, <2>2 DEF Irq
<1>13. FlagMasksInterrupts'
  BY <1>1 DEF IInv, FlagMasksInterrupts
<1> QED
  BY <1>8, <1>9, <1>10, <1>11, <1>12, <1>13 DEF IInv

LEMMA IretInv ==
  ASSUME IInv, NEW kind \in {"timer", "keyboard"}, Iret(kind)
  PROVE  IInv'
<1> DEFINE h == Height(cpu)
           Owes(c, i, irq) ==
             /\ stack'[c][i].kind # "base" /\ stack'[c][i].pc # "iret"
             /\ Irq(stack'[c][i].kind) = irq
<1>1. /\ At(kind, "iret") /\ cpu' = cpu /\ isr' = isr /\ irr' = irr
      /\ stack' = [stack EXCEPT ![cpu] = SubSeq(@, 1, Len(@) - 1)]
      /\ in_critical_section' = in_critical_section /\ num_tasks' = num_tasks
  BY DEF Iret, picVars, tableVars
<1>2. /\ cpu # Wild /\ cpu \in Stacks /\ h \in Nat \ {0, 1}
      /\ stack[cpu][h].pc = "iret" /\ ~in_critical_section
      /\ stack \in [Stacks -> Seq(Frames)]
  BY <1>1, AtFacts, TopFacts DEF Fits, IInv, TypeOK
<1> DEFINE s == SubSeq(stack[cpu], 1, h - 1)
<1>3. /\ s \in Seq(Frames) /\ Len(s) = h - 1
      /\ \A i \in 1 .. h - 1 : s[i] = stack[cpu][i]
  <2>1. stack[cpu] \in Seq(Frames) /\ Len(stack[cpu]) = h
    BY <1>2 DEF Height
  <2>2. \A i \in 1 .. h - 1 : stack[cpu][i] \in Frames
    BY <1>2, <2>1, ElementOfSeq
  <2>3. 1 \in Int /\ h - 1 \in Int /\ 1 <= h - 1
    BY <1>2
  <2> HIDE DEF h
  <2> QED
    BY <2>2, <2>3, SubSeqProperties
<1>4. stack' = [stack EXCEPT ![cpu] = s]
  BY <1>1 DEF Height
<1> HIDE DEF s
<1>5. /\ stack' \in [Stacks -> Seq(Frames)]
      /\ Len(stack'[cpu]) = h - 1
      /\ \A c \in Stacks :
           /\ Height(c) \in Nat
           /\ c # cpu => Len(stack'[c]) = Height(c)
           /\ Len(stack'[c]) \in Nat /\ Len(stack'[c]) <= Height(c)
           /\ \A i \in 1 .. Len(stack'[c]) :
                /\ i \in 1 .. Height(c)
                /\ stack'[c][i] = stack[c][i]
  BY <1>2, <1>3, <1>4 DEF Height
<1>6. \A c \in Stacks : \A i \in 1 .. Len(stack'[c]) : \A irq :
        Owes(c, i, irq) <=> Pending(c, i, irq)
  BY <1>5 DEF Pending
<1>7. \A irq : ~Pending(cpu, h, irq)
  BY <1>2 DEF Pending
<1>8. \A c \in Stacks : \A i \in 1 .. Height(c) : \A irq :
        Pending(c, i, irq) => i \in 1 .. Len(stack'[c])
  BY <1>2, <1>5, <1>7
<1> HIDE DEF Owes
<1>9. TypeOK'
  <2>1. stack'[cpu] # <<>>
    BY <1>2, <1>5, EmptySeq
  <2> QED
    BY <1>1, <1>2, <1>5, <2>1 DEF Iret, IInv, TypeOK, PicTypeOK, tableVars, clockVars
<1>10. Shaped'
  <2>1. \A c \in Stacks : \A i \in 1 .. Len(stack'[c]) : Fits(stack'[c][i], c, i)
    BY <1>5 DEF IInv, Shaped
  <2> QED
    BY <2>1 DEF Shaped, Fits, Height
<1>11. NotYet'
  <2>1. \A c \in Stacks : stack[c] = <<>> <=> stack'[c] = <<>>
    BY <1>2, <1>5, EmptySeq DEF Height
  <2>2. stack'[Boot] # <<>> => stack'[Boot][1] = stack[Boot][1]
    BY <1>2, <1>5, EmptySeq DEF Height, Stacks
  <2> QED
    BY <1>1, <2>1, <2>2 DEF IInv, NotYet, Stacks
<1>12. InServiceMatches'
  <2>1. \A irq \in Irqs :
          /\ irq \in isr <=> \E c \in Stacks : \E i \in 1 .. Len(stack'[c]) :
                               Owes(c, i, irq)
          /\ \A c, d \in Stacks :
             \A i \in 1 .. Len(stack'[c]), j \in 1 .. Len(stack'[d]) :
               Owes(c, i, irq) /\ Owes(d, j, irq) => c = d /\ i = j
    <3> SUFFICES ASSUME NEW irq \in Irqs
                 PROVE  /\ irq \in isr <=> \E c \in Stacks : \E i \in 1 .. Len(stack'[c]) :
                                             Owes(c, i, irq)
                        /\ \A c, d \in Stacks :
                           \A i \in 1 .. Len(stack'[c]), j \in 1 .. Len(stack'[d]) :
                             Owes(c, i, irq) /\ Owes(d, j, irq) => c = d /\ i = j
      OBVIOUS
    <3>1. \A c \in Stacks : \A i \in 1 .. Len(stack'[c]) :
            i \in 1 .. Height(c) /\ (Owes(c, i, irq) <=> Pending(c, i, irq))
      BY <1>5, <1>6
    <3>2. irq \in isr <=> \E c \in Stacks : \E i \in 1 .. Height(c) :
                           Pending(c, i, irq)
      BY DEF IInv, InServiceMatches
    <3>3. irq \in isr <=> \E c \in Stacks : \E i \in 1 .. Len(stack'[c]) :
                           Owes(c, i, irq)
      BY <1>8, <3>1, <3>2
    <3>4. \A c, d \in Stacks : \A i \in 1 .. Height(c), j \in 1 .. Height(d) :
            Pending(c, i, irq) /\ Pending(d, j, irq) => c = d /\ i = j
      BY DEF IInv, InServiceMatches
    <3> QED
      BY <3>1, <3>3, <3>4
  <2> QED
    BY <1>1, <2>1 DEF InServiceMatches, Height, Pending, Owes
<1>13. UnderTimer'
  <2> SUFFICES ASSUME NEW c \in Stacks, NEW i \in 1 .. Len(stack'[c]),
                      Owes(c, i, KeyboardIrq), c # cpu \/ TimerIrq \in isr
               PROVE  Owes(c, Len(stack'[c]), TimerIrq)
    BY <1>1 DEF UnderTimer, Height, Pending, Owes
  <2>1. i \in 1 .. Height(c) /\ Pending(c, i, KeyboardIrq)
    BY <1>5, <1>6
  <2>2. Pending(c, Height(c), TimerIrq)
    BY <2>1 DEF IInv, UnderTimer
  <2>3. c # cpu
    BY <1>7, <2>2
  <2>4. Len(stack'[c]) = Height(c) /\ Height(c) \in 1 .. Len(stack'[c])
    BY <1>5, <2>1, <2>3
  <2> QED
    BY <1>6, <2>2, <2>4
<1>14. FlagMasksInterrupts'
  BY <1>1, <1>2 DEF FlagMasksInterrupts
<1> QED
  BY <1>9, <1>10, <1>11, <1>12, <1>13, <1>14 DEF IInv

LEMMA EnterSectionInv ==
  ASSUME IInv, EnterSection
  PROVE  IInv'
<1> DEFINE f == [TopOf(cpu) EXCEPT !.depth = @ + 1]
<1>1. /\ InSection /\ TopOf(cpu).depth < MaxSections
      /\ stack' = WithTop(f) /\ cpu' = cpu /\ picVars' = picVars /\ ~iflag'
  BY DEF EnterSection, enter_critical_section
<1>2. Scalars' /\ num_tasks' = num_tasks
  BY DEF EnterSection, enter_critical_section, tableVars, clockVars, IInv, TypeOK,
       Scalars
<1>3. /\ cpu # Wild /\ TopOf(cpu) \in Frames
      /\ TopOf(cpu).pc \in {"body", "work"} /\ Fits(TopOf(cpu), cpu, Height(cpu))
  BY <1>1, AtFacts DEF InSection
<1>4. /\ f \in Frames /\ f.kind = TopOf(cpu).kind /\ f.pc = TopOf(cpu).pc
      /\ f.depth > 0
  BY <1>1, <1>3, KernelAssumption DEF Frames
<1> HIDE DEF f
<1>5. Fits(f, cpu, Height(cpu))
  BY <1>3, <1>4 DEF Fits
<1>6. cpu \in Stacks /\ Height(cpu) > 0
  BY <1>3, TopFacts
<1> QED
  BY <1>1, <1>2, <1>3, <1>4, <1>5, <1>6, RetopInv

LEMMA LeaveSectionInv ==
  ASSUME IInv, LeaveSection
  PROVE  IInv'
<1> DEFINE top == TopOf(cpu)
           pc  == IF top.pc = "work" /\ top.depth = 1 THEN "eoi" ELSE top.pc
           f   == [top EXCEPT !.depth = @ - 1,
                              !.pc = IF @ = "work" /\ top.depth = 1
                                       THEN "eoi" ELSE @]
<1>1. /\ InSection /\ top.depth > 0
      /\ stack' = WithTop(f) /\ cpu' = cpu /\ picVars' = picVars
      /\ ~in_critical_section'
  BY DEF LeaveSection, exit_critical_section
<1>2. Scalars' /\ num_tasks' = num_tasks
  BY DEF LeaveSection, exit_critical_section, tableVars, clockVars, IInv, TypeOK,
       Scalars
<1>3. /\ cpu # Wild /\ cpu \in Stacks /\ Height(cpu) > 0
      /\ top \in Frames /\ Fits(top, cpu, Height(cpu))
      /\ \/ top.kind = "base" /\ top.pc = "body"
         \/ top.kind = "keyboard" /\ top.pc = "work"
  BY <1>1, AtFacts DEF InSection
<1>4. top.depth \in 1 .. MaxSections
  BY <1>1, <1>3, KernelAssumption DEF Frames
<1>5. pc \in Points /\ pc \notin Early /\ pc # "iret"
  BY <1>3 DEF Points, Early
<1>6. f.kind = top.kind /\ f.pc = pc /\ f.depth = top.depth - 1 /\ f \in Frames
  <2>1. /\ top = [kind |-> top.kind, pc |-> top.pc, depth |-> top.depth]
        /\ top.kind \in Kinds
    BY <1>3 DEF Frames
  <2>2. f = [top EXCEPT !.depth = top.depth - 1, !.pc = pc]
    OBVIOUS
  <2>3. top.depth - 1 \in 0 .. MaxSections
    BY <1>4, KernelAssumption
  <2> HIDE DEF f, pc, top
  <2>4. f = [kind |-> top.kind, pc |-> pc, depth |-> top.depth - 1]
    BY <2>1, <2>2
  <2> QED
    BY <1>5, <2>1, <2>3, <2>4 DEF Frames
<1> HIDE DEF f
<1>7. Fits(f, cpu, Height(cpu))
  BY <1>3, <1>4, <1>6 DEF Fits
<1>8. top.pc # "iret"
  BY <1>3
<1> HIDE DEF pc
<1> QED
  BY <1>1, <1>2, <1>3, <1>5, <1>6, <1>7, <1>8, RetopInv

\* A step of a task or of kernel_main that goes on at another point of the same
\* code, outside of any critical section.
LEMMA GoOnInv ==
  ASSUME IInv, NEW kind \in {"base", "timer"}, NEW from, NEW to \in Points,
         At(kind, from), TopOf(cpu).depth = 0,
         from # "iret", to # "iret", to \in Early => from \in Early,
         Fits(GoTo(to), cpu, Height(cpu)),
         stack' = WithTop(GoTo(to)), cpu' = cpu, picVars' = picVars,
         Scalars', num_tasks' = num_tasks, ~in_critical_section'
  PROVE  IInv'
BY AtFacts, RetopInv

\* Task code runs on the tasks' stacks and kernel_main on the boot stack.
LEMMA BootHasNoTaskPoint ==
  ASSUME IInv, NEW pc, At("base", pc)
  PROVE  /\ pc \in TaskPoints => cpu # Boot
         /\ pc \in BootPoints => cpu = Boot
BY AtFacts DEF Fits, TaskPoints, BootPoints, Early

LEMMA TaskInv ==
  ASSUME IInv, Task
  PROVE  IInv'
<1> DEFINE Known == {"RUNNING", "READY", "BLOCKED"}
<1>1. \A p \in TaskPoints \cup {"eoi"} :
        p \in Points /\ p \notin Early /\ p # "iret"
  BY DEF TaskPoints, Points, Early
<1>2. ASSUME NEW from \in TaskPoints, NEW to \in TaskPoints, At("base", from),
             TopOf(cpu).depth = 0
      PROVE  Fits(GoTo(to), cpu, Height(cpu)) /\ cpu # Wild
  <2>1. to \in Points /\ cpu # Boot
    BY <1>1, <1>2, BootHasNoTaskPoint
  <2>2. /\ cpu # Wild /\ Fits(TopOf(cpu), cpu, Height(cpu))
        /\ TopOf(cpu).kind = "base" /\ GoTo(to).kind = "base"
        /\ GoTo(to).pc = to /\ GoTo(to).depth = 0
    BY <1>2, <2>1, AtFacts
  <2> QED
    BY <2>1, <2>2 DEF Fits, TaskPoints
<1>3. Scalars
  BY DEF IInv, TypeOK, Scalars
<1>4. \A from, to : to \in Known /\ SetCurrentState(from, to)
        => state' \in [TaskIds -> {"READY", "RUNNING", "BLOCKED"}]
  BY <1>3 DEF SetCurrentState, Scalars
<1>5. CASE TaskEntry
  <2>1. At("base", "entry") /\ picVars' = picVars
    BY <1>5 DEF TaskEntry
  <2>2. Scalars' /\ num_tasks' = num_tasks
    BY <1>3, <1>5 DEF TaskEntry, tableVars, clockVars, Scalars
  <2> QED
    BY <1>1, <1>2, <1>5, <2>1, <2>2, AtFacts, GoOnInv DEF TaskEntry, ReturnTo,
       TaskPoints
<1>6. CASE TaskYield
  <2>1. At("base", "body") /\ picVars' = picVars /\ ~in_critical_section
    BY <1>6, AtFacts DEF TaskYield, IInv, FlagMasksInterrupts
  <2>2. Scalars' /\ num_tasks' = num_tasks
    BY <1>3, <1>4, <1>6 DEF TaskYield, clockVars, Scalars
  <2> QED
    BY <1>1, <1>2, <1>6, <2>1, <2>2, GoOnInv DEF TaskYield, ReturnTo, TaskPoints
<1>7. CASE TaskReturn
  <2>1. At("base", "body") /\ picVars' = picVars /\ ~in_critical_section
    BY <1>7, AtFacts DEF TaskReturn, IInv, FlagMasksInterrupts
  <2>2. Scalars' /\ num_tasks' = num_tasks
    BY <1>3, <1>4, <1>7 DEF TaskReturn, clockVars, Scalars
  <2> QED
    BY <1>1, <1>2, <1>7, <2>1, <2>2, GoOnInv DEF TaskReturn, ReturnTo, TaskPoints
<1>8. ASSUME NEW from \in {"yield", "exit"}, NEW to \in {"body", "exit"},
             At("base", from), Schedule(to), UNCHANGED <<picVars, clockVars>>
      PROVE  IInv'
  <2>1. TopOf(cpu).depth = 0 /\ TopOf(cpu).kind = "base" /\ TopOf(cpu).pc = from
    BY <1>8, AtFacts
  <2>2. /\ Fits(GoTo(to), cpu, Height(cpu)) /\ cpu # Wild
        /\ Fits(GoTo("switched"), cpu, Height(cpu))
    BY <1>2, <1>8, <2>1 DEF TaskPoints
  <2>3. /\ timer_ticks' \in 0 .. SliceTicks - 1 /\ boot_ticks' \in Nat
        /\ first_task' \in TaskIds
    BY <1>3, <1>8 DEF clockVars, Scalars
  <2>4. to \in Points \ Early /\ to # "iret"
    BY <1>1 DEF TaskPoints
  <2> QED
    BY <1>8, <2>1, <2>2, <2>3, <2>4, ScheduleInv
<1>9. CASE YieldSchedule
  BY <1>8, <1>9 DEF YieldSchedule
<1>10. CASE ExitSchedule
  BY <1>8, <1>10 DEF ExitSchedule
<1>11. ASSUME NEW kind \in {"base", "timer"}, SwitchedIn(kind)
       PROVE  IInv'
  <2> DEFINE to == IF kind = "timer" THEN "eoi" ELSE "body"
  <2>1. /\ At(kind, "switched") /\ picVars' = picVars /\ stack' = WithTop(GoTo(to))
        /\ cpu' = cpu /\ in_critical_section' = in_critical_section
    BY <1>11 DEF SwitchedIn, ReturnTo
  <2>2. TopOf(cpu).depth = 0 /\ ~in_critical_section
    BY <2>1, AtFacts
  <2>3. Scalars' /\ num_tasks' = num_tasks
    BY <1>3, <1>11 DEF SwitchedIn, tableVars, clockVars, Scalars
  <2>4. to \in Points /\ to \notin Early /\ to # "iret"
    BY <1>1 DEF TaskPoints
  <2>5. Fits(GoTo(to), cpu, Height(cpu))
    <3>1. CASE kind = "base"
      BY <1>2, <2>1, <2>2, <3>1 DEF TaskPoints
    <3>2. CASE kind = "timer"
      BY <2>1, <2>2, <2>4, <3>2, AtFacts DEF Fits
    <3> QED
      BY <3>1, <3>2
  <2> HIDE DEF to
  <2> QED
    BY <2>1, <2>2, <2>3, <2>4, <2>5, GoOnInv
<1> QED
  BY <1>5, <1>6, <1>7, <1>9, <1>10, <1>11 DEF Task

\* A new task's stack was empty, so its activation disturbs no other.
LEMMA CreateTaskInv ==
  ASSUME IInv, CreateTask
  PROVE  IInv'
<1> DEFINE to == IF num_tasks + 1 = NTasks THEN "delay" ELSE "create"
           f  == GoTo(to)
           h  == Height(cpu)
           new == <<Frame("base", "entry")>>
           Owes(c, i, irq) ==
             /\ stack'[c][i].kind # "base" /\ stack'[c][i].pc # "iret"
             /\ Irq(stack'[c][i].kind) = irq
<1>1. /\ At("base", "create") /\ num_tasks < NTasks /\ num_tasks' = num_tasks + 1
      /\ stack' = [WithTop(f) EXCEPT ![num_tasks] = new]
      /\ cpu' = cpu /\ isr' = isr /\ irr' = irr
      /\ in_critical_section' = in_critical_section
  BY DEF CreateTask, task_create, picVars
<1>2. cpu = Boot /\ ~in_critical_section /\ cpu # Wild
  BY <1>1, BootHasNoTaskPoint, AtFacts DEF BootPoints
<1>3. /\ num_tasks \in TaskIds /\ num_tasks \in Stacks /\ num_tasks # Boot
      /\ stack[num_tasks] = <<>> /\ TaskIds \subseteq Stacks /\ Boot \in Stacks
      /\ stack \in [Stacks -> Seq(Frames)] /\ num_tasks \in Nat
  BY <1>1, TasksAssumption DEF IInv, TypeOK, NotYet, TaskIds, Stacks
<1>4. to \in {"delay", "create"} /\ to \in Points
  BY DEF Points
<1>5. /\ f \in Frames /\ f.kind = "base" /\ f.pc = to /\ f.depth = 0
      /\ h \in Nat \ {0} /\ Fits(TopOf(cpu), cpu, h)
      /\ TopOf(cpu).kind = "base" /\ TopOf(cpu) = stack[cpu][h]
  BY <1>1, <1>2, <1>4, AtFacts, TopFacts
<1>6. /\ new \in Seq(Frames) /\ Len(new) = 1
      /\ new[1].kind = "base" /\ new[1].pc = "entry" /\ new[1].depth = 0
  BY KernelAssumption DEF Frame, Frames, Kinds, Points
<1> HIDE DEF to, f, new
<1>7. /\ stack' \in [Stacks -> Seq(Frames)]
      /\ stack'[num_tasks] = new
      /\ \A c \in Stacks : c # num_tasks =>
           /\ Len(stack'[c]) = Height(c)
           /\ \A i \in 1 .. Height(c) :
                stack'[c][i] = IF c = cpu /\ i = h THEN f ELSE stack[c][i]
      /\ \A c \in Stacks : Height(c) \in Nat
  <2>1. /\ WithTop(f) \in [Stacks -> Seq(Frames)]
        /\ \A c \in Stacks :
             /\ Len(WithTop(f)[c]) = Height(c)
             /\ \A i \in 1 .. Height(c) :
                  WithTop(f)[c][i] = IF c = cpu /\ i = h THEN f ELSE stack[c][i]
    BY <1>2, <1>5, WithTopValue DEF IInv
  <2>2. \A c \in Stacks : Height(c) \in Nat
    BY <1>3 DEF Height
  <2>3. \A c \in Stacks : stack'[c] = IF c = num_tasks THEN new ELSE WithTop(f)[c]
    BY <1>1, <1>3, <2>1
  <2>4. stack' \in [Stacks -> Seq(Frames)]
    BY <1>1, <1>3, <1>6, <2>1
  <2> QED
    BY <1>3, <2>1, <2>2, <2>3, <2>4
<1>17. Len(stack'[num_tasks]) = 1
  BY <1>6, <1>7
<1>8. Height(num_tasks) = 0
  BY <1>3, EmptySeq DEF Height
<1>9. \A c \in Stacks : \A i \in 1 .. Len(stack'[c]) : \A irq :
        Owes(c, i, irq) <=> i \in 1 .. Height(c) /\ Pending(c, i, irq)
  <2> SUFFICES ASSUME NEW c \in Stacks, NEW i \in 1 .. Len(stack'[c]), NEW irq
               PROVE  Owes(c, i, irq) <=> i \in 1 .. Height(c) /\ Pending(c, i, irq)
    OBVIOUS
  <2>1. CASE c = num_tasks
    <3>2. i = 1
      <4>1. Len(stack'[c]) = 1
        BY <1>17, <2>1, Zenon
      <4> QED
        BY <4>1
    <3>1. stack'[c][i] = new[1]
      BY <1>7, <2>1, <3>2
    <3> QED
      BY <1>6, <1>8, <2>1, <3>1
  <2>2. CASE c # num_tasks
    BY <1>5, <1>7, <2>2 DEF Pending
  <2> QED
    BY <2>1, <2>2
<1>10. \A c \in Stacks : \A i \in 1 .. Height(c) : i \in 1 .. Len(stack'[c])
  BY <1>7, <1>8
<1> HIDE DEF Owes
<1>11. TypeOK'
  <2>1. stack'[cpu] # <<>>
    BY <1>2, <1>3, <1>5, <1>7, EmptySeq
  <2>2. /\ state' \in [TaskIds -> {"READY", "RUNNING", "BLOCKED"}]
        /\ rsp' \in [TaskIds -> Contexts]
    BY <1>3 DEF CreateTask, task_create, Saved, Contexts, IInv, TypeOK
  <2>3. num_tasks' \in 0 .. NTasks
    BY <1>1, <1>3, TasksAssumption
  <2> QED
    BY <1>1, <1>2, <1>7, <2>1, <2>2, <2>3 DEF CreateTask, task_create, IInv,
       TypeOK, PicTypeOK, clockVars
<1>12. Shaped'
  <2>1. Fits(f, cpu, h)
    BY <1>2, <1>4, <1>5 DEF Fits, BootPoints
  <2>2. Fits(new[1], num_tasks, 1)
    BY <1>3, <1>6 DEF Fits, TaskPoints
  <2>3. ASSUME NEW c \in Stacks, NEW i \in 1 .. Len(stack'[c])
        PROVE  Fits(stack'[c][i], c, i)
    <3>1. CASE c = num_tasks
      <4>1. i = 1
        <5>1. Len(stack'[c]) = 1
          BY <1>17, <3>1, Zenon
        <5> QED
          BY <5>1
      <4> QED
        BY <1>7, <2>2, <3>1, <4>1
    <3>2. CASE c # num_tasks
      BY <1>7, <2>1, <3>2 DEF IInv, Shaped
    <3> QED
      BY <3>1, <3>2
  <2> QED
    BY <2>3 DEF Shaped, Fits, Height
<1>13. NotYet'
  <2>1. ASSUME NEW t \in TaskIds, t >= num_tasks + 1
        PROVE  stack'[t] = <<>>
    <3>1. t # num_tasks /\ t >= num_tasks
      BY <1>3, <2>1 DEF TaskIds
    <3>2. stack[t] = <<>>
      BY <3>1 DEF IInv, NotYet
    <3> QED
      BY <1>3, <1>7, <3>1, <3>2, EmptySeq DEF Height
  <2>2. stack'[Boot][1] = f
    <3>1. h = 1
      BY <1>5 DEF Fits
    <3> QED
      BY <1>2, <1>3, <1>7, <3>1
  <2>3. f.pc \notin Early
    BY <1>4, <1>5 DEF Early
  <2> QED
    BY <1>1, <2>1, <2>2, <2>3 DEF NotYet
<1>14. InServiceMatches'
  <2> SUFFICES ASSUME NEW irq \in Irqs
               PROVE  /\ irq \in isr <=> \E c \in Stacks : \E i \in 1 .. Len(stack'[c]) :
                                           Owes(c, i, irq)
                      /\ \A c, d \in Stacks :
                         \A i \in 1 .. Len(stack'[c]), j \in 1 .. Len(stack'[d]) :
                           Owes(c, i, irq) /\ Owes(d, j, irq) => c = d /\ i = j
    BY <1>1 DEF InServiceMatches, Height, Pending, Owes
  <2>1. irq \in isr <=> \E c \in Stacks : \E i \in 1 .. Height(c) :
                         Pending(c, i, irq)
    BY DEF IInv, InServiceMatches
  <2>2. irq \in isr <=> \E c \in Stacks : \E i \in 1 .. Len(stack'[c]) :
                         Owes(c, i, irq)
    BY <1>9, <1>10, <2>1
  <2>3. \A c, d \in Stacks : \A i \in 1 .. Height(c), j \in 1 .. Height(d) :
          Pending(c, i, irq) /\ Pending(d, j, irq) => c = d /\ i = j
    BY DEF IInv, InServiceMatches
  <2> QED
    BY <1>9, <2>2, <2>3
<1>15. UnderTimer'
  <2> SUFFICES ASSUME NEW c \in Stacks, NEW i \in 1 .. Len(stack'[c]),
                      Owes(c, i, KeyboardIrq), c # cpu \/ TimerIrq \in isr
               PROVE  Owes(c, Len(stack'[c]), TimerIrq)
    BY <1>1 DEF UnderTimer, Height, Pending, Owes
  <2>1. i \in 1 .. Height(c) /\ Pending(c, i, KeyboardIrq)
    BY <1>9
  <2>2. Pending(c, Height(c), TimerIrq)
    BY <2>1 DEF IInv, UnderTimer
  <2>3. c # num_tasks
    BY <1>8, <2>1
  <2>4. Len(stack'[c]) = Height(c) /\ Height(c) \in 1 .. Height(c)
    BY <1>7, <2>1, <2>3
  <2> QED
    BY <1>9, <2>2, <2>4
<1>16. FlagMasksInterrupts'
  BY <1>1, <1>2 DEF FlagMasksInterrupts
<1> QED
  BY <1>11, <1>12, <1>13, <1>14, <1>15, <1>16 DEF IInv

\* The boot stack, which start_multitasking leaves for good, holds kernel_main
\* alone by then, and no saved context is on it.
LEMMA StartJumpInv ==
  ASSUME IInv, StartJump
  PROVE  IInv'
<1> DEFINE Owes(c, i, irq) ==
             /\ stack'[c][i].kind # "base" /\ stack'[c][i].pc # "iret"
             /\ Irq(stack'[c][i].kind) = irq
<1>1. /\ At("base", "jump") /\ num_tasks' = num_tasks /\ isr' = isr /\ irr' = irr
      /\ stack' = [stack EXCEPT ![Boot] = <<>>]
      /\ in_critical_section' = in_critical_section
  BY DEF StartJump, tableVars, picVars
<1>2. /\ cpu = Boot /\ TopOf(Boot).pc = "jump" /\ TopOf(Boot).kind = "base"
      /\ ~in_critical_section /\ Boot \in Stacks /\ Wild \notin Stacks
      /\ Height(Boot) = 1 /\ stack[Boot][1].kind = "base"
  BY <1>1, BootHasNoTaskPoint, AtFacts, TopFacts DEF BootPoints, Fits
<1>3. /\ cpu' \in Stacks \cup {Wild} /\ iflag' \in BOOLEAN
      /\ cpu' # Wild => Height(cpu') > 0 /\ cpu' # Boot
  <2>1. CASE current_task = Null
    BY <2>1 DEF StartJump, IInv, TypeOK
  <2>2. CASE current_task # Null
    <3>1. rsp[current_task] \in Contexts /\ SwitchTo(rsp[current_task], "start")
      BY <2>2 DEF StartJump, IInv, TypeOK
    <3>2. /\ cpu' \in Stacks \cup {Wild} /\ iflag' \in BOOLEAN
          /\ cpu' # Wild => /\ Height(cpu') > 0
                            /\ TopOf(cpu').pc \in {"entry", "switched"}
      BY <3>1, SwitchToFacts
    <3>3. TopOf(Boot).pc \notin {"entry", "switched"}
      BY <1>2
    <3> QED
      BY <3>2, <3>3
  <2> QED
    BY <2>1, <2>2
<1>4. /\ stack' \in [Stacks -> Seq(Frames)]
      /\ Len(stack'[Boot]) = 0 /\ stack'[Boot] = <<>>
      /\ \A c \in Stacks : c # Boot => stack'[c] = stack[c]
  BY <1>1, <1>2, EmptySeq DEF IInv, TypeOK
<1>5. \A irq : ~Pending(Boot, 1, irq)
  BY <1>2 DEF Pending
<1>6. \A c \in Stacks : \A i \in 1 .. Len(stack'[c]) : \A irq :
        /\ c # Boot /\ i \in 1 .. Height(c)
        /\ Owes(c, i, irq) <=> Pending(c, i, irq)
  BY <1>4 DEF Pending, Height
<1>7. \A c \in Stacks : \A i \in 1 .. Height(c) : \A irq :
        Pending(c, i, irq) => i \in 1 .. Len(stack'[c])
  <2> SUFFICES ASSUME NEW c \in Stacks, NEW i \in 1 .. Height(c), NEW irq,
                      Pending(c, i, irq)
               PROVE  i \in 1 .. Len(stack'[c])
    OBVIOUS
  <2>1. c # Boot
    BY <1>2, <1>5
  <2> QED
    BY <1>4, <2>1 DEF Height
<1> HIDE DEF Owes
<1>8. TypeOK'
  <2>1. cpu' # Wild => stack'[cpu'] # <<>>
    BY <1>3, <1>4, EmptySeq DEF Height
  <2> QED
    BY <1>1, <1>3, <1>4, <2>1 DEF StartJump, IInv, TypeOK, PicTypeOK, tableVars
<1>9. Shaped'
  <2>1. \A c \in Stacks : \A i \in 1 .. Len(stack'[c]) : Fits(stack'[c][i], c, i)
    BY <1>4, <1>6 DEF IInv, Shaped, Height
  <2> QED
    BY <2>1 DEF Shaped, Fits, Height
<1>10. NotYet'
  BY <1>1, <1>4, TasksAssumption DEF IInv, NotYet, Stacks
<1>11. InServiceMatches'
  <2> SUFFICES ASSUME NEW irq \in Irqs
               PROVE  /\ irq \in isr <=> \E c \in Stacks : \E i \in 1 .. Len(stack'[c]) :
                                           Owes(c, i, irq)
                      /\ \A c, d \in Stacks :
                         \A i \in 1 .. Len(stack'[c]), j \in 1 .. Len(stack'[d]) :
                           Owes(c, i, irq) /\ Owes(d, j, irq) => c = d /\ i = j
    BY <1>1 DEF InServiceMatches, Height, Pending, Owes
  <2>1. irq \in isr <=> \E c \in Stacks : \E i \in 1 .. Height(c) :
                         Pending(c, i, irq)
    BY DEF IInv, InServiceMatches
  <2>2. irq \in isr <=> \E c \in Stacks : \E i \in 1 .. Len(stack'[c]) :
                         Owes(c, i, irq)
    BY <1>6, <1>7, <2>1
  <2>3. \A c, d \in Stacks : \A i \in 1 .. Height(c), j \in 1 .. Height(d) :
          Pending(c, i, irq) /\ Pending(d, j, irq) => c = d /\ i = j
    BY DEF IInv, InServiceMatches
  <2> QED
    BY <1>6, <2>2, <2>3
<1>12. UnderTimer'
  <2> SUFFICES ASSUME NEW c \in Stacks, NEW i \in 1 .. Len(stack'[c]),
                      Owes(c, i, KeyboardIrq)
               PROVE  Owes(c, Len(stack'[c]), TimerIrq)
    BY DEF UnderTimer, Height, Pending, Owes
  <2>1. c # Boot /\ i \in 1 .. Height(c) /\ Pending(c, i, KeyboardIrq)
    BY <1>6
  <2>2. Pending(c, Height(c), TimerIrq)
    BY <1>2, <2>1 DEF IInv, UnderTimer
  <2> QED
    BY <1>4, <2>1, <2>2 DEF Pending, Owes, Height
<1>13. FlagMasksInterrupts'
  BY <1>1, <1>2 DEF FlagMasksInterrupts
<1> QED
  BY <1>8, <1>9, <1>10, <1>11, <1>12, <1>13 DEF IInv

\* The steps of kernel_main before start_multitasking leaves its stack.
LEMMA BootingInv ==
  ASSUME IInv, Booting
  PROVE  IInv'
<1>1. \A p \in BootPoints : p \in Points /\ p # "iret"
  BY DEF BootPoints, Points, Early
<1>2. Scalars
  BY DEF IInv, TypeOK, Scalars
<1>3. ASSUME NEW from \in BootPoints, NEW to \in BootPoints,
             to \in Early => from \in Early,
             BootStep(from, to), picVars' = picVars, Scalars',
             num_tasks' = num_tasks, cpu' = cpu,
             in_critical_section' \in {in_critical_section, FALSE}
      PROVE  IInv'
  <2>1. At("base", from) /\ stack' = WithTop(GoTo(to)) /\ cpu = Boot
    BY <1>3, BootHasNoTaskPoint DEF BootStep, ReturnTo
  <2>2. from \notin {"body", "work"}
    BY DEF BootPoints, Early
  <2>3. /\ TopOf(cpu).depth = 0 /\ ~in_critical_section
        /\ \A p \in Points :
             /\ GoTo(p).kind = "base" /\ GoTo(p).pc = p
             /\ GoTo(p).depth = TopOf(cpu).depth
        /\ Fits(TopOf(cpu), cpu, Height(cpu)) /\ TopOf(cpu).kind = "base"
    <3>1. At("base", from)
      BY <2>1
    <3> HIDE <1>3
    <3> QED
      BY <2>2, <3>1, AtFacts
  <2>4. ~in_critical_section'
    BY <1>3, <2>3
  <2>5. Fits(GoTo(to), cpu, Height(cpu))
    <3>1. GoTo(to).kind = "base" /\ GoTo(to).pc = to /\ GoTo(to).depth = 0
      BY <1>1, <2>3
    <3>2. to \in BootPoints /\ to # "work"
      BY DEF BootPoints, Early
    <3> QED
      BY <2>1, <2>3, <3>1, <3>2 DEF Fits
  <2>6. from # "iret" /\ to # "iret" /\ to \in Points
    BY <1>1
  <2> QED
    BY <1>3, <2>1, <2>3, <2>4, <2>5, <2>6, GoOnInv
<1>4. CASE EnableKeyboard
  <2>1. Scalars'
    BY <1>2, <1>4 DEF EnableKeyboard, exit_critical_section, tableVars, clockVars,
       Scalars
  <2> QED
    BY <1>3, <1>4, <2>1 DEF EnableKeyboard, exit_critical_section, tableVars,
       BootStep, ReturnTo, BootPoints, Early
<1>5. CASE InitTasks
  <2>1. num_tasks = 0
    <3>1. At("base", "keyboard") /\ cpu = Boot
      BY <1>5, BootHasNoTaskPoint DEF InitTasks, BootStep, BootPoints, Early
    <3>2. stack[Boot] # <<>> /\ stack[Boot][1].pc = "keyboard"
      BY <3>1, AtFacts, TopFacts DEF Fits, IInv, TypeOK
    <3> QED
      BY <3>2 DEF IInv, NotYet, Early
  <2>2. Scalars' /\ num_tasks' = num_tasks
    BY <1>2, <1>5, <2>1 DEF InitTasks, task_init, clockVars, Scalars
  <2> QED
    BY <1>3, <1>5, <2>2 DEF InitTasks, task_init, BootStep, ReturnTo, BootPoints,
       Early
<1>6. CASE CreateTask
  BY <1>6, CreateTaskInv
<1>7. CASE BootSti
  <2>1. Scalars'
    BY <1>2, <1>7 DEF BootSti, tableVars, clockVars, Scalars
  <2> QED
    BY <1>3, <1>7, <2>1 DEF BootSti, tableVars, BootStep, ReturnTo, BootPoints, Early
<1>8. CASE StartScan
  <2>1. first_task' \in TaskIds /\ iflag' \in BOOLEAN
    BY <1>2, <1>8, ReadyAreTasks DEF StartScan, Scalars
  <2>2. Scalars' /\ num_tasks' = num_tasks
    BY <1>2, <1>8, <2>1 DEF StartScan, tableVars, Scalars
  <2>3. At("base", "scan") /\ cpu' = cpu /\ picVars' = picVars
        /\ in_critical_section' = in_critical_section
    BY <1>8 DEF StartScan
  <2>4. PICK to \in {"halted", "current"} : stack' = WithTop(GoTo(to))
    BY <1>8 DEF StartScan
  <2>5. BootStep("scan", to)
    BY <2>3, <2>4 DEF BootStep, ReturnTo
  <2>6. to \in BootPoints /\ "scan" \in BootPoints /\ to \notin Early
    BY DEF BootPoints, Early
  <2> QED
    BY <1>3, <2>2, <2>3, <2>5, <2>6
<1>9. CASE StartCurrent
  <2>1. Scalars'
    BY <1>2, <1>9 DEF StartCurrent, clockVars, Scalars
  <2> QED
    BY <1>3, <1>9, <2>1 DEF StartCurrent, BootStep, ReturnTo, BootPoints, Early
<1>10. CASE StartRunning
  <2>1. Scalars'
    BY <1>2, <1>10 DEF StartRunning, SetCurrentState, clockVars, Scalars
  <2> QED
    BY <1>3, <1>10, <2>1 DEF StartRunning, BootStep, ReturnTo, BootPoints, Early
<1>11. CASE StartInitialized
  <2>1. Scalars'
    BY <1>2, <1>11 DEF StartInitialized, clockVars, Scalars
  <2> QED
    BY <1>3, <1>11, <2>1 DEF StartInitialized, BootStep, ReturnTo, BootPoints, Early
<1>12. CASE StartJump
  BY <1>12, StartJumpInv
<1> QED
  BY <1>4, <1>5, <1>6, <1>7, <1>8, <1>9, <1>10, <1>11, <1>12 DEF Booting

-----------------------------------------------------------------------------
(* The theorems.                                                           *)

LEMMA InitInv == Init => IInv
<1> SUFFICES ASSUME Init PROVE IInv
  OBVIOUS
<1> USE TasksAssumption, KernelAssumption
<1>1. /\ stack = [c \in Stacks |->
                    IF c = Boot THEN <<Frame("base", "reset")>> ELSE <<>>]
      /\ num_tasks = 0 /\ isr = {} /\ irr = {} /\ cpu = Boot
      /\ ~in_critical_section
  BY DEF Init, PicInit
<1>2. /\ Boot \in Stacks /\ TaskIds \subseteq Stacks
      /\ \A t \in TaskIds : stack[t] = <<>>
      /\ stack[Boot] = <<Frame("base", "reset")>>
  BY <1>1 DEF Stacks
<1>3. Frame("base", "reset") \in Frames /\ Frame("base", "reset").kind = "base"
      /\ Frame("base", "reset").pc = "reset" /\ Frame("base", "reset").depth = 0
  BY DEF Frame, Frames, Kinds, Points
<1>4. \A c \in Stacks : /\ stack[c] \in Seq(Frames)
                         /\ \A i \in 1 .. Height(c) :
                              c = Boot /\ i = 1 /\ stack[c][i] = Frame("base", "reset")
  BY <1>1, <1>2, <1>3 DEF Height, Stacks
<1>5. TypeOK
  <2>1. stack \in [Stacks -> Seq(Frames)] /\ stack[cpu] # <<>>
    BY <1>1, <1>2, <1>4
  <2>2. num_tasks \in 0 .. NTasks /\ 0 \in TaskIds /\ 0 \in 0 .. SliceTicks - 1
    BY <1>1 DEF TaskIds
  <2>3. rsp \in [TaskIds -> Contexts]
    BY DEF Init, Contexts, Saved, Stacks
  <2>4. state \in [TaskIds -> {"READY", "RUNNING", "BLOCKED"}]
    BY DEF Init
  <2> QED
    BY <1>1, <1>2, <2>1, <2>2, <2>3, <2>4 DEF Init, TypeOK, PicTypeOK
<1>6. Shaped
  BY <1>3, <1>4 DEF Shaped, Fits, BootPoints, Early
<1>7. NotYet
  BY <1>1, <1>2 DEF NotYet
<1>8. InServiceMatches /\ UnderTimer
  BY <1>1, <1>3, <1>4 DEF InServiceMatches, UnderTimer, Pending
<1> QED
  BY <1>1, <1>5, <1>6, <1>7, <1>8 DEF IInv, FlagMasksInterrupts

LEMMA StutterInv ==
  ASSUME IInv, UNCHANGED vars
  PROVE  IInv'
BY DEF IInv, vars, taskVars, tableVars, cpuVars, picVars, TypeOK, PicTypeOK, Shaped,
   Fits, NotYet, InServiceMatches, UnderTimer, FlagMasksInterrupts, Pending, Height,
   TopOf

LEMMA NextInv == IInv /\ [Next]_vars => IInv'
<1> SUFFICES ASSUME IInv, [Next]_vars PROVE IInv'
  OBVIOUS
<1>1. CASE Devices
  BY <1>1, DevicesInv
<1>2. ASSUME NEW kind \in {"timer", "keyboard"}, Interrupt(kind) PROVE IInv'
  BY <1>2, InterruptInv
<1>3. CASE Handler
  <2>1. ASSUME NEW kind \in {"timer", "keyboard"},
               EndOfInterrupt(kind) \/ Iret(kind)
        PROVE  IInv'
    BY <2>1, EndOfInterruptInv, IretInv
  <2> QED
    BY <1>3, <2>1, TimerHandlerInv, KeyIgnoredInv, KeyTakenInv DEF Handler
<1>4. CASE Section
  BY <1>4, EnterSectionInv, LeaveSectionInv DEF Section
<1>5. CASE Task
  BY <1>5, TaskInv
<1>6. CASE Booting
  BY <1>6, BootingInv
<1>7. CASE UNCHANGED vars
  BY <1>7, StutterInv
<1> QED
  BY <1>1, <1>2, <1>3, <1>4, <1>5, <1>6, <1>7 DEF Next

\* Every reachable state satisfies the inductive invariant.
LEMMA Inductive == Spec => []IInv
BY InitInv, NextInv, PTL DEF Spec

\* The variables keep their types; in particular the executing stack always has
\* an activation, so no iretq or switch runs off a stack the kernel knows.
THEOREM TypeCorrect == Spec => []TypeOK
<1>1. IInv => TypeOK
  BY DEF IInv
<1> QED
  BY <1>1, Inductive, PTL

\* A line is in service exactly while one handler owes its end-of-interrupt,
\* although timer_handler calls schedule before pic_send_eoi.
THEOREM InServiceCorrect == Spec => []InServiceMatches
<1>1. IInv => InServiceMatches
  BY DEF IInv
<1> QED
  BY <1>1, Inductive, PTL

\* in_critical_section is set only with interrupts off, by the activation that
\* executes: what timer_handler's and schedule's tests of the flag rely on.
THEOREM FlagCorrect == Spec => []FlagMasksInterrupts
<1>1. IInv => FlagMasksInterrupts
  BY DEF IInv
<1> QED
  BY <1>1, Inductive, PTL

\* keyboard_handler never runs inside itself, on any stack: the shell and the
\* file system are reached from one activation at a time.
THEOREM KeyboardMutex == Spec => []KeyboardNotReentered
<1>1. IInv => KeyboardNotReentered
  BY DEF IInv, InServiceMatches, KeyboardNotReentered, Pending, Irq, Irqs
<1> QED
  BY <1>1, Inductive, PTL

\* The non-specific EOI always ends the interrupt of the handler that sends it.
THEOREM EoiCorrect == Spec => EoiEndsOwnInterrupt
<1>1. ASSUME IInv, NEW kind \in {"timer", "keyboard"}, EndOfInterrupt(kind)
      PROVE  isr' = isr \ {Irq(kind)} /\ isr' # isr
  BY <1>1, EoiFacts DEF EndOfInterrupt
<1>2. IInv /\ [Next]_vars =>
        [\A kind \in {"timer", "keyboard"} :
           EndOfInterrupt(kind) => isr' = isr \ {Irq(kind)} /\ isr' # isr]_vars
  BY <1>1
<1> QED
  BY <1>2, Inductive, PTL DEF Spec, EoiEndsOwnInterrupt

\* No interrupt is accepted while a keyboard handler that owes its
\* end-of-interrupt is on a stack that does not execute: timer_handler has
\* called schedule above it, and sends its own only when that stack runs again.
THEOREM AwayKeyCorrect == Spec => []AwayKeyMasksAll
<1>1. IInv => AwayKeyMasksAll
  <2> SUFFICES ASSUME IInv,
                      NEW c \in Stacks \ {cpu}, NEW i \in 1 .. Height(c),
                      Pending(c, i, KeyboardIrq), NEW irq \in Irqs
               PROVE  ~Deliverable(irq)
    BY DEF AwayKeyMasksAll
  <2>1. Pending(c, Height(c), TimerIrq)
    BY DEF IInv, UnderTimer
  <2>2. Height(c) \in 1 .. Height(c)
    BY DEF IInv, TypeOK, Height
  <2>3. TimerIrq \in isr
    BY <2>1, <2>2 DEF IInv, InServiceMatches, Irqs
  <2> QED
    BY <2>3 DEF Deliverable, Irqs, TimerIrq, KeyboardIrq
<1> QED
  BY <1>1, Inductive, PTL

-----------------------------------------------------------------------------
(***************************************************************************)
(* No task is lost, and the stack that executes is the current task's, for *)
(* every number of tasks that do not return, if fewer ticks come during    *)
(* boot than a time slice has.  Without that bound it is false: a slice    *)
(* that ends before start_multitasking loses a task.                       *)
(***************************************************************************)

\* What boot needs: no slice ends in it.  kernel.c's two tasks do not return.
ShortBoot == MaxBootTicks < SliceTicks /\ Returning = {}

-----------------------------------------------------------------------------
(* The invariant: one half for the boot, one for the tasks.                *)

\* How far kernel_main has come, whatever interrupts lie on top of it.
Point == stack[Boot][1].pc

BeforeTasks == {"reset", "keyboard", "create"}
Starting == {"running", "initialized", "jump"}

\* The context of t is on t's own stack, as it was saved.
Resting(t) ==
  /\ rsp[t].stack = t /\ rsp[t].height = Height(t) /\ Height(t) > 0
  /\ TopOf(t).pc = IF rsp[t].layout = "create" THEN "entry" ELSE "switched"

\* A timer handler has begun and has not counted its tick.
Entered ==
  \E i \in 1 .. Height(Boot) :
    stack[Boot][i].kind = "timer" /\ stack[Boot][i].pc = "enter"

\* The ticks that have come and are not counted.
Due == (IF TimerIrq \in irr THEN 1 ELSE 0) + (IF Entered THEN 1 ELSE 0)

TicksLeft == boot_ticks <= MaxBootTicks /\ timer_ticks + Due <= boot_ticks

BootPhase ==
  /\ TicksLeft
  /\ Point \notin BeforeTasks => num_tasks = NTasks
  /\ IF Point \in Starting THEN current_task \in TaskIds ELSE current_task = Null
  /\ Point = "jump" => scheduler_initialized
  /\ \A t \in 0 .. num_tasks - 1 :
       /\ rsp[t].layout = "create" /\ Resting(t)
       /\ state[t] = "READY" \/ (t = current_task /\ state[t] = "RUNNING")

RunPhase ==
  /\ cpu \in TaskIds /\ current_task = cpu
  /\ num_tasks = NTasks /\ scheduler_initialized
  /\ state[cpu] # "BLOCKED"
  /\ \A t \in TaskIds \ {cpu} : state[t] = "READY" /\ Resting(t)

Phases == (cpu = Boot => BootPhase) /\ (cpu # Boot => RunPhase)

-----------------------------------------------------------------------------
(* Steps that touch the executing stack only.                              *)

Others == \A c \in Stacks \ {cpu} : stack'[c] = stack[c]

LEMMA WithTopOthers ==
  ASSUME IInv, cpu # Wild, NEW f, stack' = WithTop(f)
  PROVE  Others
BY DEF IInv, TypeOK, WithTop, Others

LEMMA BootIsAStack == Boot \in Stacks /\ Boot \notin TaskIds /\ Wild # Boot
                      /\ TaskIds \subseteq Stacks /\ Wild \notin Stacks
                      /\ Null \notin TaskIds
BY TasksAssumption DEF Stacks

\* A task that is not executing keeps its context, if rsp does not change.
LEMMA RestingStays ==
  ASSUME NEW t \in TaskIds, Resting(t), stack'[t] = stack[t], rsp'[t] = rsp[t]
  PROVE  Resting(t)'
BY DEF Resting, Height, TopOf

\* Whatever a handler, a section or a device does.
LEMMA QuietRun ==
  ASSUME RunPhase, Others, cpu' = cpu, UNCHANGED <<num_tasks, rsp, current_task>>,
         scheduler_initialized' = scheduler_initialized,
         \A t \in TaskIds \ {cpu} : state'[t] = state[t],
         state'[cpu] # "BLOCKED"
  PROVE  RunPhase'
<1>1. \A t \in TaskIds \ {cpu} : Resting(t)'
  BY RestingStays, BootIsAStack DEF RunPhase, Others
<1> QED BY <1>1 DEF RunPhase

LEMMA QuietBoot ==
  ASSUME BootPhase, cpu = Boot, Others, cpu' = cpu, tableVars' = tableVars,
         num_tasks \in 0 .. NTasks, Point' = Point, TicksLeft'
  PROVE  BootPhase'
<1>1. \A t \in 0 .. num_tasks - 1 : t \in TaskIds
  BY TasksAssumption DEF TaskIds
<1>2. UNCHANGED <<num_tasks, state, rsp, current_task, scheduler_initialized>>
  BY DEF tableVars
<1>3. \A t \in 0 .. num_tasks - 1 : Resting(t)'
  BY <1>1, <1>2, RestingStays, BootIsAStack DEF BootPhase, Others
<1> QED BY <1>2, <1>3 DEF BootPhase

LEMMA QuietPhases ==
  ASSUME IInv, Phases, Others, cpu' = cpu, tableVars' = tableVars,
         cpu = Boot => Point' = Point /\ TicksLeft'
  PROVE  Phases'
<1>1. CASE cpu = Boot
  <2>1. num_tasks \in 0 .. NTasks
    BY DEF IInv, TypeOK
  <2> QED BY <1>1, <2>1, QuietBoot DEF Phases
<1>2. CASE cpu # Boot
  BY <1>2, QuietRun DEF Phases, tableVars, RunPhase
<1> QED BY <1>1, <1>2

LEMMA EnteredStays ==
  ASSUME TypeOK, cpu = Boot, NEW f \in Frames, stack' = WithTop(f), f.pc # "enter",
         Entered'
  PROVE  Entered
<1>1. cpu # Wild /\ Boot \in Stacks
  BY BootIsAStack
<1>2. /\ Height(Boot)' = Height(Boot)
      /\ \A i \in 1 .. Height(Boot) :
           stack'[Boot][i] = IF i = Height(Boot) THEN f ELSE stack[Boot][i]
  BY <1>1, WithTopFacts
<1> QED BY <1>2 DEF Entered

LEMMA TicksStay ==
  ASSUME IInv, TicksLeft, irr' = irr, UNCHANGED <<boot_ticks, timer_ticks>>,
         Entered' => Entered
  PROVE  TicksLeft'
BY DEF TicksLeft, Due, IInv, TypeOK

\* A handler, or a task's code, goes on.
LEMMA RetopPhases ==
  ASSUME IInv, Phases, cpu # Wild, NEW f \in Frames, stack' = WithTop(f),
         cpu' = cpu, tableVars' = tableVars, irr' = irr,
         UNCHANGED <<boot_ticks, timer_ticks>>,
         f.pc # "enter", f.kind = TopOf(cpu).kind, cpu = Boot => f.kind # "base"
  PROVE  Phases'
<1>1. Others
  BY WithTopOthers
<1>2. ASSUME cpu = Boot PROVE Point' = Point /\ TicksLeft'
  <2>1. Height(cpu) \in Nat \ {0, 1}
    BY <1>2, TopFacts DEF Fits
  <2>2. Point' = Point
    BY <1>2, <2>1, WithTopFacts, BootIsAStack DEF Point, IInv
  <2>3. TicksLeft'
    BY <1>2, EnteredStays, TicksStay DEF IInv, Phases, BootPhase
  <2> QED BY <2>2, <2>3
<1> QED BY <1>1, <1>2, QuietPhases

LEMMA DevicesPhases == ASSUME IInv, Phases, Devices PROVE Phases'
<1>1. /\ stack' = stack /\ cpu' = cpu /\ tableVars' = tableVars
      /\ timer_ticks' = timer_ticks
  BY DEF Devices, TimerFires, KeyPressed, taskVars, tableVars, cpuVars, clockVars
<1>2. Others /\ Point' = Point /\ (Entered' <=> Entered)
  BY <1>1 DEF Others, Point, Entered, Height
<1>3. ASSUME cpu = Boot PROVE TicksLeft'
  <2> USE <1>1, <1>2, <1>3 DEF IInv, TypeOK, Phases, BootPhase, TicksLeft, Due
  <2>1. CASE TimerFires
    <3>1. /\ TimerIrq \notin irr /\ TimerIrq \in irr'
          /\ boot_ticks' = boot_ticks + 1 /\ boot_ticks < MaxBootTicks
      BY <2>1 DEF TimerFires, Raise
    <3> QED BY <3>1, KernelAssumption
  <2>2. CASE KeyPressed
    <3>1. (TimerIrq \in irr' <=> TimerIrq \in irr) /\ boot_ticks' = boot_ticks
      BY <2>2 DEF KeyPressed, Raise, TimerIrq, KeyboardIrq, clockVars
    <3> QED BY <3>1
  <2> QED BY <2>1, <2>2 DEF Devices
<1> QED BY <1>1, <1>2, <1>3, QuietPhases

LEMMA InterruptPhases ==
  ASSUME IInv, Phases, NEW kind \in {"timer", "keyboard"}, Interrupt(kind)
  PROVE  Phases'
<1> DEFINE f == Frame(kind, "enter")
<1>1. /\ cpu # Wild /\ cpu' = cpu /\ tableVars' = tableVars
      /\ stack' = [stack EXCEPT ![cpu] = Append(@, f)]
      /\ UNCHANGED <<timer_ticks, boot_ticks>>
      /\ Irq(kind) \in irr /\ irr' = irr \ {Irq(kind)}
      /\ \A j \in isr : Irq(kind) < j
  BY DEF Interrupt, Deliverable, Acknowledge, clockVars
<1>2. /\ cpu \in Stacks /\ stack \in [Stacks -> Seq(Frames)]
      /\ Height(cpu) \in Nat \ {0}
  BY <1>1, TopFacts DEF IInv, TypeOK
<1>3. f \in Frames
  BY KernelAssumption DEF Frame, Frames, Kinds, Points
<1>4. stack'[cpu] = Append(stack[cpu], f) /\ Others
  BY <1>1, <1>2 DEF Others
<1> HIDE DEF f
<1>5. /\ Height(cpu)' = Height(cpu) + 1
      /\ \A i \in 1 .. Height(cpu) : stack'[cpu][i] = stack[cpu][i]
      /\ stack'[cpu][Height(cpu) + 1] = f
  BY <1>1, <1>2, <1>3, <1>4 DEF Height
<1>6. ASSUME cpu = Boot PROVE Point' = Point /\ TicksLeft'
  <2>1. Point' = Point
    BY <1>2, <1>5, <1>6 DEF Point
  <2>2. CASE kind = "keyboard"
    <3>1. f.kind = "keyboard" /\ Irq(kind) = KeyboardIrq
      BY <2>2 DEF f, Frame, Irq
    <3>2. ASSUME Entered' PROVE Entered
      <4>1. PICK i \in 1 .. Height(Boot)' :
              stack'[Boot][i].kind = "timer" /\ stack'[Boot][i].pc = "enter"
        BY <3>2, Zenon DEF Entered
      <4>2. i # Height(Boot) + 1
        BY <1>5, <1>6, <3>1, <4>1
      <4>3. Height(Boot)' = Height(Boot) + 1
        BY <1>1, <1>5, <1>6
      <4>4. i \in 1 .. Height(Boot)
        BY <1>2, <1>6, <4>2, <4>3
      <4> QED BY <1>5, <1>6, <4>1, <4>4 DEF Entered
    <3>3. TimerIrq \in irr' <=> TimerIrq \in irr
      BY <1>1, <3>1 DEF TimerIrq, KeyboardIrq
    <3> QED BY <1>1, <1>6, <2>1, <3>2, <3>3
            DEF IInv, TypeOK, PicTypeOK, Phases, BootPhase, TicksLeft, Due
  <2>3. CASE kind = "timer"
    <3>1. Irq(kind) = TimerIrq
      BY <2>3 DEF Irq
    <3>2. TimerIrq \notin isr
      BY <1>1, <3>1 DEF TimerIrq
    <3>3. ~Entered
      <4> SUFFICES ASSUME NEW i \in 1 .. Height(Boot), stack[Boot][i].kind = "timer",
                          stack[Boot][i].pc = "enter"
                   PROVE  FALSE
        BY DEF Entered
      <4>1. Pending(Boot, i, TimerIrq)
        BY DEF Pending, Irq
      <4> QED BY <3>2, <4>1, BootIsAStack DEF IInv, InServiceMatches, Irqs
    <3> QED BY <1>1, <1>6, <2>1, <3>1, <3>3
            DEF IInv, TypeOK, PicTypeOK, Phases, BootPhase, TicksLeft, Due
  <2> QED BY <2>2, <2>3
<1> QED BY <1>1, <1>4, <1>6, QuietPhases

LEMMA IretPhases ==
  ASSUME IInv, Phases, NEW kind \in {"timer", "keyboard"}, Iret(kind)
  PROVE  Phases'
<1>1. /\ cpu' = cpu /\ tableVars' = tableVars /\ irr' = irr
      /\ UNCHANGED <<timer_ticks, boot_ticks>>
      /\ stack' = [stack EXCEPT ![cpu] = SubSeq(@, 1, Len(@) - 1)]
  BY DEF Iret, picVars, clockVars
<1>2. /\ cpu \in Stacks /\ stack \in [Stacks -> Seq(Frames)]
      /\ Height(cpu) \in Nat \ {0, 1}
  BY AtFacts DEF IInv, TypeOK, Iret, Fits
<1> DEFINE s == SubSeq(stack[cpu], 1, Height(cpu) - 1)
<1>3. stack' = [stack EXCEPT ![cpu] = s]
  BY <1>1 DEF Height
<1>4. Len(s) = Height(cpu) - 1 /\ \A i \in 1 .. Height(cpu) - 1 : s[i] = stack[cpu][i]
  <2>1. stack[cpu] \in Seq(Frames) /\ Len(stack[cpu]) = Height(cpu)
    BY <1>2 DEF Height
  <2>2. \A i \in 1 .. Height(cpu) - 1 : stack[cpu][i] \in Frames
    BY <1>2, <2>1, ElementOfSeq
  <2>3. 1 \in Int /\ Height(cpu) - 1 \in Int /\ 1 <= Height(cpu) - 1
    BY <1>2
  <2> QED BY <2>2, <2>3, SubSeqProperties
<1> HIDE DEF s
<1>5. /\ Height(cpu)' = Height(cpu) - 1 /\ Others
      /\ \A i \in 1 .. Height(cpu) - 1 : stack'[cpu][i] = stack[cpu][i]
  BY <1>1, <1>2, <1>3, <1>4 DEF Height, Others
<1>6. ASSUME cpu = Boot PROVE Point' = Point /\ TicksLeft'
  <2>1. Point' = Point
    BY <1>2, <1>5, <1>6 DEF Point
  <2>2. ASSUME Entered' PROVE Entered
    <3>1. PICK i \in 1 .. Height(Boot)' :
            stack'[Boot][i].kind = "timer" /\ stack'[Boot][i].pc = "enter"
      BY <2>2, Zenon DEF Entered
    <3>2. Height(Boot)' = Height(Boot) - 1
      BY <1>1, <1>5, <1>6
    <3>3. i \in 1 .. Height(Boot) - 1 /\ i \in 1 .. Height(Boot)
      BY <1>2, <1>6, <3>2
    <3> QED BY <1>5, <1>6, <3>1, <3>3 DEF Entered
  <2> QED BY <1>1, <1>6, <2>1, <2>2, TicksStay DEF Phases, BootPhase
<1> QED BY <1>1, <1>5, <1>6, QuietPhases

-----------------------------------------------------------------------------
(* schedule, once the tasks run.                                           *)

\* What simple_switch_task pushed it pops: rbp comes back in rbp.
LEMMA SwitchKeepsFramePointer == Lands("rbp", "switch", "switch") = "rbp"
BY DEF Lands, Popped, Pushed, Callee

\* Whatever schedule does, its caller is another task's or its own to resume.
LEMMA ScheduleRun ==
  ASSUME IInv, RunPhase, NEW pc \in Points, Schedule(pc)
  PROVE  cpu' \in TaskIds /\ RunPhase'
<1>1. /\ cpu \in TaskIds /\ cpu \in Stacks /\ cpu # Wild /\ current_task = cpu
      /\ Null \notin TaskIds /\ NTasks \in Nat \ {0} /\ num_tasks = NTasks
      /\ state[cpu] \in {"READY", "RUNNING"} /\ scheduler_initialized
      /\ ReadyTasks \subseteq TaskIds /\ TypeOK
  BY BootIsAStack, ReadyAreTasks, TasksAssumption DEF RunPhase, IInv, TypeOK
<1>2. \A p \in Points : GoTo(p) \in Frames /\ GoTo(p).pc = p
  BY <1>1, TopFacts DEF Frames, GoTo
<1>3. CASE ReturnTo(pc) /\ tableVars' = tableVars
  <2>1. Others
    BY <1>1, <1>2, <1>3, WithTopOthers DEF ReturnTo
  <2> QED BY <1>1, <1>3, <2>1, QuietRun DEF ReturnTo, tableVars
<1>4. ~ScheduleFirst(pc) /\ ~ScheduleNull(pc)
  BY <1>1 DEF ScheduleFirst, ScheduleNull
<1>5. ~ScheduleNone(pc)
  <2>1. state[cpu] # "RUNNING" => cpu \in ReadyTasks
    BY <1>1 DEF ReadyTasks, TaskIds
  <2> QED BY <1>1, <2>1 DEF ScheduleNone
<1>6. CASE ScheduleSwitch
  <2>1. PICK next \in ReadyTasks \ {current_task} :
          /\ state' = SwitchStates(next)
          /\ current_task' = next
          /\ rsp' = [rsp EXCEPT
                       ![current_task] = Saved(cpu, "switch", Height(cpu))]
          /\ stack' = WithTop(GoTo("switched"))
          /\ SwitchTo(rsp[next], "switch")
    BY <1>6 DEF ScheduleSwitch
  <2>2. next \in TaskIds \ {cpu} /\ Resting(next) /\ rsp[next] \in Contexts
    BY <1>1, <2>1 DEF RunPhase, TypeOK
  <2>3. Resumable(rsp[next], "switch")
    BY <2>2, SwitchKeepsFramePointer DEF Resting, Resumable, Contexts
  <2>4. cpu' = next
    BY <2>1, <2>2, <2>3 DEF SwitchTo, Resting
  <2>5. "switched" \in Points
    BY DEF Points
  <2>6. /\ Height(cpu) \in Nat \ {0}
        /\ \A c \in Stacks :
             /\ Len(stack'[c]) = Height(c)
             /\ \A i \in 1 .. Height(c) :
                  stack'[c][i] = IF c = cpu /\ i = Height(c) THEN GoTo("switched")
                                 ELSE stack[c][i]
    BY <1>1, <1>2, <2>1, <2>5, WithTopFacts DEF Height
  <2>7. Others
    BY <1>1, <1>2, <2>1, <2>5, WithTopOthers
  <2>8. ASSUME NEW t \in TaskIds, t # next PROVE state'[t] = "READY" /\ Resting(t)'
    <3>1. CASE t = cpu
      <4>1. state'[t] = "READY"
        BY <1>1, <2>1, <2>2, <2>8, <3>1 DEF SwitchStates, TypeOK
      <4>2. rsp'[t] = [stack |-> t, layout |-> "switch", height |-> Len(stack'[t])]
        BY <1>1, <2>1, <2>6, <3>1 DEF Saved, TypeOK
      <4>3. Len(stack'[t]) > 0 /\ stack'[t][Len(stack'[t])].pc = "switched"
        BY <1>1, <1>2, <2>5, <2>6, <3>1
      <4> QED BY <4>1, <4>2, <4>3 DEF Resting, Height, TopOf
    <3>2. CASE t # cpu
      <4>1. Resting(t) /\ state[t] = "READY"
        BY <3>2 DEF RunPhase
      <4>2. stack'[t] = stack[t] /\ rsp'[t] = rsp[t] /\ state'[t] = state[t]
        BY <1>1, <2>1, <2>2, <2>7, <2>8, <3>2, BootIsAStack
           DEF Others, SwitchStates, TypeOK
      <4> QED BY <4>1, <4>2, RestingStays
    <3> QED BY <3>1, <3>2
  <2>9. state'[next] = "RUNNING"
    BY <1>1, <2>1, <2>2 DEF SwitchStates, TypeOK
  <2>10. num_tasks' = num_tasks /\ scheduler_initialized'
    BY <1>1, <1>6 DEF ScheduleSwitch
  <2> QED BY <1>1, <2>1, <2>2, <2>4, <2>8, <2>9, <2>10 DEF RunPhase
<1>7. CASE ScheduleRefuses(pc) \/ ScheduleStays(pc)
  BY <1>3, <1>7 DEF ScheduleRefuses, ScheduleStays
<1> QED BY <1>4, <1>5, <1>6, <1>7 DEF Schedule

\* Boot has fewer ticks than a slice: none of them calls schedule.
LEMMA BootTick ==
  ASSUME ShortBoot, IInv, BootPhase, cpu = Boot, TimerHandler
  PROVE  /\ stack' = WithTop(GoTo("eoi")) /\ cpu' = cpu /\ tableVars' = tableVars
         /\ TicksLeft'
<1>1. /\ At("timer", "enter") /\ picVars' = picVars /\ boot_ticks' = boot_ticks
      /\ timer_ticks' = NextTick
  BY DEF TimerHandler
<1>2. /\ Boot \in Stacks /\ Height(Boot) \in Nat \ {0}
      /\ Height(Boot) \in 1 .. Height(Boot)
      /\ stack[Boot][Height(Boot)].kind = "timer"
      /\ stack[Boot][Height(Boot)].pc = "enter"
  BY <1>1, TopFacts DEF At
<1>3. Entered
  BY <1>2 DEF Entered
<1>4. /\ timer_ticks \in Nat /\ timer_ticks + 1 < SliceTicks /\ SliceTicks \in Nat
      /\ timer_ticks + Due <= boot_ticks /\ boot_ticks <= MaxBootTicks
      /\ boot_ticks \in Nat
  BY <1>3, KernelAssumption
     DEF BootPhase, TicksLeft, Due, ShortBoot, IInv, TypeOK
<1>5. NextTick = timer_ticks + 1
  BY <1>4 DEF NextTick
<1>6. ReturnTo("eoi") /\ tableVars' = tableVars
  BY <1>1, <1>4, <1>5 DEF TimerHandler
<1>7. GoTo("eoi") \in Frames /\ GoTo("eoi").pc = "eoi"
  BY <1>1, AtFacts DEF Points
<1>8. /\ Len(stack'[Boot]) = Height(Boot)
      /\ \A i \in 1 .. Height(Boot) :
           stack'[Boot][i] = IF i = Height(Boot) THEN GoTo("eoi") ELSE stack[Boot][i]
  BY <1>2, <1>6, <1>7, WithTopFacts, BootIsAStack DEF IInv, ReturnTo, Height
<1>9. ASSUME NEW i \in 1 .. Height(Boot), stack'[Boot][i].kind = "timer",
             stack'[Boot][i].pc = "enter"
      PROVE  FALSE
  <2>1. i # Height(Boot)
    BY <1>7, <1>8, <1>9
  <2>2. stack[Boot][i].kind = "timer" /\ stack[Boot][i].pc = "enter"
    BY <1>8, <1>9, <2>1
  <2>3. Pending(Boot, i, TimerIrq) /\ Pending(Boot, Height(Boot), TimerIrq)
    BY <1>2, <2>2 DEF Pending, Irq
  <2> QED BY <1>2, <2>1, <2>3 DEF IInv, InServiceMatches, Irqs
<1>10. ~Entered'
  BY <1>8, <1>9 DEF Entered, Height
<1>11. timer_ticks + 1 + (IF TimerIrq \in irr THEN 1 ELSE 0) <= boot_ticks
  BY <1>3, <1>4 DEF Due
<1>12. TicksLeft'
  BY <1>1, <1>4, <1>5, <1>10, <1>11 DEF TicksLeft, Due, picVars
<1> QED BY <1>6, <1>12 DEF ReturnTo

LEMMA TimerHandlerPhases ==
  ASSUME ShortBoot, IInv, Phases, TimerHandler
  PROVE  Phases'
<1>1. At("timer", "enter")
  BY DEF TimerHandler
<1>2. /\ cpu # Wild /\ GoTo("eoi") \in Frames /\ "eoi" \in Points
      /\ Height(cpu) \in Nat \ {0, 1} /\ cpu \in Stacks
  BY <1>1, AtFacts DEF Points, Fits
<1>3. CASE cpu = Boot
  <2>1. BootPhase
    BY <1>3 DEF Phases
  <2>2. /\ stack' = WithTop(GoTo("eoi")) /\ cpu' = cpu /\ tableVars' = tableVars
        /\ TicksLeft'
    BY <1>3, <2>1, BootTick
  <2>3. Others
    BY <1>2, <2>2, WithTopOthers
  <2>4. Point' = Point
    BY <1>2, <1>3, <2>2, WithTopFacts DEF Point, IInv
  <2> QED BY <2>2, <2>3, <2>4, QuietPhases
<1>4. CASE cpu # Boot
  <2>1. RunPhase
    BY <1>4 DEF Phases
  <2>2. CASE Schedule("eoi")
    BY <1>2, <2>1, <2>2, ScheduleRun, BootIsAStack DEF Phases
  <2>3. CASE ReturnTo("eoi") /\ tableVars' = tableVars
    <3>1. Others
      BY <1>2, <2>3, WithTopOthers DEF ReturnTo
    <3> QED BY <1>4, <2>3, <3>1, QuietPhases DEF ReturnTo
  <2> QED BY <2>2, <2>3 DEF TimerHandler
<1> QED BY <1>3, <1>4

-----------------------------------------------------------------------------
(* The other actions.                                                      *)

LEMMA KeyPhases == ASSUME IInv, Phases, KeyIgnored \/ KeyTaken PROVE Phases'
<1>1. At("keyboard", "enter") /\ "eoi" \in Points /\ "work" \in Points
  BY DEF KeyIgnored, KeyTaken, Points
<1>2. /\ cpu' = cpu /\ tableVars' = tableVars /\ irr' = irr
      /\ UNCHANGED <<boot_ticks, timer_ticks>>
  BY DEF KeyIgnored, KeyTaken, ReturnTo, picVars, clockVars
<1>3. /\ cpu # Wild /\ TopOf(cpu).kind = "keyboard"
      /\ \A p \in Points : /\ GoTo(p) \in Frames /\ GoTo(p).kind = "keyboard"
                           /\ GoTo(p).pc = p
  BY <1>1, AtFacts
<1>4. CASE KeyIgnored
  BY <1>1, <1>2, <1>3, <1>4, RetopPhases DEF KeyIgnored, ReturnTo
<1>5. CASE KeyTaken
  <2> DEFINE f == [GoTo("work") EXCEPT !.depth = 1]
  <2>1. f \in Frames /\ f.kind = "keyboard" /\ f.pc = "work"
    BY <1>1, <1>3, KernelAssumption DEF Frames
  <2>2. stack' = WithTop(f)
    BY <1>5 DEF KeyTaken
  <2> HIDE DEF f
  <2> QED BY <1>2, <1>3, <2>1, <2>2, RetopPhases
<1> QED BY <1>4, <1>5

LEMMA EndOfInterruptPhases ==
  ASSUME IInv, Phases, NEW kind \in {"timer", "keyboard"}, EndOfInterrupt(kind)
  PROVE  Phases'
<1>1. At(kind, "eoi") /\ "iret" \in Points
  BY DEF EndOfInterrupt, Points
<1>2. /\ cpu' = cpu /\ tableVars' = tableVars /\ irr' = irr
      /\ UNCHANGED <<boot_ticks, timer_ticks>> /\ stack' = WithTop(GoTo("iret"))
  BY DEF EndOfInterrupt, ReturnTo, pic_send_eoi, clockVars
<1>3. /\ cpu # Wild /\ TopOf(cpu).kind = kind
      /\ GoTo("iret") \in Frames /\ GoTo("iret").kind = kind
      /\ GoTo("iret").pc = "iret"
  BY <1>1, AtFacts
<1> QED BY <1>2, <1>3, RetopPhases

LEMMA SectionPhases == ASSUME IInv, Phases, Section PROVE Phases'
<1>1. InSection
  BY DEF Section, EnterSection, LeaveSection
<1>2. /\ cpu # Wild /\ TopOf(cpu) \in Frames
      /\ \/ At("base", "body") /\ TopOf(cpu).kind = "base" /\ cpu # Boot
         \/ TopOf(cpu).kind = "keyboard"
      /\ TopOf(cpu).pc # "enter"
  BY <1>1, AtFacts, BootHasNoTaskPoint DEF InSection, TaskPoints
<1>3. /\ cpu' = cpu /\ tableVars' = tableVars /\ irr' = irr
      /\ UNCHANGED <<boot_ticks, timer_ticks>>
  BY DEF Section, EnterSection, LeaveSection, picVars, clockVars
<1>4. ASSUME NEW f \in Frames, stack' = WithTop(f), f.kind = TopOf(cpu).kind,
             f.pc # "enter"
      PROVE  Phases'
  BY <1>2, <1>3, <1>4, RetopPhases
<1>5. TopOf(cpu).depth \in 0 .. MaxSections /\ TopOf(cpu).kind \in Kinds
  BY <1>2 DEF Frames
<1>6. CASE EnterSection
  <2> DEFINE f == [TopOf(cpu) EXCEPT !.depth = @ + 1]
  <2>1. f \in Frames /\ f.kind = TopOf(cpu).kind /\ f.pc = TopOf(cpu).pc
    BY <1>2, <1>5, <1>6, KernelAssumption DEF Frames, EnterSection
  <2>2. stack' = WithTop(f)
    BY <1>6 DEF EnterSection
  <2> HIDE DEF f
  <2> QED BY <1>2, <1>4, <2>1, <2>2
<1>7. CASE LeaveSection
  <2> DEFINE top == TopOf(cpu)
             pc  == IF top.pc = "work" /\ top.depth = 1 THEN "eoi" ELSE top.pc
             f   == [top EXCEPT !.depth = @ - 1,
                                !.pc = IF @ = "work" /\ top.depth = 1
                                         THEN "eoi" ELSE @]
  <2>1. stack' = WithTop(f) /\ top.depth > 0
    BY <1>7 DEF LeaveSection
  <2>2. /\ top \in Frames
        /\ top = [kind |-> top.kind, pc |-> top.pc, depth |-> top.depth]
        /\ pc \in Points /\ pc # "enter"
        /\ top.depth - 1 \in 0 .. MaxSections /\ top.kind \in Kinds
    BY <1>2, <1>5, <2>1, KernelAssumption DEF Frames, Points
  <2>3. f = [top EXCEPT !.depth = top.depth - 1, !.pc = pc]
    OBVIOUS
  <2> HIDE DEF f, pc, top
  <2>4. f = [kind |-> top.kind, pc |-> pc, depth |-> top.depth - 1]
    BY <2>2, <2>3
  <2>5. f \in Frames /\ f.kind = top.kind /\ f.pc = pc
    BY <2>2, <2>4 DEF Frames
  <2> QED BY <1>4, <2>1, <2>2, <2>5 DEF top
<1> QED BY <1>6, <1>7 DEF Section

LEMMA TaskPhases == ASSUME ShortBoot, IInv, Phases, Task PROVE Phases'
<1>1. /\ {"entry", "body", "yield", "exit", "switched", "eoi"} \subseteq Points
      /\ {"entry", "body", "yield", "exit", "switched"} = TaskPoints
  BY DEF Points, TaskPoints
<1>2. \A pc \in TaskPoints : At("base", pc) =>
        /\ cpu # Boot /\ RunPhase /\ cpu # Wild /\ cpu \in Stacks
        /\ \A p \in Points : GoTo(p) \in Frames
  BY AtFacts, BootHasNoTaskPoint DEF Phases
<1>3. ASSUME NEW kind \in {"base", "timer"}, NEW from \in TaskPoints, NEW to \in Points,
             At(kind, from), to # "enter", ReturnTo(to), tableVars' = tableVars,
             UNCHANGED <<picVars, clockVars>>
      PROVE  Phases'
  <2>1. /\ cpu # Wild /\ TopOf(cpu).kind = kind
        /\ GoTo(to) \in Frames /\ GoTo(to).kind = kind /\ GoTo(to).pc = to
    BY <1>3, AtFacts
  <2>2. cpu = Boot => kind # "base"
    BY <1>2, <1>3
  <2>3. /\ irr' = irr /\ UNCHANGED <<boot_ticks, timer_ticks>>
    BY <1>3 DEF picVars, clockVars
  <2> QED BY <1>3, <2>1, <2>2, <2>3, RetopPhases DEF ReturnTo
<1>4. ASSUME NEW from \in TaskPoints, NEW to \in Points, At("base", from), Schedule(to)
      PROVE  Phases'
  BY <1>2, <1>4, ScheduleRun, BootIsAStack DEF Phases
<1>5. CASE TaskEntry
  <2>1. /\ At("base", "entry") /\ ReturnTo("body") /\ tableVars' = tableVars
        /\ UNCHANGED <<picVars, clockVars>>
    BY <1>5 DEF TaskEntry
  <2> QED BY <1>1, <1>3, <2>1
<1>6. CASE TaskYield
  <2>1. /\ At("base", "body") /\ cpu' = cpu /\ stack' = WithTop(GoTo("yield"))
        /\ UNCHANGED <<num_tasks, rsp, current_task, scheduler_initialized>>
        /\ SetCurrentState({"RUNNING"}, "READY")
    BY <1>6 DEF TaskYield, ReturnTo
  <2>2. /\ RunPhase /\ cpu # Boot /\ Others
    BY <1>1, <1>2, <2>1, WithTopOthers
  <2>3. /\ \A t \in TaskIds \ {cpu} : state'[t] = state[t]
        /\ state'[cpu] # "BLOCKED"
    BY <2>1, <2>2 DEF SetCurrentState, RunPhase, IInv, TypeOK
  <2> QED BY <2>1, <2>2, <2>3, QuietRun DEF Phases
<1>7. CASE YieldSchedule
  BY <1>1, <1>4, <1>7 DEF YieldSchedule
<1>8. CASE TaskReturn
  BY <1>8 DEF TaskReturn, ShortBoot
<1>9. CASE ExitSchedule
  BY <1>1, <1>4, <1>9 DEF ExitSchedule
<1>10. ASSUME NEW kind \in {"base", "timer"}, SwitchedIn(kind)
       PROVE  Phases'
  <2> DEFINE to == IF kind = "timer" THEN "eoi" ELSE "body"
  <2>1. /\ At(kind, "switched") /\ ReturnTo(to) /\ tableVars' = tableVars
        /\ UNCHANGED <<picVars, clockVars>> /\ to \in Points /\ to # "enter"
    BY <1>1, <1>10 DEF SwitchedIn
  <2> HIDE DEF to
  <2> QED BY <1>1, <1>3, <2>1
<1> QED BY <1>5, <1>6, <1>7, <1>8, <1>9, <1>10 DEF Task

-----------------------------------------------------------------------------
(* kernel_main.                                                            *)

\* A statement of kernel_main: no interrupt lies on it, no tick is half counted.
LEMMA BootMoves ==
  ASSUME IInv, Phases, NEW from \in BootPoints, NEW to \in BootPoints,
         At("base", from), stack' = WithTop(GoTo(to)), cpu' = cpu,
         irr' = irr, UNCHANGED <<boot_ticks, timer_ticks>>
  PROVE  /\ cpu = Boot /\ BootPhase /\ Point = from /\ Point' = to
         /\ TicksLeft' /\ Others
<1>1. /\ cpu = Boot /\ cpu # Wild /\ BootPhase /\ Boot \in Stacks
      /\ TopOf(cpu).kind = "base" /\ TopOf(cpu).pc = from
      /\ Height(Boot) = 1 /\ TopOf(Boot) = stack[Boot][1]
  BY AtFacts, TopFacts, BootHasNoTaskPoint DEF Fits, Phases
<1>2. to \in Points /\ to # "enter"
  BY DEF BootPoints, Early, Points
<1>3. GoTo(to) \in Frames /\ GoTo(to).pc = to
  BY <1>2, AtFacts
<1>4. Point' = to
  BY <1>1, <1>3, WithTopFacts DEF IInv, Point
<1>5. TicksLeft'
  BY <1>1, <1>2, <1>3, EnteredStays, TicksStay DEF IInv, BootPhase
<1> QED BY <1>1, <1>3, <1>4, <1>5, WithTopOthers DEF Point

\* The tasks of the table, while a step of kernel_main leaves them as they are.
LEMMA TableStays ==
  ASSUME BootPhase, cpu = Boot, Others, num_tasks \in 0 .. NTasks,
         UNCHANGED <<num_tasks, rsp>>
  PROVE  \A t \in 0 .. num_tasks - 1 : rsp'[t].layout = "create" /\ Resting(t)'
<1>1. \A t \in 0 .. num_tasks - 1 : t \in TaskIds
  BY TasksAssumption DEF TaskIds
<1> QED BY <1>1, RestingStays, BootIsAStack DEF BootPhase, Others

LEMMA CreateTaskPhases == ASSUME IInv, Phases, CreateTask PROVE Phases'
<1> DEFINE n  == num_tasks
           to == IF n + 1 = NTasks THEN "delay" ELSE "create"
           f  == GoTo(to)
           new == <<Frame("base", "entry")>>
<1>1. /\ At("base", "create") /\ n < NTasks /\ num_tasks' = n + 1
      /\ stack' = [WithTop(f) EXCEPT ![n] = new]
      /\ rsp' = [rsp EXCEPT ![n] = Saved(n, "create", 1)]
      /\ state' = [state EXCEPT ![n] = "READY"]
      /\ current_task' = current_task
      /\ cpu' = cpu /\ irr' = irr /\ UNCHANGED <<boot_ticks, timer_ticks>>
  BY DEF CreateTask, task_create, picVars, clockVars
<1>2. /\ cpu = Boot /\ cpu # Wild /\ BootPhase /\ Boot \in Stacks
      /\ TopOf(cpu).kind = "base" /\ TopOf(cpu).pc = "create"
      /\ Height(Boot) = 1 /\ TopOf(Boot) = stack[Boot][1]
  BY <1>1, AtFacts, TopFacts, BootHasNoTaskPoint DEF Fits, Phases, BootPoints
<1>3. /\ n \in TaskIds /\ n # Boot /\ n \in Nat /\ TaskIds \subseteq Stacks
      /\ rsp \in [TaskIds -> Contexts] /\ stack \in [Stacks -> Seq(Frames)]
      /\ state \in [TaskIds -> {"READY", "RUNNING", "BLOCKED"}]
  BY <1>1, BootIsAStack, TasksAssumption DEF IInv, TypeOK, TaskIds
<1>4. /\ f \in Frames /\ f.pc = to /\ f.kind = "base"
      /\ to \in {"delay", "create"} /\ (to = "delay" => n + 1 = NTasks)
  BY <1>1, AtFacts DEF Points
<1>5. Len(new) = 1 /\ new[1].pc = "entry"
  BY DEF Frame
<1>6. Point = "create" /\ current_task = Null
  BY <1>2 DEF Point, BootPhase, Starting
<1> HIDE DEF f, new, to
<1>7. /\ WithTop(f) \in [Stacks -> Seq(Frames)]
      /\ Len(WithTop(f)[Boot]) = 1 /\ WithTop(f)[Boot][1] = f
      /\ \A c \in Stacks \ {Boot} : WithTop(f)[c] = stack[c]
  <2>1. 1 \in 1 .. Height(Boot)
    BY <1>2
  <2>2. /\ WithTop(f) \in [Stacks -> Seq(Frames)]
        /\ Len(WithTop(f)[Boot]) = Height(Boot)
        /\ WithTop(f)[Boot][1] = f
    BY <1>2, <1>4, <2>1, WithTopValue DEF IInv
  <2>3. \A c \in Stacks \ {Boot} : WithTop(f)[c] = stack[c]
    BY <1>2, <1>3 DEF WithTop
  <2> QED BY <1>2, <2>2, <2>3
<1>8. /\ stack'[Boot][1] = f /\ Len(stack'[Boot]) = 1 /\ stack'[n] = new
      /\ \A c \in Stacks \ {Boot, n} : stack'[c] = stack[c]
  BY <1>1, <1>3, <1>7
<1>9. Point' = to
  BY <1>4, <1>8 DEF Point
<1>10. ~Entered'
  <2>1. \A i \in 1 .. 1 : stack'[Boot][i].kind = "base"
    BY <1>4, <1>8
  <2> QED BY <1>8, <2>1 DEF Entered, Height
<1>11. TicksLeft'
  BY <1>1, <1>2, <1>10, TicksStay DEF BootPhase
<1>12. ASSUME NEW t \in 0 .. n
       PROVE  rsp'[t].layout = "create" /\ Resting(t)' /\ state'[t] = "READY"
  <2>1. CASE t = n
    <3>1. rsp'[t] = [stack |-> t, layout |-> "create", height |-> 1]
      BY <1>1, <1>3, <2>1 DEF Saved
    <3>2. state'[t] = "READY" /\ stack'[t] = new
      BY <1>1, <1>3, <1>8, <2>1
    <3>3. Len(stack'[t]) = 1 /\ stack'[t][1].pc = "entry"
      BY <1>5, <3>2
    <3> QED BY <3>1, <3>2, <3>3 DEF Resting, Height, TopOf
  <2>2. CASE t # n
    <3>1. t \in 0 .. num_tasks - 1 /\ t \in TaskIds
      BY <1>1, <1>3, <2>2, TasksAssumption DEF TaskIds
    <3>2. Resting(t) /\ rsp[t].layout = "create" /\ state[t] = "READY"
      BY <1>2, <1>6, <3>1, BootIsAStack DEF BootPhase
    <3>3. rsp'[t] = rsp[t] /\ state'[t] = state[t] /\ stack'[t] = stack[t]
      BY <1>1, <1>3, <1>8, <2>2, <3>1, BootIsAStack
    <3> QED BY <3>1, <3>2, <3>3, RestingStays
  <2> QED BY <2>1, <2>2
<1>13. num_tasks' - 1 = n
  BY <1>1, <1>3
<1>14. BootPhase'
  BY <1>1, <1>4, <1>6, <1>9, <1>11, <1>12, <1>13 DEF BootPhase, BeforeTasks, Starting
<1> QED BY <1>1, <1>2, <1>14 DEF Phases

\* start_multitasking's jump goes to a task that has not run yet.
LEMMA StartJumpPhases == ASSUME IInv, Phases, StartJump PROVE Phases'
<1>1. /\ At("base", "jump") /\ tableVars' = tableVars
      /\ stack' = [stack EXCEPT ![Boot] = <<>>]
  BY DEF StartJump
<1>2. /\ cpu = Boot /\ BootPhase /\ TopOf(cpu).pc = "jump" /\ Height(Boot) = 1
  BY <1>1, AtFacts, TopFacts, BootHasNoTaskPoint DEF Fits, Phases, BootPoints
<1>3. Point = "jump"
  BY <1>2 DEF Point, TopOf
<1>4. /\ current_task \in TaskIds /\ num_tasks = NTasks /\ scheduler_initialized
      /\ \A t \in TaskIds :
           /\ rsp[t].layout = "create" /\ Resting(t)
           /\ state[t] = "READY" \/ (t = current_task /\ state[t] = "RUNNING")
  BY <1>2, <1>3 DEF BootPhase, BeforeTasks, Starting, TaskIds
<1>5. Resumable(rsp[current_task], "start")
  BY <1>4 DEF Resumable, Resting
<1>6. cpu' = current_task
  BY <1>4, <1>5, BootIsAStack DEF StartJump, SwitchTo, Resting
<1>7. UNCHANGED <<num_tasks, state, rsp, current_task, scheduler_initialized>>
  BY <1>1 DEF tableVars
<1>8. \A t \in TaskIds : stack'[t] = stack[t]
  BY <1>1, BootIsAStack DEF IInv, TypeOK
<1>9. \A t \in TaskIds : Resting(t)'
  BY <1>4, <1>7, <1>8, RestingStays
<1>10. \A t \in TaskIds \ {current_task} : state[t] = "READY"
  BY <1>4
<1>11. state[current_task] # "BLOCKED"
  BY <1>4
<1>12. RunPhase'
  BY <1>4, <1>6, <1>7, <1>9, <1>10, <1>11 DEF RunPhase
<1> QED BY <1>4, <1>6, <1>12, BootIsAStack DEF Phases

LEMMA BootingPhases == ASSUME IInv, Phases, Booting PROVE Phases'
<1> DEFINE Move(from, to) ==
             /\ from \in BootPoints /\ to \in BootPoints /\ At("base", from)
             /\ stack' = WithTop(GoTo(to)) /\ cpu' = cpu
             /\ irr' = irr /\ UNCHANGED <<boot_ticks, timer_ticks>>
<1>1. /\ num_tasks \in 0 .. NTasks
      /\ \A t \in 0 .. num_tasks - 1 : t \in TaskIds
      /\ state \in [TaskIds -> {"READY", "RUNNING", "BLOCKED"}]
      /\ first_task \in TaskIds /\ current_task \in TaskIds \cup {Null}
  BY TasksAssumption DEF IInv, TypeOK, TaskIds
<1>2. ASSUME NEW from, NEW to, Move(from, to)
      PROVE  /\ cpu = Boot /\ cpu' = Boot /\ BootPhase
             /\ Point = from /\ Point' = to /\ TicksLeft' /\ Others
  BY <1>2, BootMoves
<1>3. \A p \in {"reset", "keyboard", "create", "delay", "scan", "current", "running",
                "initialized", "jump", "halted"} : p \in BootPoints
  BY DEF BootPoints, Early
<1> HIDE DEF Move
<1>4. ASSUME NEW from, NEW to, Move(from, to), tableVars' = tableVars,
             to \in BeforeTasks <=> from \in BeforeTasks,
             to \in Starting <=> from \in Starting,
             to # "jump"
      PROVE  Phases'
  <2>1. /\ cpu = Boot /\ cpu' = Boot /\ BootPhase
        /\ Point = from /\ Point' = to /\ TicksLeft' /\ Others
    BY <1>2, <1>4
  <2>2. UNCHANGED <<num_tasks, state, rsp, current_task>>
    BY <1>4 DEF tableVars
  <2>3. \A t \in 0 .. num_tasks - 1 : rsp'[t].layout = "create" /\ Resting(t)'
    BY <1>1, <2>1, <2>2, TableStays
  <2> QED BY <1>4, <2>1, <2>2, <2>3 DEF Phases, BootPhase
<1>5. CASE EnableKeyboard
  <2>1. Move("reset", "keyboard") /\ tableVars' = tableVars
    BY <1>3, <1>5 DEF EnableKeyboard, BootStep, ReturnTo, picVars, clockVars, Move
  <2> QED BY <1>4, <2>1 DEF BeforeTasks, Starting
<1>6. CASE InitTasks
  <2>1. Move("keyboard", "create") /\ num_tasks' = 0 /\ current_task' = Null
    BY <1>3, <1>6 DEF InitTasks, task_init, BootStep, ReturnTo, picVars, clockVars, Move
  <2>2. cpu' = Boot /\ Point' = "create" /\ TicksLeft'
    BY <1>2, <2>1
  <2> QED BY <2>1, <2>2 DEF Phases, BootPhase, BeforeTasks, Starting
<1>7. CASE BootSti
  <2>1. Move("delay", "scan") /\ tableVars' = tableVars
    BY <1>3, <1>7 DEF BootSti, BootStep, ReturnTo, picVars, clockVars, Move
  <2> QED BY <1>4, <2>1 DEF BeforeTasks, Starting
<1>8. CASE StartScan
  <2>1. /\ Move("scan", "halted") \/ Move("scan", "current")
        /\ tableVars' = tableVars
    BY <1>3, <1>8 DEF StartScan, picVars, Move
  <2> QED BY <1>4, <2>1 DEF BeforeTasks, Starting
<1>9. CASE StartCurrent
  <2>1. /\ Move("current", "running") /\ current_task' = first_task
        /\ UNCHANGED <<num_tasks, state, rsp>>
    BY <1>3, <1>9 DEF StartCurrent, BootStep, ReturnTo, picVars, clockVars, Move
  <2>2. /\ cpu = Boot /\ cpu' = Boot /\ BootPhase /\ Point = "current"
        /\ Point' = "running" /\ TicksLeft' /\ Others
    BY <1>2, <2>1
  <2>3. \A t \in 0 .. num_tasks - 1 : rsp'[t].layout = "create" /\ Resting(t)'
    BY <1>1, <2>1, <2>2, TableStays
  <2>4. num_tasks = NTasks /\ \A t \in 0 .. num_tasks - 1 : state[t] = "READY"
    BY <1>1, <2>2, BootIsAStack DEF BootPhase, BeforeTasks, Starting
  <2> QED BY <1>1, <2>1, <2>2, <2>3, <2>4 DEF Phases, BootPhase, Starting
<1>10. CASE StartRunning
  <2>1. /\ Move("running", "initialized")
        /\ UNCHANGED <<num_tasks, rsp, current_task>>
        /\ SetCurrentState({"READY", "RUNNING", "BLOCKED"}, "RUNNING")
    BY <1>3, <1>10 DEF StartRunning, BootStep, ReturnTo, picVars, clockVars, Move
  <2>2. /\ cpu = Boot /\ cpu' = Boot /\ BootPhase /\ Point = "running"
        /\ Point' = "initialized" /\ TicksLeft' /\ Others
    BY <1>2, <2>1
  <2>3. \A t \in 0 .. num_tasks - 1 : rsp'[t].layout = "create" /\ Resting(t)'
    BY <1>1, <2>1, <2>2, TableStays
  <2>4. num_tasks = NTasks /\ current_task \in TaskIds
    BY <2>2 DEF BootPhase, BeforeTasks, Starting
  <2>5. \A t \in 0 .. num_tasks - 1 :
          state'[t] = "READY" \/ (t = current_task /\ state'[t] = "RUNNING")
    BY <1>1, <2>1, <2>2, <2>4 DEF BootPhase, SetCurrentState
  <2> QED BY <2>1, <2>2, <2>3, <2>4, <2>5 DEF Phases, BootPhase, Starting
<1>11. CASE StartInitialized
  <2>1. /\ Move("initialized", "jump") /\ scheduler_initialized'
        /\ UNCHANGED <<num_tasks, state, rsp, current_task>>
    BY <1>3, <1>11 DEF StartInitialized, BootStep, ReturnTo, picVars, clockVars, Move
  <2>2. /\ cpu = Boot /\ cpu' = Boot /\ BootPhase /\ Point = "initialized"
        /\ Point' = "jump" /\ TicksLeft' /\ Others
    BY <1>2, <2>1
  <2>3. \A t \in 0 .. num_tasks - 1 : rsp'[t].layout = "create" /\ Resting(t)'
    BY <1>1, <2>1, <2>2, TableStays
  <2> QED BY <2>1, <2>2, <2>3 DEF Phases, BootPhase, BeforeTasks, Starting
<1> QED
  BY <1>5, <1>6, <1>7, <1>8, <1>9, <1>10, <1>11, CreateTaskPhases, StartJumpPhases
     DEF Booting

-----------------------------------------------------------------------------
(* The theorems.                                                           *)

LEMMA InitPhases == Init => Phases
<1> SUFFICES ASSUME Init PROVE Phases
  OBVIOUS
<1>1. stack[Boot] = <<Frame("base", "reset")>>
  BY BootIsAStack DEF Init
<1>2. Point = "reset" /\ ~Entered
  BY <1>1 DEF Point, Entered, Height, Frame
<1>3. TimerIrq \notin irr
  BY DEF Init, PicInit
<1> QED BY <1>2, <1>3, KernelAssumption
        DEF Init, Phases, BootPhase, TicksLeft, Due, BeforeTasks, Starting

LEMMA NextPhases == ASSUME ShortBoot, IInv, Phases, [Next]_vars PROVE Phases'
<1>1. CASE UNCHANGED vars
  BY <1>1 DEF vars, taskVars, tableVars, cpuVars, picVars, Phases, BootPhase,
     RunPhase, TicksLeft, Due, Entered, Point, Resting, Height, TopOf
<1>2. ASSUME NEW kind \in {"timer", "keyboard"}, EndOfInterrupt(kind) \/ Iret(kind)
      PROVE  Phases'
  BY <1>2, EndOfInterruptPhases, IretPhases
<1>3. CASE Handler
  BY <1>2, <1>3, TimerHandlerPhases, KeyPhases DEF Handler
<1>4. CASE \E kind \in {"timer", "keyboard"} : Interrupt(kind)
  BY <1>4, InterruptPhases
<1> QED
  BY <1>1, <1>3, <1>4, DevicesPhases, SectionPhases, TaskPhases, BootingPhases DEF Next

LEMMA PhasesAlways == ShortBoot /\ Spec => []Phases
<1>1. ShortBoot /\ IInv /\ Phases /\ [Next]_vars => Phases'
  BY NextPhases
<1>2. SUFFICES ASSUME ShortBoot PROVE Spec => []Phases
  OBVIOUS
<1>3. IInv /\ Phases /\ [Next]_vars => Phases'
  BY <1>1, <1>2
<1> QED BY <1>3, InitPhases, Inductive, PTL DEF Spec

\* NobodyIsLost of Kernel, for every number of tasks: the scheduler never drops
\* a task, nor leaves it with a context that cannot be resumed.
THEOREM NobodyLost == ShortBoot /\ Spec => []NobodyIsLost
<1>1. TypeOK /\ Phases => NobodyIsLost
  <2> SUFFICES ASSUME RunPhase, NEW t \in TaskIds, t # current_task, rsp[t] \in Contexts
               PROVE  state[t] = "READY" /\ rsp[t].stack = t
                      /\ Resumable(rsp[t], "switch")
    BY DEF Phases, NobodyIsLost, TypeOK
  <2>1. state[t] = "READY" /\ Resting(t)
    BY DEF RunPhase
  <2> QED BY <2>1, SwitchKeepsFramePointer DEF Resting, Resumable, Contexts
<1> QED BY <1>1, PhasesAlways, TypeCorrect, PTL

\* CurrentTaskExecutes of Kernel: what the kernel believes runs is what runs.
THEOREM CurrentExecutes == ShortBoot /\ Spec => []CurrentTaskExecutes
<1>1. Phases => CurrentTaskExecutes
  BY DEF Phases, RunPhase, CurrentTaskExecutes
<1> QED BY <1>1, PhasesAlways, PTL
=============================================================================
