-------------------------------- MODULE Pic --------------------------------
(***************************************************************************)
(* The pair of 8259 interrupt controllers as pic.c programs it: fully      *)
(* nested priorities, no automatic end-of-interrupt, every line masked but *)
(* IRQ0 (the PIT) and IRQ1 (the keyboard).  The registers belong to the    *)
(* hardware; the kernel reaches them through pic_remap and pic_send_eoi.   *)
(***************************************************************************)
EXTENDS Integers

TimerIrq    == 0
KeyboardIrq == 1

\* Mask 0xFC on PIC1 and 0xFF on PIC2 leave these two lines.
Irqs == {TimerIrq, KeyboardIrq}

VARIABLES
  irr,   \* lines requested and not yet delivered (a latch: one per line)
  isr    \* lines delivered whose end-of-interrupt has not been sent

picVars == <<irr, isr>>

PicTypeOK == irr \in SUBSET Irqs /\ isr \in SUBSET Irqs

\* The state pic_remap leaves: initialisation clears both registers.
PicInit == irr = {} /\ isr = {}

\* A device raises its line; raising a latched line again is lost.
Raise(irq) ==
  /\ irq \notin irr
  /\ irr' = irr \cup {irq}
  /\ UNCHANGED isr

\* The line the controller offers the CPU: the lowest-numbered request, and
\* only when nothing of its priority or above is in service.
Deliverable(irq) ==
  /\ irq \in irr
  /\ \A j \in irr : irq <= j
  /\ \A j \in isr : irq < j

Acknowledge(irq) ==
  /\ irr' = irr \ {irq}
  /\ isr' = isr \cup {irq}

\* Mutant: the EOI clears the lowest priority in service.
SendEoiLowest ==
  /\ isr' = isr \ {k \in isr : \A j \in isr : j <= k}
  /\ UNCHANGED irr

\* pic_send_eoi writes 0x20, the non-specific EOI: it names no line, and the
\* controller clears the highest-priority one in service, whoever sent it.
pic_send_eoi ==
  /\ isr' = isr \ {k \in isr : \A j \in isr : k <= j}
  /\ UNCHANGED irr
=============================================================================
