------------------------------ MODULE Keyboard ------------------------------
(***************************************************************************)
(* enable_keyboard against the keyboard controller, whose answers may be   *)
(* late, lost, or asked for again, and against keyboard_handler, which     *)
(* reads the same port: the first message enable_keyboard prints turns     *)
(* interrupts on, so from the second attempt on the handler may take the   *)
(* answer that the loop is waiting for.                                    *)
(***************************************************************************)
EXTENDS Integers, Sequences

CONSTANTS
  Attempts,    \* 5
  MaxSending,  \* bound: bytes the keyboard holds back
  NoByte

ASSUME KeyboardAssumption ==
  /\ Attempts \in Nat \ {0} /\ MaxSending \in Nat \ {0}
  /\ NoByte \notin {"ack", "resend", "key"}

Bytes == {"ack", "resend", "key"}  \* 0xFA, 0xFE and any other

VARIABLES
  sending,       \* the keyboard's bytes on their way to the controller
  out,           \* the controller's output register: bit 0 of port 0x64
  command,       \* the input register is full: bit 1
  last,          \* what port 0x60 gives when the output register is empty
  latched,       \* IRQ1 is requested
  acknowledged,  \* the keyboard has accepted an enable command
  iflag,
  handling,      \* keyboard_handler runs and has not read the port yet
  pc, attempts,  \* of enable_keyboard
  message        \* the message it ends with

deviceVars == <<sending, out, command, last, latched, acknowledged>>
enableVars == <<pc, attempts, message>>
vars == <<deviceVars, iflag, handling, enableVars>>

-----------------------------------------------------------------------------
(* The keyboard and its controller.                                        *)

Queue(bytes) ==
  /\ Len(sending) + Len(bytes) <= MaxSending
  /\ sending' = sending \o bytes

\* A key for which there is no room is lost.
KeyPressed ==
  /\ \/ Queue(<<"key">>)
     \/ Len(sending) = MaxSending /\ UNCHANGED sending
  /\ UNCHANGED <<out, command, last, latched, acknowledged, iflag, handling,
                 enableVars>>

\* The keyboard gets the command: it accepts it, did not understand it, or
\* does not answer.
CommandTaken ==
  /\ command /\ command' = FALSE
  /\ \E answer \in {<<"ack">>, <<"resend">>, <<>>} :
       /\ Queue(answer)
       /\ acknowledged' = (acknowledged \/ answer = <<"ack">>)
  /\ UNCHANGED <<out, last, latched, iflag, handling, enableVars>>

ByteArrives ==
  /\ out = NoByte /\ sending # <<>>
  /\ out' = Head(sending) /\ sending' = Tail(sending)
  /\ latched' = TRUE
  /\ UNCHANGED <<command, last, acknowledged, iflag, handling, enableVars>>

\* inb(0x60).  A byte's request may go with the byte or outlive it.
Port == IF out = NoByte THEN last ELSE out

ReadPort ==
  /\ out' = NoByte /\ last' = Port
  /\ latched' \in {latched, latched /\ out = NoByte}
  /\ UNCHANGED <<sending, command, acknowledged>>

-----------------------------------------------------------------------------
(* keyboard_handler.  The keyboard's interrupt is not accepted again before *)
(* its end-of-interrupt; what it does with the byte is LineEditor's.       *)

InterruptAccepted ==
  /\ iflag /\ latched /\ ~handling
  /\ latched' = FALSE /\ handling' = TRUE
  /\ UNCHANGED <<sending, out, command, last, acknowledged, iflag, enableVars>>

\* Mutant: the port is not read for want of a use for the byte.
HandlerIgnores ==
  /\ handling /\ handling' = FALSE
  /\ UNCHANGED <<deviceVars, iflag, enableVars>>

HandlerReads ==
  /\ handling /\ handling' = FALSE
  /\ ReadPort
  /\ UNCHANGED <<iflag, enableVars>>

-----------------------------------------------------------------------------
(* enable_keyboard.  A wait ends when what it waits for is seen, or, as it *)
(* counts its polls, at a poll that does not see it.                       *)

At(point) == pc = point /\ ~handling

Goto(point) == pc' = point /\ UNCHANGED <<handling, message>>

\* print_string ends with interrupts on.
Retry == Goto("attempt") /\ iflag' = TRUE /\ UNCHANGED attempts

Return(text) ==
  /\ pc' = "done" /\ message' = text /\ iflag' = TRUE
  /\ UNCHANGED <<handling, attempts>>

\* Mutant: the register is not emptied.
FlushSkipped ==
  /\ At("flush") /\ Goto("attempt")
  /\ UNCHANGED <<iflag, attempts, deviceVars>>

\* The loop that empties the output register.
Flush ==
  /\ At("flush")
  /\ UNCHANGED <<iflag, attempts>>
  /\ IF out # NoByte THEN Goto("flush") /\ ReadPort
                     ELSE Goto("attempt") /\ UNCHANGED deviceVars

\* Mutant: attempts are not counted.
AttemptUncounted ==
  /\ At("attempt") /\ attempts > 0
  /\ Goto("waitInput")
  /\ UNCHANGED <<iflag, attempts, deviceVars>>

\* Mutant: an attempt is made before the count is looked at.
AttemptPastZero ==
  /\ At("attempt")
  /\ attempts' = attempts - 1
  /\ Goto("waitInput")
  /\ UNCHANGED <<iflag, deviceVars>>

Attempt ==
  /\ At("attempt") /\ attempts > 0
  /\ attempts' = attempts - 1
  /\ Goto("waitInput")
  /\ UNCHANGED <<iflag, deviceVars>>

GiveUp ==
  /\ At("attempt") /\ attempts = 0
  /\ Return("failed")
  /\ UNCHANGED deviceVars

SendCommand ==
  /\ At("waitInput") /\ ~command
  /\ command' = TRUE
  /\ Goto("waitOutput")
  /\ UNCHANGED <<sending, out, last, latched, acknowledged, iflag, attempts>>

InputTimeout ==
  /\ At("waitInput") /\ command
  /\ Retry
  /\ UNCHANGED deviceVars

SeeOutput ==
  /\ At("waitOutput") /\ out # NoByte
  /\ Goto("read")
  /\ UNCHANGED <<iflag, attempts, deviceVars>>

\* Mutant: the port is read after a timeout too.
OutputTimeoutReads ==
  /\ At("waitOutput") /\ out = NoByte
  /\ Goto("read")
  /\ UNCHANGED <<iflag, attempts, deviceVars>>

OutputTimeout ==
  /\ At("waitOutput") /\ out = NoByte
  /\ Retry
  /\ UNCHANGED deviceVars

\* The handler may have read the byte that was seen: then the port gives it
\* once more.
ReadResponse ==
  /\ At("read")
  /\ ReadPort
  /\ IF Port = "ack" THEN Return("enabled") ELSE Retry

-----------------------------------------------------------------------------
\* The firmware may leave a byte in the register and any byte in the port;
\* pic_remap has cleared the request.
Init ==
  /\ sending = <<>> /\ command = FALSE /\ latched = FALSE
  /\ out \in Bytes \cup {NoByte} /\ last \in Bytes
  /\ acknowledged = FALSE
  /\ iflag = FALSE /\ handling = FALSE
  /\ pc = "flush" /\ attempts = Attempts /\ message = "none"

Device == KeyPressed \/ CommandTaken \/ ByteArrives

Enable ==
  \/ Flush \/ Attempt \/ GiveUp \/ SendCommand \/ InputTimeout
  \/ SeeOutput \/ OutputTimeout \/ ReadResponse

Next == Device \/ InterruptAccepted \/ HandlerReads \/ Enable

Spec == Init /\ [][Next]_vars

(* Fairness.  The CPU executes: an interrupt that is requested is accepted  *)
(* when interrupts are on, and its handler reads the port.  Interrupts do  *)
(* not follow one another so closely that boot never goes on, and a        *)
(* keyboard does not send so fast that the flush never finds the register  *)
(* empty.  Nothing is asked of the devices.                                *)
Fairness ==
  /\ WF_vars(InterruptAccepted) /\ WF_vars(HandlerReads)
  /\ SF_vars(Enable)
  /\ SF_vars(Flush /\ out = NoByte)

FairSpec == Spec /\ Fairness

-----------------------------------------------------------------------------
(* Properties.                                                             *)

TypeOK ==
  /\ sending \in Seq(Bytes) /\ Len(sending) <= MaxSending
  /\ out \in Bytes \cup {NoByte} /\ last \in Bytes
  /\ command \in BOOLEAN /\ latched \in BOOLEAN /\ acknowledged \in BOOLEAN
  /\ iflag \in BOOLEAN /\ handling \in BOOLEAN
  /\ pc \in {"flush", "attempt", "waitInput", "waitOutput", "read", "done"}
  /\ attempts \in 0 .. Attempts
  /\ message \in {"none", "enabled", "failed"}

\* "Keyboard enabled successfully." is true: the acknowledgement is this
\* boot's, although the handler may have taken the byte away in between and
\* the read found only what was left in the port.
SuccessIsTrue == message = "enabled" => acknowledged

\* While interrupts are off a byte in the register of which nobody will be
\* told is one that the flush still finds; afterwards there is none.  (The
\* controller raises no second request for it and takes no further byte.)
NoByteIsForgotten ==
  out # NoByte => latched \/ handling \/ pc \in {"flush", "read"}

\* enable_keyboard comes to an end, whatever the keyboard does.
EnableReturns == <>(pc = "done")

\* The keyboard never locks up: a byte in the register is always read in the
\* end, by the loop or by the handler.
KeyboardNeverStuck == out # NoByte ~> out = NoByte

=============================================================================
