--------------------------- MODULE KeyboardProofs ---------------------------
(***************************************************************************)
(* Safety of enable_keyboard, for every number of attempts and however     *)
(* many bytes the keyboard holds back.                                     *)
(***************************************************************************)
EXTENDS Keyboard, TLAPS

-----------------------------------------------------------------------------
(* The inductive invariant of SuccessIsTrue.  Every acknowledgement on its *)
(* way is this boot's; one that the firmware left is thrown away by the    *)
(* flush before a byte counts, and the handler leaves in the port what it  *)
(* took from the register.                                                 *)

Genuine(byte) == byte = "ack" => acknowledged

AnswersAreGenuine ==
  /\ \A i \in 1 .. Len(sending) : Genuine(sending[i])
  /\ pc # "flush" => Genuine(out)
  /\ pc = "read" => Genuine(Port)

IInv == TypeOK /\ AnswersAreGenuine /\ SuccessIsTrue

-----------------------------------------------------------------------------
LEMMA InitIInv == Init => IInv
<1> SUFFICES ASSUME Init PROVE IInv OBVIOUS
<1>1. sending \in Seq(Bytes) /\ Len(sending) = 0
  BY DEF Init
<1>2. TypeOK
  <2>1. Len(sending) <= MaxSending /\ attempts \in 0 .. Attempts
    BY <1>1, KeyboardAssumption DEF Init
  <2> QED BY <1>1, <2>1 DEF Init, TypeOK
<1>3. AnswersAreGenuine /\ SuccessIsTrue
  BY <1>1 DEF Init, AnswersAreGenuine, SuccessIsTrue
<1> QED BY <1>2, <1>3 DEF IInv

\* What the keyboard sends is added at the end.
LEMMA QueueAppends ==
  ASSUME sending \in Seq(Bytes), NEW bytes \in Seq(Bytes), Queue(bytes)
  PROVE  /\ sending' \in Seq(Bytes) /\ Len(sending') <= MaxSending
         /\ \A i \in 1 .. Len(sending') :
              \/ i <= Len(sending) /\ sending'[i] = sending[i]
              \/ \E j \in 1 .. Len(bytes) : sending'[i] = bytes[j]
BY KeyboardAssumption DEF Queue

LEMMA DeviceIInv == ASSUME IInv, Device PROVE IInv'
<1> USE KeyboardAssumption DEF IInv, TypeOK
<1>1. CASE KeyPressed
  <2>1. /\ sending' \in Seq(Bytes) /\ Len(sending') <= MaxSending
        /\ \A i \in 1 .. Len(sending') :
             (i <= Len(sending) /\ sending'[i] = sending[i]) \/ sending'[i] = "key"
    <3>1. CASE Queue(<<"key">>)
      <4>1. <<"key">> \in Seq(Bytes)
        BY DEF Bytes
      <4>2. \A j \in 1 .. Len(<<"key">>) : <<"key">>[j] = "key"
        OBVIOUS
      <4> QED BY <3>1, <4>1, <4>2, QueueAppends
    <3>2. CASE UNCHANGED sending
      BY <3>2
    <3> QED BY <1>1, <3>1, <3>2 DEF KeyPressed
  <2> QED
    BY <1>1, <2>1
    DEF KeyPressed, enableVars, AnswersAreGenuine, Genuine, Port, SuccessIsTrue
<1>2. CASE CommandTaken
  <2>1. PICK answer \in {<<"ack">>, <<"resend">>, <<>>} :
           /\ Queue(answer)
           /\ acknowledged' = (acknowledged \/ answer = <<"ack">>)
    BY <1>2 DEF CommandTaken
  <2>2. answer \in Seq(Bytes)
    <3>1. <<>> \in Seq(Bytes) /\ <<"ack">> \in Seq(Bytes) /\ <<"resend">> \in Seq(Bytes)
      BY DEF Bytes
    <3> QED BY <3>1
  <2>3. \A j \in 1 .. Len(answer) : answer[j] = "ack" => acknowledged'
    <3>1. CASE answer = <<"ack">>
      BY <2>1, <3>1
    <3>2. CASE answer = <<"resend">>
      <4>1. \A j \in 1 .. Len(<<"resend">>) : <<"resend">>[j] = "resend"
        OBVIOUS
      <4> QED BY <3>2, <4>1
    <3>3. CASE answer = <<>>
      <4>1. 1 .. Len(<<>>) = {}
        OBVIOUS
      <4> QED BY <3>3, <4>1
    <3> QED BY <2>1, <3>1, <3>2, <3>3
  <2>4. /\ sending' \in Seq(Bytes) /\ Len(sending') <= MaxSending
        /\ \A i \in 1 .. Len(sending') :
              \/ i <= Len(sending) /\ sending'[i] = sending[i]
              \/ \E j \in 1 .. Len(answer) : sending'[i] = answer[j]
    BY <2>1, <2>2, QueueAppends
  <2>5. \A i \in 1 .. Len(sending') : sending'[i] = "ack" => acknowledged'
    BY <2>1, <2>3, <2>4 DEF AnswersAreGenuine, Genuine
  <2> QED
    BY <1>2, <2>1, <2>4, <2>5
    DEF CommandTaken, enableVars, AnswersAreGenuine, Genuine, Port, SuccessIsTrue
<1>3. CASE ByteArrives
  <2>1. /\ Len(sending) > 0
        /\ out' = sending[1] /\ sending' \in Seq(Bytes)
        /\ Len(sending') = Len(sending) - 1
        /\ \A i \in 1 .. Len(sending') : sending'[i] = sending[i + 1]
    BY <1>3 DEF ByteArrives
  <2> QED
    BY <1>3, <2>1
    DEF ByteArrives, enableVars, AnswersAreGenuine, Genuine, Port, SuccessIsTrue, Bytes
<1> QED BY <1>1, <1>2, <1>3 DEF Device

LEMMA HandlerIInv ==
  ASSUME IInv, InterruptAccepted \/ HandlerReads PROVE IInv'
BY KeyboardAssumption
DEF IInv, TypeOK, InterruptAccepted, HandlerReads, ReadPort, Port, enableVars,
    AnswersAreGenuine, Genuine, SuccessIsTrue, Bytes

LEMMA EnableIInv == ASSUME IInv, Enable PROVE IInv'
<1> USE KeyboardAssumption
    DEF IInv, TypeOK, AnswersAreGenuine, Genuine, SuccessIsTrue, Port, Bytes,
        At, Goto, deviceVars
<1>1. CASE Flush BY <1>1 DEF Flush, ReadPort
<1>2. CASE Attempt BY <1>2 DEF Attempt
<1>3. CASE GiveUp BY <1>3 DEF GiveUp, Return
<1>4. CASE SendCommand BY <1>4 DEF SendCommand
<1>5. CASE InputTimeout BY <1>5 DEF InputTimeout, Retry
<1>6. CASE SeeOutput BY <1>6 DEF SeeOutput
<1>7. CASE OutputTimeout BY <1>7 DEF OutputTimeout, Retry
<1>8. CASE ReadResponse BY <1>8 DEF ReadResponse, ReadPort, Retry, Return
<1> QED BY <1>1, <1>2, <1>3, <1>4, <1>5, <1>6, <1>7, <1>8 DEF Enable

LEMMA NextIInv == IInv /\ [Next]_vars => IInv'
<1> SUFFICES ASSUME IInv, [Next]_vars PROVE IInv' OBVIOUS
<1>1. CASE UNCHANGED vars
  BY <1>1 DEF vars, deviceVars, enableVars, IInv, TypeOK, AnswersAreGenuine, Genuine,
              Port, SuccessIsTrue
<1> QED BY <1>1, DeviceIInv, HandlerIInv, EnableIInv DEF Next

LEMMA Invariance == Spec => []IInv
<1> QED BY InitIInv, NextIInv, PTL DEF Spec

-----------------------------------------------------------------------------
\* Every variable keeps its type, and the attempts are counted down to zero
\* and no further.
THEOREM TypeCorrect == Spec => []TypeOK
<1>1. IInv => TypeOK BY DEF IInv
<1> QED BY <1>1, Invariance, PTL

\* "Keyboard enabled successfully." is printed only when the keyboard has
\* accepted the command, whatever bytes are late, lost or taken by the handler.
THEOREM SuccessCorrect == Spec => []SuccessIsTrue
<1>1. IInv => SuccessIsTrue BY DEF IInv
<1> QED BY <1>1, Invariance, PTL

\* No byte is left in the output register without somebody who will read it.
THEOREM NoByteCorrect == Spec => []NoByteIsForgotten
<1>1. Init => NoByteIsForgotten
  BY DEF Init, NoByteIsForgotten
<1>2. NoByteIsForgotten /\ [Next]_vars => NoByteIsForgotten'
  <2> SUFFICES ASSUME NoByteIsForgotten, [Next]_vars PROVE NoByteIsForgotten'
    OBVIOUS
  <2> USE DEF NoByteIsForgotten, enableVars
  <2>1. CASE Device
    BY <2>1 DEF Device, KeyPressed, CommandTaken, ByteArrives
  <2>2. CASE InterruptAccepted \/ HandlerReads
    BY <2>2 DEF InterruptAccepted, HandlerReads, ReadPort
  <2>3. CASE Enable
    BY <2>3
    DEF Enable, Flush, Attempt, GiveUp, SendCommand, InputTimeout, SeeOutput,
        OutputTimeout, ReadResponse, ReadPort, Retry, Return, Goto, At, deviceVars
  <2>4. CASE UNCHANGED vars
    BY <2>4 DEF vars, deviceVars
  <2> QED BY <2>1, <2>2, <2>3, <2>4 DEF Next
<1> QED BY <1>1, <1>2, PTL DEF Spec

=============================================================================
