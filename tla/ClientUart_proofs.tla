-------------------------- MODULE ClientUart_proofs --------------------------
(***************************************************************************)
(* Theorems about the client's serial line, for frames of any length, any  *)
(* number of requests told apart, and any number of faults and delays.     *)
(***************************************************************************)
EXTENDS ClientUart, SequenceTheorems, TLAPS

\* A wait of the receive handler that has no end: nothing is received any more.
Dead == rx = "wait" /\ left > 0 /\ ~txOn

\* How far the half that is being received is filled, and what has still to be sent of
\* a request suffices to complete it.
Filled == IF pos < Frame THEN pos ELSE pos - Frame
Filling == out > 0 /\ out + Filled >= Frame

\* A frame is, or will be, complete and not handled yet.
Pending == ht \/ tc \/ rx = "frame" \/ Filling

\* There is one such frame only.
OneFrame ==
  /\ ~(ht /\ tc)
  /\ rx = "frame" => ~ht /\ ~tc
  /\ Filling => ~ht /\ ~tc /\ rx # "frame"

\* Bytes of responses on their way, not read yet or not sent yet.
Busy(b) == IF b = NoByte THEN 0 ELSE 1
ToSend == IF txOn THEN left ELSE 0
InFlight == Len(in) + Busy(shift) + Busy(tdr) + ToSend

\* A request and its response take turns ...
TurnInv == ~extra /\ ~Dead /\ Pending => OneFrame /\ client = "waiting" /\ InFlight = 0

\* ... and there is at most one response, while the client waits for it.
FlightInv == ~extra => InFlight <= IF client = "waiting" THEN Frame ELSE 0

\* A complete frame ends with a byte of the current request, or a garbled one.
OwnByte(b) == b.of \in {request, Noise.of}

OwnInv ==
  ~extra /\ ~Dead =>
    /\ ht => OwnByte(buffer[Frame - 1])
    /\ tc => OwnByte(buffer[2 * Frame - 1])
    /\ rx = "frame" => OwnByte(buffer[half * Frame + Frame - 1])

\* A response on its way is that to the current request, or reports a failure.
Own == {request, Failure}

ResponseInv ==
  ~extra =>
    /\ \A i \in 1 .. Len(in) : in[i].of \in Own
    /\ shift # NoByte => shift.of \in Own
    /\ tdr # NoByte => tdr.of \in Own
    /\ txOn /\ left > 0 => response \in Own

StepInv == TurnInv /\ FlightInv /\ OwnInv /\ ResponseInv /\ AnswerInStep

IInv == TypeOK /\ StepInv

USE DEF session, receiver, transmitter, bounds

-----------------------------------------------------------------------------
(* Facts used throughout.                                                   *)

\* What is assumed of the constants, one by one.
LEMMA ConstantTypes ==
  Frame \in Nat \ {0} /\ Requests \in Nat \ {0} /\ Faults \in Nat /\ Delays \in Nat
  BY UartAssumption

\* A remainder just before and at its modulus.
LEMMA Remainder ==
  ASSUME NEW n \in Nat, NEW m \in Nat \ {0}, n <= m
  PROVE  n % m = IF n = m THEN 0 ELSE n
  <1>1. CASE n = m
    BY <1>1
  <1>2. CASE n < m
    BY <1>2
  <1>3. QED
    BY <1>1, <1>2

\* The DMA goes round.
LEMMA NextPosition ==
  ASSUME NEW p \in 0 .. 2 * Frame - 1
  PROVE  (p + 1) % (2 * Frame) = IF p + 1 = 2 * Frame THEN 0 ELSE p + 1
  <1> DEFINE size == 2 * Frame
             next == p + 1
  <1>1. size \in Nat \ {0} /\ next \in Nat /\ next <= size
    BY ConstantTypes
  <1> HIDE DEF size, next
  <1>2. next % size = IF next = size THEN 0 ELSE next
    BY <1>1, Remainder
  <1>3. QED
    BY <1>2 DEF size, next

\* Requests are counted within their number.
LEMMA NextRequest ==
  ASSUME NEW r \in 0 .. Requests
  PROVE  (r + 1) % Requests \in 0 .. Requests
  <1>1. Requests \in Nat \ {0} /\ r + 1 \in Nat
    BY ConstantTypes
  <1>2. QED
    BY <1>1

\* Bytes are not confused with noise or with none.
LEMMA ByteTypes ==
  ASSUME NEW m \in Messages, NEW k \in 0 .. Frame - 1
  PROVE  /\ [of |-> m, at |-> k] \in Bytes
         /\ [of |-> m, at |-> k] # NoByte
         /\ 0 \in 0 .. Frame - 1 /\ Failure \in Messages /\ 0 .. Requests \subseteq Messages
  <1>1. Requests \in Nat /\ Frame \in Nat \ {0}
    BY ConstantTypes
  <1>2. m # -1
    BY <1>1 DEF Messages
  <1>3. QED
    BY <1>1, <1>2 DEF Bytes, NoByte, Messages, Failure

\* A frame received is a request, or bad.
LEMMA ReceivedType == Received \in 0 .. Requests \cup {Failure} /\ Received \in Messages
  <1> DEFINE bytes == [k \in 0 .. Frame - 1 |-> buffer[half * Frame + k]]
  <1>1. 0 \in 0 .. Frame - 1 /\ Requests \in Nat
    BY ConstantTypes
  <1> HIDE DEF bytes
  <1>2. ASSUME NEW m \in 0 .. Requests, Whole(bytes, m)
        PROVE  bytes[0].of = m
    <2>1. bytes[0] = [of |-> m, at |-> 0]
      BY <1>1, <1>2 DEF Whole
    <2>2. QED
      BY <2>1
  <1>3. Received = IF \E m \in 0 .. Requests : Whole(bytes, m) THEN bytes[0].of ELSE Failure
    BY DEF Received, bytes
  <1>4. Received \in 0 .. Requests \cup {Failure}
    BY <1>2, <1>3
  <1>5. QED
    BY <1>1, <1>4 DEF Messages, Failure

\* Nothing goes wrong more often than it may.
LEMMA FaultCount ==
  ASSUME BoundsType, Fault \/ UNCHANGED faults
  PROVE  faults' \in 0 .. Faults
  BY ConstantTypes DEF Fault, BoundsType

-----------------------------------------------------------------------------
(* Types.                                                                   *)

\* Everything is within its type at first.
LEMMA TypeInit == Init => TypeOK
  <1> SUFFICES ASSUME Init PROVE TypeOK
    OBVIOUS
  <1> USE DEF Init
  <1>1. Frame \in Nat \ {0} /\ Requests \in Nat \ {0} /\ Faults \in Nat /\ Delays \in Nat
    BY ConstantTypes
  <1>2. Failure \in Messages
    BY <1>1 DEF Failure, Messages
  <1>3. SessionType
    BY <1>1, <1>2, EmptySeq DEF SessionType
  <1>4. ReceiverType
    <2>1. 0 \in 0 .. 2 * Frame - 1
      BY <1>1
    <2>2. buffer \in [0 .. 2 * Frame - 1 -> Bytes \cup {Noise}]
      OBVIOUS
    <2>3. QED
      BY <2>1, <2>2, Zenon DEF ReceiverType
  <1>5. TransmitterType
    <2>1. 0 \in 0 .. Frame
      BY <1>1
    <2>2. QED
      BY <1>2, <2>1, Zenon DEF TransmitterType
  <1>6. HandlersType /\ BoundsType
    <2>1. 0 \in 0 .. Faults /\ 0 \in 0 .. Delays
      BY <1>1
    <2>2. QED
      BY <2>1, Zenon DEF HandlersType, BoundsType
  <1>7. QED
    BY <1>3, <1>4, <1>5, <1>6 DEF TypeOK

\* A byte received goes where the DMA stands, and may complete a half.
LEMMA ReceiveStep ==
  ASSUME ReceiverType, NEW b \in Bytes \cup {Noise}, Receive(b)
  PROVE  /\ ReceiverType'
         /\ \/ UNCHANGED receiver
            \/ /\ buffer' = [buffer EXCEPT ![pos] = b]
               /\ pos' = IF pos + 1 = 2 * Frame THEN 0 ELSE pos + 1
               /\ ht' = (ht \/ pos + 1 = Frame)
               /\ tc' = (tc \/ pos + 1 = 2 * Frame)
  <1>1. CASE UNCHANGED receiver
    BY <1>1 DEF ReceiverType
  <1>2. CASE rxOn
    <2>1. /\ buffer' = [buffer EXCEPT ![pos] = b]
          /\ pos' = (pos + 1) % (2 * Frame)
          /\ ht' = (ht \/ pos + 1 = Frame)
          /\ tc' = (tc \/ pos + 1 = 2 * Frame)
          /\ UNCHANGED <<rxOn, teRx>>
      BY <1>2 DEF Receive
    <2>2. pos' = IF pos + 1 = 2 * Frame THEN 0 ELSE pos + 1
      BY <2>1, NextPosition DEF ReceiverType
    <2>3. pos' \in 0 .. 2 * Frame - 1
      <3>1. Frame \in Nat \ {0} /\ pos \in 0 .. 2 * Frame - 1
        BY ConstantTypes DEF ReceiverType
      <3>2. QED
        BY <2>2, <3>1
    <2>4. buffer' \in [0 .. 2 * Frame - 1 -> Bytes \cup {Noise}]
      BY <2>1 DEF ReceiverType
    <2>5. ht' \in BOOLEAN /\ tc' \in BOOLEAN
      BY <2>1 DEF ReceiverType
    <2>6. ReceiverType'
      BY <2>1, <2>3, <2>4, <2>5 DEF ReceiverType
    <2>7. QED
      BY <2>1, <2>2, <2>6
  <1>3. QED
    BY <1>1, <1>2 DEF Receive

\* What comes from the client: a byte of its request, or noise.
LEMMA FromClientStep ==
  ASSUME SessionType, ReceiverType, FromClient
  PROVE  /\ ReceiverType' /\ out' \in 0 .. Frame
         /\ (Fault \/ UNCHANGED faults) /\ extra' \in {extra, TRUE}
         /\ \/ extra' = TRUE
            \/ /\ UNCHANGED <<receiver, extra>>
               /\ out' = out \/ (out > 0 /\ out' = out - 1)
            \/ /\ out > 0 /\ out' = out - 1 /\ UNCHANGED extra
               /\ \E b \in Bytes \cup {Noise} : OwnByte(b) /\ Receive(b)
  <1>1. Frame \in Nat \ {0} /\ out \in 0 .. Frame
    BY ConstantTypes DEF SessionType
  <1>2. CASE out > 0 /\ out' = out - 1 /\ UNCHANGED extra /\
             \/ Receive([of |-> request, at |-> Frame - out]) /\ UNCHANGED faults
             \/ Receive(Noise) /\ Fault
             \/ UNCHANGED receiver /\ Fault
    <2> DEFINE byte == [of |-> request, at |-> Frame - out]
    <2>1. request \in Messages
      BY ConstantTypes DEF SessionType, Messages
    <2>2. Frame - out \in 0 .. Frame - 1 /\ out - 1 \in 0 .. Frame
      BY <1>1, <1>2
    <2>3. byte \in Bytes /\ OwnByte(byte)
      BY <2>1, <2>2, ByteTypes DEF OwnByte
    <2>4. OwnByte(Noise)
      BY DEF OwnByte
    <2> HIDE DEF byte
    <2>5. CASE UNCHANGED receiver /\ Fault
      BY <1>2, <2>2, <2>5 DEF ReceiverType
    <2>6. CASE Receive(byte) /\ UNCHANGED faults
      BY <1>2, <2>2, <2>3, <2>6, ReceiveStep
    <2>7. CASE Receive(Noise) /\ Fault
      BY <1>2, <2>2, <2>4, <2>7, ReceiveStep
    <2>8. QED
      BY <1>2, <2>5, <2>6, <2>7 DEF byte
  <1>3. CASE out = 0 /\ UNCHANGED <<out, receiver, faults, extra>>
    BY <1>1, <1>3 DEF ReceiverType
  <1>4. CASE out = 0 /\ Receive(Noise) /\ Fault /\ extra' = TRUE /\ UNCHANGED out
    BY <1>1, <1>4, ReceiveStep
  <1>5. QED
    BY <1>2, <1>3, <1>4 DEF FromClient

\* Bytes of the response move on, from the DMA to the client.
LEMMA ToClientStep ==
  ASSUME TypeOK, ToClient
  PROVE  /\ in' \in Seq(Bytes) /\ shift' \in Bytes \cup {NoByte} /\ tdr' \in Bytes \cup {NoByte}
         /\ left' \in 0 .. Frame /\ tcTx' \in BOOLEAN
         /\ IF shift = NoByte THEN in' = in ELSE in' = Append(in, shift) /\ shift \in Bytes
         /\ shift' = tdr
         /\ \/ /\ txOn /\ left > 0 /\ left' = left - 1
               /\ tdr' # NoByte /\ tdr'.of = response
            \/ /\ ~(txOn /\ left > 0) /\ left' = left /\ tdr' = NoByte
  <1> USE DEF TypeOK
  <1>1. in' = IF shift = NoByte THEN in ELSE Append(in, shift)
    BY DEF ToClient
  <1>2. in' \in Seq(Bytes)
    BY <1>1, AppendProperties DEF SessionType, TransmitterType
  <1>3. shift' = tdr
    BY DEF ToClient
  <1>4. Frame \in Nat \ {0} /\ left \in 0 .. Frame /\ response \in Messages
    BY ConstantTypes DEF TransmitterType
  <1>5. CASE txOn /\ left > 0
    <2>1. /\ tdr' = [of |-> response, at |-> Frame - left]
          /\ left' = left - 1 /\ tcTx' = (tcTx \/ left = 1)
      BY <1>5 DEF ToClient
    <2>2. Frame - left \in 0 .. Frame - 1 /\ left' \in 0 .. Frame
      BY <1>4, <1>5, <2>1
    <2>3. tdr' \in Bytes /\ tdr' # NoByte /\ tdr'.of = response
      BY <1>4, <2>1, <2>2, ByteTypes
    <2>4. tcTx' \in BOOLEAN
      BY <2>1 DEF TransmitterType
    <2>5. QED
      BY <1>1, <1>2, <1>3, <1>5, <2>1, <2>2, <2>3, <2>4 DEF TransmitterType
  <1>6. CASE ~(txOn /\ left > 0)
    <2>1. tdr' = NoByte /\ UNCHANGED <<left, tcTx>>
      BY <1>6 DEF ToClient
    <2>2. QED
      BY <1>1, <1>2, <1>3, <1>6, <2>1 DEF TransmitterType
  <1>7. QED
    BY <1>5, <1>6

\* The client's steps keep the types.
LEMMA ClientType ==
  ASSUME TypeOK, Client
  PROVE  TypeOK'
  <1> USE DEF TypeOK
  <1>0. UNCHANGED <<receiver, rx, half, transmitter, tx, delays, extra>>
    BY DEF Client, Ask, Read, GiveUp
  <1>1. ReceiverType' /\ TransmitterType' /\ HandlersType'
    BY <1>0 DEF ReceiverType, TransmitterType, HandlersType
  <1>2. faults' \in 0 .. Faults
    BY FaultCount DEF Client, Ask, Read, GiveUp
  <1>3. BoundsType'
    BY <1>0, <1>2 DEF BoundsType
  <1>4. Frame \in 0 .. Frame /\ 0 \in 0 .. Requests /\ Requests \in 0 .. Requests /\ Failure \in Messages
    BY ConstantTypes DEF Failure, Messages
  <1>5. CASE Ask
    <2>1. request' \in 0 .. Requests
      BY <1>4, <1>5, NextRequest DEF Ask, Reset, SessionType
    <2>2. client' = "waiting" /\ out' = Frame /\ answer' = Failure /\ in' = in
      BY <1>5 DEF Ask
    <2>3. SessionType'
      BY <1>4, <2>1, <2>2 DEF SessionType
    <2>4. QED
      BY <1>1, <1>3, <2>3
  <1>6. CASE Read
    <2> DEFINE bytes == [k \in 0 .. Frame - 1 |-> in[k + 1]]
    <2>1. Len(in) \in Nat /\ Len(in) >= Frame /\ Frame \in Nat \ {0}
      BY <1>6, LenProperties, ConstantTypes DEF Read, SessionType
    <2>2. bytes[0] \in Bytes
      BY <2>1, ElementOfSeq DEF SessionType
    <2> HIDE DEF bytes
    <2>3. answer' = IF \E m \in Messages : Whole(bytes, m) THEN bytes[0].of ELSE Failure
      BY <1>6 DEF Read, bytes
    <2>4. answer' \in Messages
      BY <1>4, <2>2, <2>3 DEF Bytes
    <2>5. in' = SubSeq(in, Frame + 1, Len(in))
      BY <1>6 DEF Read
    <2>6. \A i \in Frame + 1 .. Len(in) : in[i] \in Bytes
      BY <2>1, ElementOfSeq DEF SessionType
    <2>7. in' \in Seq(Bytes)
      BY <2>1, <2>5, <2>6, SubSeqProperties
    <2>8. client' \in {"idle", "done"} /\ UNCHANGED <<request, out>>
      BY <1>6 DEF Read
    <2>9. SessionType'
      BY <2>4, <2>7, <2>8 DEF SessionType
    <2>10. QED
      BY <1>1, <1>3, <2>9
  <1>7. CASE GiveUp
    <2>1. client' = "idle" /\ in' = <<>> /\ UNCHANGED <<request, out, answer>>
      BY <1>7 DEF GiveUp
    <2>2. SessionType'
      BY <2>1, EmptySeq DEF SessionType
    <2>3. QED
      BY <1>1, <1>3, <2>2
  <1>8. QED
    BY <1>5, <1>6, <1>7 DEF Client

\* A byte time keeps the types.
LEMMA ByteTimeType ==
  ASSUME TypeOK, ByteTime
  PROVE  TypeOK'
  <1> USE DEF TypeOK
  <1>1. /\ FromClient /\ ToClient
        /\ UNCHANGED <<client, request, answer, rx, half, txOn, response, teTx, transmitting, tx>>
    BY DEF ByteTime
  <1>2. /\ ReceiverType' /\ out' \in 0 .. Frame
        /\ (Fault \/ UNCHANGED faults) /\ extra' \in {extra, TRUE}
    BY <1>1, FromClientStep
  <1>3. /\ in' \in Seq(Bytes) /\ shift' \in Bytes \cup {NoByte} /\ tdr' \in Bytes \cup {NoByte}
        /\ left' \in 0 .. Frame /\ tcTx' \in BOOLEAN
    BY <1>1, ToClientStep
  <1>4. SessionType'
    BY <1>1, <1>2, <1>3 DEF SessionType
  <1>5. TransmitterType' /\ HandlersType'
    BY <1>1, <1>3 DEF TransmitterType, HandlersType
  <1>6. faults' \in 0 .. Faults
    BY <1>2, FaultCount
  <1>7. delays' \in 0 .. Delays
    <2>1. Delays \in Nat /\ delays \in 0 .. Delays
      BY ConstantTypes DEF BoundsType
    <2>2. (delays < Delays /\ delays' = delays + 1) \/ delays' = delays
      BY DEF ByteTime
    <2>3. QED
      BY <2>1, <2>2
  <1>8. extra' \in BOOLEAN
    BY <1>2 DEF BoundsType
  <1>9. QED
    BY <1>2, <1>4, <1>5, <1>6, <1>7, <1>8 DEF BoundsType

\* So do the handlers, and failures of the DMA.
LEMMA HandlersTypes ==
  ASSUME TypeOK, Handlers \/ ReceiveError \/ TransmitError
  PROVE  TypeOK'
  <1> USE DEF TypeOK
  <1>0. /\ Frame \in 0 .. Frame /\ 0 \in 0 .. Frame /\ 0 \in 0 .. 2 * Frame - 1
        /\ Failure \in Messages /\ Received \in Messages
    BY ConstantTypes, ReceivedType DEF Failure, Messages
  <1>1. CASE ReceiveError
    <2>1. /\ rxOn' = FALSE /\ teRx' = TRUE /\ Fault
          /\ UNCHANGED <<session, pos, buffer, ht, tc, rx, half, transmitter, tx, delays, extra>>
      BY <1>1 DEF ReceiveError
    <2>2. faults' \in 0 .. Faults
      BY <2>1, FaultCount
    <2>3. SessionType' /\ HandlersType' /\ BoundsType'
      BY <2>1, <2>2 DEF SessionType, HandlersType, BoundsType
    <2>4. ReceiverType'
      BY <2>1 DEF ReceiverType
    <2>5. TransmitterType'
      BY <2>1 DEF TransmitterType
    <2>6. QED
      BY <2>3, <2>4, <2>5
  <1>2. CASE TransmitError
    <2>1. /\ txOn' = FALSE /\ teTx' = TRUE /\ Fault
          /\ UNCHANGED <<session, receiver, rx, half, left, response, tdr, shift, tcTx,
                         transmitting, tx, delays, extra>>
      BY <1>2 DEF TransmitError
    <2>2. faults' \in 0 .. Faults
      BY <2>1, FaultCount
    <2>3. SessionType' /\ HandlersType' /\ BoundsType'
      BY <2>1, <2>2 DEF SessionType, HandlersType, BoundsType
    <2>4. ReceiverType'
      BY <2>1 DEF ReceiverType
    <2>5. TransmitterType'
      BY <2>1 DEF TransmitterType
    <2>6. QED
      BY <2>3, <2>4, <2>5
  <1>3. CASE RxEnter
    <2>1. /\ UNCHANGED <<session, rxOn, pos, buffer, transmitter, tx, bounds>>
          /\ ht' \in {ht, FALSE} /\ tc' \in {tc, FALSE} /\ teRx' \in {teRx, FALSE}
          /\ rx' \in {"wait", "frame"} /\ half' \in {half, 0, 1}
      BY <1>3 DEF RxEnter
    <2>2. ReceiverType'
      BY <2>1 DEF ReceiverType
    <2>3. TransmitterType' /\ SessionType' /\ BoundsType'
      BY <2>1 DEF TransmitterType, SessionType, BoundsType
    <2>4. HandlersType'
      BY <2>1 DEF HandlersType
    <2>5. QED
      BY <2>2, <2>3, <2>4
  <1>4. CASE RxFrame
    <2>1. /\ UNCHANGED <<session, receiver, half, tx, bounds>> /\ rx' \in {"wait", "none"}
          /\ UNCHANGED transmitter \/ Respond
      BY <1>4 DEF RxFrame
    <2>2. TransmitterType'
      <3>1. CASE UNCHANGED transmitter
        BY <3>1 DEF TransmitterType
      <3>2. CASE Respond
        <4>1. /\ transmitting' = TRUE /\ response' = Received /\ left' \in {left, Frame}
              /\ txOn' = TRUE /\ UNCHANGED <<tdr, shift, tcTx, teTx>>
          BY <3>2 DEF Respond
        <4>2. QED
          BY <1>0, <4>1 DEF TransmitterType
      <3>3. QED
        BY <2>1, <3>1, <3>2
    <2>3. QED
      BY <2>1, <2>2 DEF SessionType, ReceiverType, HandlersType, BoundsType
  <1>5. CASE RxReset
    <2>1. ReceiverType'
      <3>1. buffer' \in [0 .. 2 * Frame - 1 -> Bytes \cup {Noise}]
        BY <1>5 DEF RxReset
      <3>2. QED
        BY <1>0, <1>5, <3>1 DEF RxReset, ReceiverType
    <2>2. TransmitterType'
      BY <1>0, <1>5 DEF RxReset, TransmitterType
    <2>3. SessionType' /\ HandlersType' /\ BoundsType'
      BY <1>5 DEF RxReset, SessionType, HandlersType, BoundsType
    <2>4. QED
      BY <2>1, <2>2, <2>3
  <1>6. CASE resetUart
    <2>1. PICK by \in {"rx", "tx"} : WaitForTransmission(by) \/ Disable(by) \/ Enable(by)
      BY <1>6 DEF resetUart
    <2>2. /\ UNCHANGED <<session, buffer, ht, tc, teRx, half, left, response, tdr, tcTx, teTx, bounds>>
          /\ rx' \in {rx, "disable", "enable", "none"} /\ tx' \in {tx, "disable", "enable", "none"}
          /\ rxOn' \in {rxOn, FALSE, TRUE} /\ txOn' \in {txOn, FALSE} /\ shift' \in {shift, NoByte}
          /\ pos' \in {pos, 0} /\ transmitting' \in {transmitting, FALSE}
      BY <2>1 DEF WaitForTransmission, Disable, Enable, Steps
    <2>3. ReceiverType'
      BY <1>0, <2>2 DEF ReceiverType
    <2>4. TransmitterType'
      BY <2>2 DEF TransmitterType
    <2>5. SessionType' /\ HandlersType' /\ BoundsType'
      BY <2>2 DEF SessionType, HandlersType, BoundsType
    <2>6. QED
      BY <2>3, <2>4, <2>5
  <1>7. CASE TxEnter \/ TxOff \/ TxFlag
    <2>1. /\ UNCHANGED <<session, receiver, rx, half, left, response, tdr, shift, bounds>>
          /\ txOn' \in {txOn, FALSE} /\ tcTx' \in {tcTx, FALSE} /\ teTx' \in {teTx, FALSE}
          /\ transmitting' \in {transmitting, FALSE} /\ tx' \in {"wait", "off", "flag", "none"}
      BY <1>7 DEF TxEnter, TxOff, TxFlag
    <2>2. TransmitterType'
      BY <2>1 DEF TransmitterType
    <2>3. QED
      BY <2>1, <2>2 DEF SessionType, ReceiverType, HandlersType, BoundsType
  <1>8. QED
    BY <1>1, <1>2, <1>3, <1>4, <1>5, <1>6, <1>7 DEF Handlers

\* Every step keeps the types.
LEMMA TypeStep == TypeOK /\ [Next]_vars => TypeOK'
  <1> SUFFICES ASSUME TypeOK, [Next]_vars PROVE TypeOK'
    OBVIOUS
  <1>1. CASE UNCHANGED vars
    BY <1>1 DEF vars, TypeOK, SessionType, ReceiverType, TransmitterType, HandlersType, BoundsType
  <1>2. CASE Next
    BY <1>2, ClientType, ByteTimeType, HandlersTypes DEF Next
  <1>3. QED
    BY <1>1, <1>2

-----------------------------------------------------------------------------
(* Requests and responses in step.                                          *)

\* What is on its way is counted.
LEMMA InFlightType ==
  ASSUME TypeOK
  PROVE  /\ Len(in) \in Nat /\ Busy(shift) \in {0, 1} /\ Busy(tdr) \in {0, 1} /\ ToSend \in Nat
         /\ InFlight \in Nat
  <1>1. Len(in) \in Nat
    BY LenProperties DEF TypeOK, SessionType
  <1>2. Busy(shift) \in {0, 1} /\ Busy(tdr) \in {0, 1}
    BY DEF Busy
  <1>3. ToSend \in Nat
    BY ConstantTypes DEF ToSend, TypeOK, TransmitterType
  <1>4. QED
    BY <1>1, <1>2, <1>3 DEF InFlight

\* When nothing is on its way, nothing is anywhere on it.
LEMMA NothingInFlight ==
  ASSUME TypeOK, InFlight = 0
  PROVE  Len(in) = 0 /\ shift = NoByte /\ tdr = NoByte /\ ~(txOn /\ left > 0)
  <1>1. Len(in) = 0 /\ Busy(shift) = 0 /\ Busy(tdr) = 0 /\ ToSend = 0
    BY InFlightType DEF InFlight
  <1>2. shift = NoByte /\ tdr = NoByte
    BY <1>1 DEF Busy
  <1>3. ~(txOn /\ left > 0)
    BY <1>1 DEF ToSend, TypeOK, TransmitterType
  <1>4. QED
    BY <1>1, <1>2, <1>3

\* The line is quiet at first.
LEMMA StepInit == Init => StepInv
  <1> SUFFICES ASSUME Init PROVE StepInv
    OBVIOUS
  <1> USE DEF Init
  <1>1. InFlight = 0 /\ Len(in) = 0
    BY EmptySeq DEF InFlight, Busy, ToSend
  <1>2. ~Pending
    BY DEF Pending, Filling
  <1>3. TurnInv /\ FlightInv
    BY <1>1, <1>2, ConstantTypes DEF TurnInv, FlightInv
  <1>4. OwnInv /\ ResponseInv /\ AnswerInStep
    BY <1>1 DEF OwnInv, ResponseInv, AnswerInStep
  <1>5. QED
    BY <1>3, <1>4 DEF StepInv

\* A step of a handler that neither takes a frame nor begins a response: bytes are lost
\* with it at most.
LEMMA Quiet ==
  ASSUME IInv, TypeOK',
         UNCHANGED <<session, buffer, ht, tc, half, left, response, tdr, extra>>,
         shift' \in {shift, NoByte}, txOn' => txOn, pos' \in {pos, 0},
         rx' = "frame" => rx = "frame", Dead => Dead'
  PROVE  StepInv'
  <1> USE DEF IInv, StepInv
  <1>1. InFlight' <= InFlight
    <2>1. Busy(shift)' <= Busy(shift) /\ Busy(tdr)' = Busy(tdr)
      BY DEF Busy
    <2>2. ToSend' <= ToSend
      BY ConstantTypes DEF ToSend, TypeOK, TransmitterType
    <2>3. Len(in)' = Len(in)
      OBVIOUS
    <2>4. /\ Len(in) \in Nat /\ Busy(shift) \in {0, 1} /\ Busy(tdr) \in {0, 1} /\ ToSend \in Nat
          /\ Busy(shift)' \in {0, 1} /\ ToSend' \in Nat
      BY InFlightType DEF Busy, ToSend, TypeOK, TransmitterType
    <2>5. QED
      BY <2>1, <2>2, <2>3, <2>4 DEF InFlight
  <1>2. InFlight \in Nat /\ InFlight' \in Nat /\ Frame \in Nat
    <2>1. InFlight' \in Nat
      <3>1. Busy(shift)' \in {0, 1} /\ Busy(tdr)' \in {0, 1}
        BY DEF Busy
      <3>2. ToSend' \in Nat
        BY ConstantTypes DEF ToSend, TypeOK, TransmitterType
      <3>3. Len(in)' \in Nat
        BY InFlightType
      <3>4. QED
        BY <3>1, <3>2, <3>3 DEF InFlight
    <2>2. QED
      BY <2>1, InFlightType, ConstantTypes
  <1>3. Filling' => Filling
    BY ConstantTypes DEF Filling, Filled, TypeOK, SessionType, ReceiverType
  <1>4. TurnInv'
    BY <1>1, <1>2, <1>3 DEF TurnInv, Pending, OneFrame
  <1>5. FlightInv'
    BY <1>1, <1>2 DEF FlightInv
  <1>6. OwnInv'
    BY DEF OwnInv, OwnByte
  <1>7. ResponseInv'
    BY DEF ResponseInv, Own
  <1>8. AnswerInStep'
    BY DEF AnswerInStep
  <1>9. QED
    BY <1>4, <1>5, <1>6, <1>7, <1>8

\* A DMA failure, a step of resetUart or of the transmit handler, and no step at all, are
\* quiet.
LEMMA QuietSteps ==
  ASSUME IInv, TypeOK',
         ReceiveError \/ TransmitError \/ resetUart \/ TxEnter \/ TxOff \/ TxFlag \/ UNCHANGED vars
  PROVE  StepInv'
  <1>1. CASE ReceiveError
    BY <1>1, Quiet DEF ReceiveError, Dead
  <1>2. CASE TransmitError
    BY <1>2, Quiet DEF TransmitError, Dead
  <1>3. CASE resetUart
    <2>1. PICK by \in {"rx", "tx"} : WaitForTransmission(by) \/ Disable(by) \/ Enable(by)
      BY <1>3 DEF resetUart
    <2>2. /\ UNCHANGED <<session, buffer, ht, tc, half, left, response, tdr, extra>>
          /\ shift' \in {shift, NoByte} /\ (txOn' => txOn) /\ pos' \in {pos, 0}
          /\ rx' = "frame" => rx = "frame"
      BY <2>1 DEF WaitForTransmission, Disable, Enable, Steps
    <2>3. Dead => Dead'
      BY <2>1, <2>2 DEF WaitForTransmission, Disable, Enable, Steps, AtTx, Transmitted, Dead,
                        IInv, TypeOK, TransmitterType
    <2>4. QED
      BY <2>2, <2>3, Quiet
  <1>4. CASE TxEnter \/ TxOff \/ TxFlag
    BY <1>4, Quiet DEF TxEnter, TxOff, TxFlag, Dead
  <1>5. CASE UNCHANGED vars
    BY <1>5, Quiet DEF vars, Dead
  <1>6. QED
    BY <1>1, <1>2, <1>3, <1>4, <1>5

\* The receive handler takes the frame that is complete.
LEMMA RxEnterStep ==
  ASSUME IInv, TypeOK', RxEnter
  PROVE  StepInv'
  <1>1. CASE rx' = "wait"
    BY <1>1, Quiet DEF RxEnter, Dead
  <1>2. CASE rx' = "frame"
    <2> USE DEF IInv, StepInv
    <2>1. /\ UNCHANGED <<session, rxOn, pos, buffer, transmitter, tx, bounds>> /\ rx = "none"
          /\ \/ ht /\ half' = 0 /\ ht' = FALSE /\ tc' = tc
             \/ ~ht /\ tc /\ half' = 1 /\ tc' = FALSE /\ ht' = ht
      BY <1>2 DEF RxEnter
    <2>2. InFlight' = InFlight
      BY <2>1 DEF InFlight, Busy, ToSend
    <2>3. Pending /\ ~Dead
      BY <2>1 DEF Pending, Dead
    <2>4. Filling' = Filling
      BY <2>1 DEF Filling, Filled
    <2>5. TurnInv'
      BY <1>2, <2>1, <2>2, <2>3, <2>4 DEF TurnInv, OneFrame
    <2>6. FlightInv' /\ ResponseInv' /\ AnswerInStep'
      BY <2>1, <2>2 DEF FlightInv, ResponseInv, Own, AnswerInStep
    <2>7. OwnInv'
      <3>1. half' * Frame + Frame - 1 = IF half' = 0 THEN Frame - 1 ELSE 2 * Frame - 1
        BY <2>1, ConstantTypes
      <3>2. ASSUME ~extra
            PROVE  ~(ht' \/ tc') /\ OwnByte(buffer[half' * Frame + Frame - 1])
        BY <2>1, <2>3, <3>1, <3>2 DEF OwnInv, TurnInv, OneFrame
      <3>3. QED
        BY <2>1, <3>2 DEF OwnInv, OwnByte
    <2>8. QED
      BY <2>5, <2>6, <2>7
  <1>3. QED
    BY <1>1, <1>2 DEF RxEnter

\* A frame that ends with a byte of the current request is that request, or bad.
LEMMA OwnRequest ==
  ASSUME TypeOK, OwnByte(buffer[half * Frame + Frame - 1])
  PROVE  Received \in Own
  <1> DEFINE bytes == [k \in 0 .. Frame - 1 |-> buffer[half * Frame + k]]
  <1>1. 0 \in 0 .. Frame - 1 /\ Frame - 1 \in 0 .. Frame - 1 /\ Requests \in Nat /\ Frame \in Nat
    BY ConstantTypes
  <1>2. half * Frame + (Frame - 1) = half * Frame + Frame - 1
    BY <1>1 DEF TypeOK, HandlersType
  <1>3. bytes[Frame - 1] = buffer[half * Frame + Frame - 1]
    BY <1>1, <1>2
  <1> HIDE DEF bytes
  <1>4. ASSUME NEW m \in 0 .. Requests, Whole(bytes, m)
        PROVE  bytes[0].of = request
    <2>1. bytes[0] = [of |-> m, at |-> 0] /\ bytes[Frame - 1] = [of |-> m, at |-> Frame - 1]
      BY <1>1, <1>4 DEF Whole
    <2>2. bytes[0].of = m /\ bytes[Frame - 1].of = m
      BY <2>1
    <2>3. m \in {request, -2}
      BY <1>3, <2>2 DEF OwnByte, Noise
    <2>4. QED
      BY <1>1, <2>2, <2>3
  <1>5. Received = IF \E m \in 0 .. Requests : Whole(bytes, m) THEN bytes[0].of ELSE Failure
    BY DEF Received, bytes
  <1>6. QED
    BY <1>4, <1>5 DEF Own

\* A frame is answered, if no response is being sent, and then nothing else is.
LEMMA RxFrameStep ==
  ASSUME IInv, TypeOK', RxFrame
  PROVE  StepInv'
  <1>1. /\ UNCHANGED <<session, receiver, half, tx, bounds>>
        /\ rx = "frame" /\ rx' \in {"wait", "none"} /\ ~Dead
        /\ UNCHANGED transmitter \/ Respond
    BY DEF RxFrame, Dead
  <1>2. CASE UNCHANGED transmitter
    BY <1>1, <1>2, Quiet
  <1>3. CASE Respond
    <2> USE DEF IInv, StepInv
    <2>1. /\ response' = Received /\ left' = (IF txOn THEN left ELSE Frame) /\ txOn' = TRUE
          /\ UNCHANGED <<tdr, shift>>
      BY <1>3 DEF Respond
    <2>2. AnswerInStep'
      BY <1>1 DEF AnswerInStep
    <2>3. CASE extra
      BY <1>1, <2>2, <2>3 DEF TurnInv, FlightInv, OwnInv, ResponseInv
    <2>4. CASE ~extra
      <3>1. OneFrame /\ client = "waiting" /\ InFlight = 0
        BY <1>1, <2>4 DEF TurnInv, Pending
      <3>2. Len(in) = 0 /\ shift = NoByte /\ tdr = NoByte /\ ~(txOn /\ left > 0)
        BY <3>1, NothingInFlight
      <3>3. Received \in Own
        BY <1>1, <2>4, OwnRequest DEF OwnInv
      <3>4. ~Pending' /\ ~ht' /\ ~tc'
        BY <1>1, <3>1 DEF Pending, OneFrame, Filling, Filled
      <3>5. InFlight' <= Frame
        <4>1. ToSend' = left' /\ left' \in {0, Frame}
          BY <2>1, <3>2, ConstantTypes DEF ToSend, TypeOK, TransmitterType
        <4>2. Busy(shift)' = 0 /\ Busy(tdr)' = 0 /\ Len(in)' = 0
          BY <1>1, <2>1, <3>2 DEF Busy
        <4>3. Frame \in Nat
          BY ConstantTypes
        <4>4. ToSend' \in Nat /\ ToSend' <= Frame
          BY <4>1, <4>3
        <4>5. QED
          BY <4>2, <4>4 DEF InFlight
      <3>6. TurnInv' /\ FlightInv'
        BY <1>1, <3>1, <3>4, <3>5 DEF TurnInv, FlightInv
      <3>7. OwnInv'
        BY <1>1, <3>4 DEF OwnInv
      <3>8. ResponseInv'
        BY <1>1, <2>1, <3>2, <3>3 DEF ResponseInv, Own
      <3>9. QED
        BY <2>2, <3>6, <3>7, <3>8
    <2>5. QED
      BY <2>3, <2>4
  <1>4. QED
    BY <1>1, <1>2, <1>3

\* A reset leaves a quiet line.
LEMMA RxResetStep ==
  ASSUME IInv, TypeOK', RxReset
  PROVE  StepInv'
  <1> USE DEF IInv, StepInv
  <1>1. /\ UNCHANGED <<session, bounds>> /\ rx = "frame" /\ rx' = "none" /\ ~Dead
        /\ pos' = 0 /\ ht' = FALSE /\ tc' = FALSE /\ txOn' = FALSE
        /\ tdr' = NoByte /\ shift' = NoByte
    BY DEF RxReset, Dead
  <1>2. AnswerInStep'
    BY <1>1 DEF AnswerInStep
  <1>3. CASE extra
    BY <1>1, <1>2, <1>3 DEF TurnInv, FlightInv, OwnInv, ResponseInv
  <1>4. CASE ~extra
    <2>1. OneFrame /\ client = "waiting" /\ InFlight = 0
      BY <1>1, <1>4 DEF TurnInv, Pending
    <2>2. Len(in) = 0
      BY <2>1, NothingInFlight
    <2>3. ~Filling
      BY <1>1, <2>1 DEF OneFrame
    <2>4. ~Filling'
      BY <1>1, <2>3, ConstantTypes DEF Filling, Filled, TypeOK, SessionType, ReceiverType
    <2>5. ~Pending'
      BY <1>1, <2>4 DEF Pending
    <2>6. InFlight' = 0
      BY <1>1, <2>2 DEF InFlight, Busy, ToSend
    <2>7. TurnInv' /\ FlightInv'
      BY <1>1, <2>1, <2>5, <2>6, ConstantTypes DEF TurnInv, FlightInv
    <2>8. OwnInv' /\ ResponseInv'
      BY <1>1, <2>2 DEF OwnInv, ResponseInv
    <2>9. QED
      BY <1>2, <2>7, <2>8
  <1>5. QED
    BY <1>3, <1>4

\* A request is begun when nothing is on its way.
LEMMA AskStep ==
  ASSUME IInv, TypeOK', Ask
  PROVE  StepInv'
  <1> USE DEF IInv, StepInv
  <1>1. /\ client \in {"idle", "done"} /\ client' = "waiting" /\ out' = Frame
        /\ UNCHANGED <<in, receiver, rx, half, transmitter, tx, delays, extra>>
    BY DEF Ask
  <1>2. AnswerInStep'
    BY <1>1 DEF AnswerInStep
  <1>3. CASE extra
    BY <1>1, <1>2, <1>3 DEF TurnInv, FlightInv, OwnInv, ResponseInv
  <1>4. CASE ~extra
    <2>1. InFlight = 0
      BY <1>1, <1>4, InFlightType DEF FlightInv
    <2>2. Len(in) = 0 /\ shift = NoByte /\ tdr = NoByte /\ ~(txOn /\ left > 0)
      BY <2>1, NothingInFlight
    <2>3. InFlight' = 0
      BY <1>1, <2>1 DEF InFlight, Busy, ToSend
    <2>4. Dead' = Dead
      BY <1>1 DEF Dead
    <2>5. ~Dead => ~ht /\ ~tc /\ rx # "frame"
      BY <1>1, <1>4 DEF TurnInv, Pending
    <2>6. TurnInv'
      BY <1>1, <2>3, <2>4, <2>5 DEF TurnInv, OneFrame
    <2>7. FlightInv'
      BY <1>1, <2>3, ConstantTypes DEF FlightInv
    <2>8. OwnInv'
      BY <1>1, <2>4, <2>5 DEF OwnInv
    <2>9. ResponseInv'
      BY <1>1, <2>2 DEF ResponseInv
    <2>10. QED
      BY <1>2, <2>6, <2>7, <2>8, <2>9
  <1>5. QED
    BY <1>3, <1>4 DEF TypeOK, BoundsType

\* A whole response is read, and nothing of it is left.
LEMMA ReadStep ==
  ASSUME IInv, TypeOK', Read
  PROVE  StepInv'
  <1> USE DEF IInv, StepInv
  <1>1. /\ client = "waiting" /\ Len(in) >= Frame
        /\ in' = SubSeq(in, Frame + 1, Len(in))
        /\ client' = IF answer' = Failure THEN "idle" ELSE "done"
        /\ UNCHANGED <<request, out, receiver, rx, half, transmitter, tx, bounds>>
    BY DEF Read
  <1>2. CASE extra
    BY <1>1, <1>2 DEF TurnInv, FlightInv, OwnInv, ResponseInv, AnswerInStep
  <1>3. CASE ~extra
    <2>1. InFlight <= Frame /\ Frame \in Nat \ {0} /\ Len(in) \in Nat
      BY <1>1, <1>3, InFlightType, ConstantTypes DEF FlightInv
    <2>2. Busy(shift) = 0 /\ Busy(tdr) = 0 /\ ToSend = 0 /\ Len(in) = Frame /\ InFlight # 0
      BY <1>1, <2>1, InFlightType DEF InFlight
    <2>3. in' = <<>>
      BY <1>1, <2>1, <2>2, SubSeqEmpty
    <2>4. InFlight' = 0
      BY <1>1, <2>2, <2>3 DEF InFlight, Busy, ToSend
    <2>5. Dead' = Dead /\ Pending' = Pending
      BY <1>1 DEF Dead, Pending, Filling, Filled
    <2>6. TurnInv'
      BY <1>1, <1>3, <2>2, <2>5 DEF TurnInv
    <2>7. FlightInv'
      BY <1>1, <2>1, <2>4 DEF FlightInv
    <2>8. OwnInv'
      BY <1>1, <2>5 DEF OwnInv, OwnByte
    <2>9. ResponseInv'
      <3>1. Len(in') = 0
        BY <2>3, EmptySeq
      <3>2. \A i \in 1 .. Len(in') : in'[i].of \in Own'
        BY <3>1
      <3>3. QED
        BY <1>1, <3>2 DEF ResponseInv, Own
    <2>10. AnswerInStep'
      <3> DEFINE bytes == [k \in 0 .. Frame - 1 |-> in[k + 1]]
      <3>1. 1 \in 1 .. Len(in) /\ bytes[0] = in[1]
        BY <2>1, <2>2
      <3>2. in[1].of \in Own
        BY <1>3, <3>1 DEF ResponseInv
      <3> HIDE DEF bytes
      <3>3. answer' = IF \E m \in Messages : Whole(bytes, m) THEN bytes[0].of ELSE Failure
        BY DEF Read, bytes
      <3>4. answer' \in Own
        BY <3>1, <3>2, <3>3 DEF Own
      <3>5. QED
        BY <1>1, <3>4 DEF AnswerInStep, Own
    <2>11. QED
      BY <2>6, <2>7, <2>8, <2>9, <2>10
  <1>4. QED
    BY <1>2, <1>3

\* Nothing is on its way any more when the client gives up.
LEMMA GiveUpStep ==
  ASSUME IInv, TypeOK', GiveUp
  PROVE  StepInv'
  <1> USE DEF IInv, StepInv
  <1>1. /\ client = "waiting" /\ out = 0 /\ Settled
        /\ client' = "idle" /\ in' = <<>>
        /\ UNCHANGED <<request, out, answer, receiver, rx, half, transmitter, tx, bounds>>
    BY DEF GiveUp
  <1>2. AnswerInStep'
    BY <1>1 DEF AnswerInStep
  <1>3. InFlight' = 0
    <2>1. ToSend' = 0
      BY <1>1 DEF Settled, ToSend
    <2>2. Busy(shift)' = 0 /\ Busy(tdr)' = 0 /\ Len(in)' = 0
      BY <1>1, EmptySeq DEF Settled, Busy
    <2>3. QED
      BY <2>1, <2>2 DEF InFlight
  <1>4. Dead' = Dead /\ Pending' = Pending
    BY <1>1 DEF Dead, Pending, Filling, Filled
  <1>5. ~Dead => ~Pending
    <2>1. ~Filling
      BY <1>1 DEF Filling
    <2>2. QED
      BY <1>1, <2>1 DEF Settled, Stuck, Dead, Pending
  <1>6. TurnInv'
    BY <1>4, <1>5 DEF TurnInv
  <1>7. FlightInv'
    BY <1>3, ConstantTypes DEF FlightInv
  <1>8. OwnInv'
    BY <1>1, <1>4 DEF OwnInv, OwnByte
  <1>9. ResponseInv'
    BY <1>1, EmptySeq DEF ResponseInv, Own
  <1>10. QED
    BY <1>2, <1>6, <1>7, <1>8, <1>9

\* The bytes on their way to the client stay as many.
LEMMA ToClientFlight ==
  ASSUME IInv, TypeOK', ToClient, UNCHANGED <<txOn, request, response>>
  PROVE  InFlight' = InFlight
  <1> USE DEF IInv
  <1>1. /\ IF shift = NoByte THEN in' = in ELSE in' = Append(in, shift) /\ shift \in Bytes
        /\ shift' = tdr
        /\ \/ /\ txOn /\ left > 0 /\ left' = left - 1
              /\ tdr' # NoByte /\ tdr'.of = response
           \/ /\ ~(txOn /\ left > 0) /\ left' = left /\ tdr' = NoByte
    BY ToClientStep
  <1>2. Len(in') = Len(in) + Busy(shift)
    <2>1. CASE shift = NoByte
      BY <1>1, <2>1, InFlightType DEF Busy
    <2>2. CASE shift # NoByte
      BY <1>1, <2>2, AppendProperties DEF Busy, TypeOK, SessionType
    <2>3. QED
      BY <2>1, <2>2
  <1>3. Busy(tdr') + ToSend' = ToSend
    <2>1. left \in Nat
      BY ConstantTypes DEF TypeOK, TransmitterType
    <2>2. CASE txOn /\ left > 0
      BY <1>1, <2>1, <2>2 DEF Busy, ToSend
    <2>3. CASE ~(txOn /\ left > 0)
      BY <1>1, <2>1, <2>3 DEF Busy, ToSend
    <2>4. QED
      BY <2>2, <2>3
  <1>4. InFlight' = Len(in') + Busy(tdr) + (Busy(tdr') + ToSend')
    <2>1. Len(in') \in Nat /\ Busy(tdr) \in {0, 1} /\ Busy(tdr') \in {0, 1} /\ ToSend' \in Nat
      BY InFlightType, LenProperties, ConstantTypes
         DEF Busy, ToSend, TypeOK, SessionType, TransmitterType
    <2>2. InFlight' = Len(in') + Busy(tdr) + Busy(tdr') + ToSend'
      BY <1>1 DEF InFlight
    <2>3. QED
      BY <2>1, <2>2
  <1>5. QED
    BY <1>2, <1>3, <1>4, InFlightType DEF InFlight

\* The bytes on their way to the client stay those of the response.
LEMMA ToClientResponse ==
  ASSUME IInv, TypeOK', ToClient, UNCHANGED <<txOn, request, response>>, ~extra
  PROVE  ResponseInv'
  <1> USE DEF IInv
  <1>1. /\ IF shift = NoByte THEN in' = in ELSE in' = Append(in, shift) /\ shift \in Bytes
        /\ shift' = tdr
        /\ \/ /\ txOn /\ left > 0 /\ left' = left - 1
              /\ tdr' # NoByte /\ tdr'.of = response
           \/ /\ ~(txOn /\ left > 0) /\ left' = left /\ tdr' = NoByte
    BY ToClientStep
  <1>2. /\ \A i \in 1 .. Len(in) : in[i].of \in Own
        /\ shift # NoByte => shift.of \in Own
        /\ tdr # NoByte => tdr.of \in Own
        /\ txOn /\ left > 0 => response \in Own
    BY DEF StepInv, ResponseInv
  <1>3. \A i \in 1 .. Len(in') : in'[i].of \in Own
    <2>1. CASE shift = NoByte
      BY <1>1, <1>2, <2>1
    <2>2. CASE shift # NoByte
      BY <1>1, <1>2, <2>2, AppendProperties, InFlightType DEF TypeOK, SessionType
    <2>3. QED
      BY <2>1, <2>2
  <1>4. shift' # NoByte => shift'.of \in Own
    BY <1>1, <1>2
  <1>5. tdr' # NoByte => tdr'.of \in Own
    BY <1>1, <1>2
  <1>6. left' > 0 /\ txOn => response \in Own
    <2>1. left \in Nat
      BY ConstantTypes DEF TypeOK, TransmitterType
    <2>2. QED
      BY <1>1, <1>2, <2>1
  <1>7. QED
    BY <1>3, <1>4, <1>5, <1>6 DEF ResponseInv, Own

\* What the client sends keeps the frames apart: a half that is completed was the one
\* that was being filled.
LEMMA FromClientFrames ==
  ASSUME TypeOK, FromClient, ~extra', UNCHANGED rx
  PROVE  (Pending' => Pending) /\ (OneFrame => OneFrame')
  <1> USE DEF TypeOK
  <1>0. /\ Frame \in Nat \ {0} /\ out \in 0 .. Frame /\ pos \in 0 .. 2 * Frame - 1
        /\ ht \in BOOLEAN /\ tc \in BOOLEAN
    BY ConstantTypes DEF SessionType, ReceiverType
  <1>1. \/ /\ UNCHANGED <<receiver, extra>>
           /\ out' = out \/ (out > 0 /\ out' = out - 1)
        \/ /\ out > 0 /\ out' = out - 1
           /\ \E b \in Bytes \cup {Noise} : OwnByte(b) /\ Receive(b)
    BY FromClientStep
  <1>2. CASE UNCHANGED receiver /\ (out' = out \/ (out > 0 /\ out' = out - 1))
    <2>1. Filling' => Filling
      BY <1>0, <1>2 DEF Filling, Filled
    <2>2. QED
      BY <1>2, <2>1 DEF Pending, OneFrame
  <1>3. CASE /\ out > 0 /\ out' = out - 1
             /\ pos' = IF pos + 1 = 2 * Frame THEN 0 ELSE pos + 1
             /\ ht' = (ht \/ pos + 1 = Frame)
             /\ tc' = (tc \/ pos + 1 = 2 * Frame)
    <2>1. CASE pos + 1 # Frame /\ pos + 1 # 2 * Frame
      <3>1. Filling' => Filling
        BY <1>0, <1>3, <2>1 DEF Filling, Filled
      <3>2. (ht' <=> ht) /\ (tc' <=> tc)
        BY <1>3, <2>1
      <3>3. QED
        BY <3>1, <3>2 DEF Pending, OneFrame
    <2>2. CASE pos + 1 = Frame \/ pos + 1 = 2 * Frame
      <3>1. Filling
        BY <1>0, <1>3, <2>2 DEF Filling, Filled
      <3>2. ~Filling'
        <4>1. pos' = Frame \/ pos' = 0
          BY <1>0, <1>3, <2>2
        <4>2. out' < Frame
          BY <1>0, <1>3
        <4>3. QED
          BY <1>0, <1>3, <4>1, <4>2 DEF Filling, Filled
      <3>3. ~(pos + 1 = Frame /\ pos + 1 = 2 * Frame)
        BY <1>0
      <3>4. Pending
        BY <3>1 DEF Pending
      <3>5. OneFrame => ~ht /\ ~tc /\ rx' # "frame"
        BY <3>1 DEF OneFrame
      <3>6. OneFrame => ~(ht' /\ tc')
        BY <1>3, <3>3, <3>5
      <3>7. QED
        BY <3>2, <3>4, <3>5, <3>6 DEF OneFrame
    <2>3. QED
      BY <2>1, <2>2
  <1>4. QED
    BY <1>1, <1>2, <1>3, ReceiveStep

\* What the client sends leaves complete frames its own.
LEMMA FromClientOwn ==
  ASSUME IInv, TypeOK', FromClient, ~extra, ~extra', ~Dead, UNCHANGED <<rx, half, request>>
  PROVE  OwnInv'
  <1> USE DEF IInv, TypeOK
  <1>0. /\ Frame \in Nat \ {0} /\ pos \in 0 .. 2 * Frame - 1 /\ half \in {0, 1}
        /\ buffer \in [0 .. 2 * Frame - 1 -> Bytes \cup {Noise}]
    BY ConstantTypes DEF ReceiverType, HandlersType
  <1>1. /\ ht => OwnByte(buffer[Frame - 1])
        /\ tc => OwnByte(buffer[2 * Frame - 1])
        /\ rx = "frame" => OwnByte(buffer[half * Frame + Frame - 1])
    BY DEF StepInv, OwnInv
  <1>2. CASE UNCHANGED receiver
    BY <1>1, <1>2 DEF OwnInv, OwnByte
  <1>3. ASSUME NEW b \in Bytes \cup {Noise}, OwnByte(b),
               buffer' = [buffer EXCEPT ![pos] = b],
               ht' = (ht \/ pos + 1 = Frame),
               tc' = (tc \/ pos + 1 = 2 * Frame)
        PROVE  OwnInv'
    <2>1. \A k \in 0 .. 2 * Frame - 1 : buffer'[k] = IF k = pos THEN b ELSE buffer[k]
      BY <1>0, <1>3
    <2>2. /\ Frame - 1 \in 0 .. 2 * Frame - 1 /\ 2 * Frame - 1 \in 0 .. 2 * Frame - 1
          /\ half * Frame + Frame - 1 \in 0 .. 2 * Frame - 1
      BY <1>0
    <2>3. ht' => OwnByte(buffer'[Frame - 1])
      <3>1. CASE pos = Frame - 1
        BY <1>3, <2>1, <2>2, <3>1
      <3>2. CASE pos # Frame - 1
        <4>1. pos + 1 # Frame
          BY <1>0, <3>2
        <4>2. ht' => ht
          BY <1>3, <4>1
        <4>3. QED
          BY <1>1, <2>1, <2>2, <3>2, <4>2
      <3>3. QED
        BY <3>1, <3>2
    <2>4. tc' => OwnByte(buffer'[2 * Frame - 1])
      <3>1. CASE pos = 2 * Frame - 1
        BY <1>3, <2>1, <2>2, <3>1
      <3>2. CASE pos # 2 * Frame - 1
        <4>1. pos + 1 # 2 * Frame
          BY <1>0, <3>2
        <4>2. tc' => tc
          BY <1>3, <4>1
        <4>3. QED
          BY <1>1, <2>1, <2>2, <3>2, <4>2
      <3>3. QED
        BY <3>1, <3>2
    <2>5. rx = "frame" => OwnByte(buffer'[half * Frame + Frame - 1])
      BY <1>1, <1>3, <2>1, <2>2
    <2>6. QED
      BY <2>3, <2>4, <2>5 DEF OwnInv, OwnByte
  <1>4. QED
    <2>1. \/ UNCHANGED receiver
          \/ \E b \in Bytes \cup {Noise} : OwnByte(b) /\ Receive(b)
      BY FromClientStep
    <2>2. QED
      BY <1>2, <1>3, <2>1, ReceiveStep

\* A byte time.
LEMMA ByteTimeStep ==
  ASSUME IInv, TypeOK', ByteTime
  PROVE  StepInv'
  <1>1. /\ FromClient /\ ToClient
        /\ UNCHANGED <<client, request, answer, rx, half, txOn, response, teTx, transmitting, tx>>
    BY DEF ByteTime
  <1>2. extra' = extra \/ extra' = TRUE
    BY <1>1, FromClientStep DEF IInv, TypeOK
  <1>3. extra \in BOOLEAN /\ extra' \in BOOLEAN
    BY DEF IInv, TypeOK, BoundsType
  <1>4. extra => extra'
    BY <1>2, <1>3, Zenon
  <1>5. AnswerInStep'
    BY <1>1, <1>4 DEF IInv, StepInv, AnswerInStep
  <1>6. CASE extra'
    BY <1>5, <1>6 DEF StepInv, TurnInv, FlightInv, OwnInv, ResponseInv
  <1>7. CASE ~extra'
    <2>1. ~extra
      BY <1>4, <1>7
    <2>2. InFlight' = InFlight
      BY <1>1, ToClientFlight
    <2>3. Dead' <=> Dead
      <3>1. Frame \in Nat /\ left \in Nat
        BY ConstantTypes DEF IInv, TypeOK, TransmitterType
      <3>2. ~txOn => left' = left
        BY <1>1, ToClientStep DEF IInv
      <3>3. QED
        BY <1>1, <3>2 DEF Dead
    <2>4. (Pending' => Pending) /\ (OneFrame => OneFrame')
      BY <1>1, <1>7, FromClientFrames DEF IInv
    <2>5. TurnInv'
      BY <1>1, <2>1, <2>2, <2>3, <2>4 DEF IInv, StepInv, TurnInv
    <2>6. FlightInv'
      BY <1>1, <2>1, <2>2 DEF IInv, StepInv, FlightInv
    <2>7. OwnInv'
      <3>1. CASE Dead
        BY <2>3, <3>1 DEF OwnInv
      <3>2. CASE ~Dead
        BY <1>1, <1>7, <2>1, <3>2, FromClientOwn
      <3>3. QED
        BY <3>1, <3>2
    <2>8. ResponseInv'
      BY <1>1, <2>1, ToClientResponse
    <2>9. QED
      BY <1>5, <2>5, <2>6, <2>7, <2>8 DEF StepInv
  <1>8. QED
    BY <1>6, <1>7

-----------------------------------------------------------------------------
(* The theorems.                                                            *)

\* Every step keeps the invariant.
LEMMA InvStep == IInv /\ [Next]_vars => IInv'
  <1> SUFFICES ASSUME IInv, [Next]_vars PROVE IInv'
    OBVIOUS
  <1>1. TypeOK'
    BY TypeStep DEF IInv
  <1>2. CASE Client
    BY <1>1, <1>2, AskStep, ReadStep, GiveUpStep DEF Client, IInv
  <1>3. CASE ByteTime
    BY <1>1, <1>3, ByteTimeStep DEF IInv
  <1>4. CASE Handlers
    BY <1>1, <1>4, RxEnterStep, RxFrameStep, RxResetStep, QuietSteps DEF Handlers, IInv
  <1>5. CASE ReceiveError \/ TransmitError \/ UNCHANGED vars
    BY <1>1, <1>5, QuietSteps DEF IInv
  <1>6. QED
    BY <1>2, <1>3, <1>4, <1>5 DEF Next

\* The inductive invariant holds throughout.
THEOREM Invariant == Spec => []IInv
  <1>1. Init => IInv
    BY TypeInit, StepInit DEF IInv
  <1>2. QED
    BY <1>1, InvStep, PTL DEF Spec

\* Both DMA channels stay inside their buffers, and every variable has its type
\* (client_communication_uart_stm32l496zg.c).
THEOREM TypeCorrect == Spec => []TypeOK
  <1>1. IInv => TypeOK
    BY DEF IInv
  <1>2. QED
    BY <1>1, Invariant, PTL

\* The response that the client reads is that to its current request, whatever has been
\* lost, garbled or delayed, and wherever a DMA channel has failed: only bytes that the
\* client did not send put it out of step (client_communication_uart.c:28-100,
\* client_communication_uart_stm32l496zg.c:115-211).
THEOREM AnswersInStep == Spec => []AnswerInStep
  <1>1. IInv => AnswerInStep
    BY DEF IInv, StepInv
  <1>2. QED
    BY <1>1, Invariant, PTL

-----------------------------------------------------------------------------
(* When a response is kept.                                                  *)

\* Nothing but an unguarded frame replaces a response that is being sent.
LEMMA OnlyRxFrameResponds ==
  ASSUME [Next]_vars, txOn, left > 0, txOn', response' # response
  PROVE  rx = "frame" /\ ~transmitting
  <1>1. CASE Client \/ ByteTime \/ ReceiveError \/ TransmitError \/ UNCHANGED vars
    BY <1>1 DEF Client, Ask, Read, GiveUp, ByteTime, ReceiveError, TransmitError, vars
  <1>2. CASE RxEnter \/ resetUart \/ TxEnter \/ TxOff \/ TxFlag
    BY <1>2 DEF RxEnter, resetUart, WaitForTransmission, Disable, Enable, TxEnter, TxOff, TxFlag
  <1>3. CASE RxFrame
    BY <1>3 DEF RxFrame
  <1>4. CASE RxReset
    BY <1>4 DEF RxReset
  <1>5. QED
    BY <1>1, <1>2, <1>3, <1>4 DEF Next, Handlers

\* However long the handlers are held off, no response is rewritten as long as the
\* controller receives nothing that the client did not send: a client that waits for its
\* answer protects it (client_communication_uart.c:31-57, PositionController.cs:96-188).
THEOREM OwnResponsesKept ==
  Spec => [][~extra /\ txOn /\ left > 0 /\ txOn' => response' = response]_vars
  <1>1. IInv /\ [Next]_vars
        => [~extra /\ txOn /\ left > 0 /\ txOn' => response' = response]_vars
    <2> SUFFICES ASSUME IInv, [Next]_vars, ~extra, txOn, left > 0, txOn',
                        response' # response
                 PROVE  FALSE
      OBVIOUS
    <2>1. rx = "frame" /\ ~Dead
      BY OnlyRxFrameResponds DEF Dead
    <2>2. InFlight = 0
      BY <2>1 DEF IInv, StepInv, TurnInv, Pending
    <2>3. QED
      BY <2>2, NothingInFlight DEF IInv
  <1>2. QED
    BY <1>1, Invariant, PTL DEF Spec

=============================================================================
