------------------------------ MODULE ClientUart ------------------------------
(***************************************************************************)
(* The position controller's end of its client's serial line               *)
(* (client_communication_uart.c, client_communication_uart_stm32l496zg.c), *)
(* with a client that asks as the data collector's PositionController.cs   *)
(* does: one request at a time, given up when no answer comes.             *)
(*                                                                         *)
(* Requests and responses are frames of fixed length without delimiters.   *)
(* A circular DMA fills two halves of a buffer, each a frame, and flags    *)
(* each half it completes; a frame that is wrong makes the receive handler *)
(* (priority 4) start the whole UART anew, so that the halves are aligned  *)
(* with frames again.  The transmit handler (priority 5) is preempted by   *)
(* the receive handler.  Both lines carry one byte in one byte time.       *)
(***************************************************************************)
EXTENDS Integers, Sequences

CONSTANTS
  Frame,      \* bytes of a request and of a response: 12 in the code
  Requests,   \* requests are told apart up to this number
  Faults,     \* bound on what goes wrong on the lines, resets asked for included
  Delays      \* bound on the byte times that handlers of other levels take

ASSUME UartAssumption ==
  /\ Frame \in Nat \ {0} /\ Requests \in Nat \ {0}
  /\ Faults \in Nat /\ Delays \in Nat

VARIABLES
  \* the client
  client,        \* what it is doing: "idle", "waiting" for a response, "done" with it
  request,       \* its current request
  out,           \* bytes of the request that are still to be sent
  in,            \* bytes received from the controller and not read yet
  answer,        \* the request that the response it read answers, or Failure
  \* the receiver
  rxOn, pos,     \* DMA channel 7: enabled, position in g_clientUartRxBuffer
  buffer,        \* g_clientUartRxBuffer
  ht, tc,        \* its flags: a half is complete,
  teRx,          \* a transfer has failed
  rx, half,      \* where DMA2_Channel7_IRQHandler stands, and with which half
  \* the transmitter
  txOn, left,    \* DMA channel 6: enabled, bytes left
  response,      \* g_clientUartTxBuffer: the request it answers, or Failure
  tdr, shift,    \* transmit data and shift registers
  tcTx, teTx,    \* flags: the transfer is complete, has failed
  tx,            \* where DMA2_Channel6_IRQHandler stands
  transmitting,  \* g_clientUartIsTransmitting
  \* bounds
  faults, delays,
  extra          \* bytes have arrived that the client did not send

session == <<client, request, out, in, answer>>
receiver == <<rxOn, pos, buffer, ht, tc, teRx>>
transmitter == <<txOn, left, response, tdr, shift, tcTx, teTx, transmitting>>
bounds == <<faults, delays, extra>>
vars == <<session, receiver, rx, half, transmitter, tx, bounds>>

Reset == Requests            \* MCMD_RESET; the other requests are numbered
Failure == Requests + 1      \* a response that reports a bad frame
Messages == 0 .. Requests + 1

\* A byte is known by its message and its place in it.
Bytes == [of : Messages, at : 0 .. Frame - 1]
NoByte == [of |-> -1, at |-> 0]
Noise == [of |-> -2, at |-> 0]

Whole(bytes, m) == \A k \in 0 .. Frame - 1 : bytes[k] = [of |-> m, at |-> k]

SessionType ==
  /\ client \in {"idle", "waiting", "done"}
  /\ request \in 0 .. Requests /\ out \in 0 .. Frame
  /\ in \in Seq(Bytes) /\ answer \in Messages

ReceiverType ==
  /\ rxOn \in BOOLEAN /\ pos \in 0 .. 2 * Frame - 1
  /\ buffer \in [0 .. 2 * Frame - 1 -> Bytes \cup {Noise}]
  /\ ht \in BOOLEAN /\ tc \in BOOLEAN /\ teRx \in BOOLEAN

TransmitterType ==
  /\ txOn \in BOOLEAN /\ left \in 0 .. Frame
  /\ response \in Messages
  /\ tdr \in Bytes \cup {NoByte} /\ shift \in Bytes \cup {NoByte}
  /\ tcTx \in BOOLEAN /\ teTx \in BOOLEAN /\ transmitting \in BOOLEAN

HandlersType ==
  /\ rx \in {"none", "frame", "wait", "disable", "enable"} /\ half \in {0, 1}
  /\ tx \in {"none", "off", "flag", "wait", "disable", "enable"}

BoundsType == faults \in 0 .. Faults /\ delays \in 0 .. Delays /\ extra \in BOOLEAN

\* Every variable has its type; the DMA stays inside g_clientUartRxBuffer.
TypeOK == SessionType /\ ReceiverType /\ TransmitterType /\ HandlersType /\ BoundsType

Init ==
  /\ client = "idle" /\ request = 0 /\ out = 0 /\ in = <<>> /\ answer = Failure
  /\ rxOn = TRUE /\ pos = 0 /\ buffer = [i \in 0 .. 2 * Frame - 1 |-> Noise]
  /\ ht = FALSE /\ tc = FALSE /\ teRx = FALSE /\ rx = "none" /\ half = 0
  /\ txOn = FALSE /\ left = 0 /\ response = Failure
  /\ tdr = NoByte /\ shift = NoByte
  /\ tcTx = FALSE /\ teTx = FALSE /\ tx = "none" /\ transmitting = FALSE
  /\ faults = 0 /\ delays = 0 /\ extra = FALSE

Fault == faults < Faults /\ faults' = faults + 1

-----------------------------------------------------------------------------
(* The client: ExecutePrebuiltCommand.                                      *)

\* A request that is not a reset, or a reset, which has no response.
Ask ==
  /\ client \in {"idle", "done"}
  /\ \/ request' = (IF request = Reset THEN 0 ELSE (request + 1) % Requests)
        /\ UNCHANGED faults
     \/ request' = Reset /\ Fault
  /\ client' = "waiting" /\ out' = Frame /\ answer' = Failure
  /\ UNCHANGED <<in, receiver, rx, half, transmitter, tx, delays, extra>>

\* As many bytes as a response has are read and decoded.
Read ==
  /\ client = "waiting" /\ out = 0 /\ Len(in) >= Frame
  /\ LET bytes == [k \in 0 .. Frame - 1 |-> in[k + 1]]
     IN  answer' = IF \E m \in Messages : Whole(bytes, m) THEN bytes[0].of ELSE Failure
  /\ in' = SubSeq(in, Frame + 1, Len(in))
  /\ client' = IF answer' = Failure THEN "idle" ELSE "done"
  /\ UNCHANGED <<request, out, receiver, rx, half, transmitter, tx, bounds>>

\* A channel that is off sends no more: a wait for its bytes has no end.
Stuck == "wait" \in {rx, tx} /\ left > 0 /\ ~txOn

\* The second the client waits is far longer than any response takes: when it is over
\* nothing is under way.  What came of a response is read with it and dropped: what the
\* client takes for its answer then is in DataCollector.
Settled ==
  /\ tdr = NoByte /\ shift = NoByte /\ (txOn => left = 0)
  /\ \/ rx = "wait" /\ Stuck
     \/ /\ rx = "none" /\ ~ht /\ ~tc /\ ~teRx
        /\ Stuck \/ (tx = "none" /\ ~tcTx /\ ~teTx)

GiveUp ==
  /\ client = "waiting" /\ out = 0 /\ Len(in) < Frame
  /\ Settled
  /\ client' = "idle" /\ in' = <<>>
  /\ UNCHANGED <<request, out, answer, receiver, rx, half, transmitter, tx, bounds>>

-----------------------------------------------------------------------------
(* One byte time on both lines, and the DMA transfers it makes.             *)

\* Deviation: the DMA's length is that of two receive buffers.
ReceiveTwice(b) ==
  IF rxOn
  THEN /\ buffer' = [buffer EXCEPT ![pos % (2 * Frame)] = b]
       /\ pos' = (pos + 1) % (4 * Frame)
       /\ ht' = (ht \/ pos + 1 = 2 * Frame)
       /\ tc' = (tc \/ pos + 1 = 4 * Frame)
       /\ UNCHANGED <<rxOn, teRx>>
  ELSE UNCHANGED receiver

Receive(b) ==
  IF rxOn
  THEN /\ buffer' = [buffer EXCEPT ![pos] = b]
       /\ pos' = (pos + 1) % (2 * Frame)
       /\ ht' = (ht \/ pos + 1 = Frame)
       /\ tc' = (tc \/ pos + 1 = 2 * Frame)
       /\ UNCHANGED <<rxOn, teRx>>
  ELSE UNCHANGED receiver

FromClient ==
  \/ /\ out > 0 /\ out' = out - 1
     /\ \/ Receive([of |-> request, at |-> Frame - out]) /\ UNCHANGED faults
        \/ Receive(Noise) /\ Fault
        \/ UNCHANGED receiver /\ Fault
     /\ UNCHANGED extra
  \/ out = 0 /\ UNCHANGED <<out, receiver, faults, extra>>
  \/ out = 0 /\ Receive(Noise) /\ Fault /\ extra' = TRUE /\ UNCHANGED out

ToClient ==
  /\ in' = IF shift = NoByte THEN in ELSE Append(in, shift)
  /\ shift' = tdr
  /\ IF txOn /\ left > 0
     THEN /\ tdr' = [of |-> response, at |-> Frame - left]
          /\ left' = left - 1 /\ tcTx' = (tcTx \/ left = 1)
     ELSE tdr' = NoByte /\ UNCHANGED <<left, tcTx>>

\* A handler can go on; handlers of other levels may keep it from it for a while.
Transmitted == left = 0 /\ tdr = NoByte

Ready ==
  \/ rx = "none" /\ (ht \/ tc \/ teRx)
  \/ rx \notin {"none", "wait"}
  \/ rx = "none" /\ tx = "none" /\ (tcTx \/ teTx)
  \/ rx = "none" /\ tx \notin {"none", "wait"}
  \/ "wait" \in {rx, tx} /\ rx \in {"none", "wait"} /\ Transmitted

ByteTime ==
  /\ IF Ready THEN delays < Delays /\ delays' = delays + 1 ELSE UNCHANGED delays
  /\ FromClient /\ ToClient
  /\ UNCHANGED <<client, request, answer, rx, half, txOn, response, teTx, transmitting, tx>>

\* A DMA channel fails, which disables it.
ReceiveError ==
  /\ rxOn /\ Fault
  /\ rxOn' = FALSE /\ teRx' = TRUE
  /\ UNCHANGED <<session, pos, buffer, ht, tc, rx, half, transmitter, tx, delays, extra>>

TransmitError ==
  /\ txOn /\ left > 0 /\ Fault
  /\ txOn' = FALSE /\ teTx' = TRUE
  /\ UNCHANGED <<session, receiver, rx, half, left, response, tdr, shift, tcTx, transmitting,
                 tx, delays, extra>>

-----------------------------------------------------------------------------
(* DMA2_Channel7_IRQHandler.                                                *)

\* Deviation: the flag of the half is not cleared.
RxEnterKeepsFlag ==
  /\ rx = "none" /\ (ht \/ tc)
  /\ half' = IF ht THEN 0 ELSE 1
  /\ rx' = "frame"
  /\ UNCHANGED <<session, receiver, transmitter, tx, bounds>>

RxEnter ==
  /\ rx = "none"
  /\ \/ /\ teRx /\ teRx' = FALSE
        /\ rx' = "wait" /\ UNCHANGED <<ht, tc, half>>
     \/ /\ ~teRx /\ UNCHANGED teRx
        /\ rx' = "frame"
        /\ \/ ht /\ half' = 0 /\ ht' = FALSE /\ UNCHANGED tc
           \/ ~ht /\ tc /\ half' = 1 /\ tc' = FALSE /\ UNCHANGED ht
  /\ UNCHANGED <<session, rxOn, pos, buffer, transmitter, tx, bounds>>

\* The request in the half just completed; Failure when header or CRC are wrong.
Received ==
  LET bytes == [k \in 0 .. Frame - 1 |-> buffer[half * Frame + k]]
  IN  IF \E m \in 0 .. Requests : Whole(bytes, m) THEN bytes[0].of ELSE Failure

\* The response is filled in and its transfer started; the length of an enabled
\* channel cannot be written.
Respond ==
  /\ transmitting' = TRUE
  /\ response' = Received
  /\ left' = IF txOn THEN left ELSE Frame
  /\ txOn' = TRUE
  /\ UNCHANGED <<tdr, shift, tcTx, teTx>>

\* Deviations: a response is begun while another is being sent; frames stay
\* misaligned after a bad one.
RxFrameUnchecked ==
  /\ rx = "frame" /\ Received # Reset
  /\ Respond
  /\ rx' = IF Received = Failure THEN "wait" ELSE "none"
  /\ UNCHANGED <<session, receiver, half, tx, bounds>>

RxFrameUnaligned ==
  /\ rx = "frame" /\ Received # Reset
  /\ IF transmitting THEN UNCHANGED transmitter ELSE Respond
  /\ rx' = "none"
  /\ UNCHANGED <<session, receiver, half, tx, bounds>>

\* processReceivedBuffer with processCommand, and with tryToProcessEmergencyStopCommand
\* while a response is being sent: then none is given.
RxFrame ==
  /\ rx = "frame" /\ (Received = Reset => transmitting)
  /\ IF transmitting THEN UNCHANGED transmitter ELSE Respond
  /\ rx' = IF Received = Failure THEN "wait" ELSE "none"
  /\ UNCHANGED <<session, receiver, half, tx, bounds>>

\* MCMD_RESET: NVIC_SystemReset, and initializeClientCommunicationUart.
RxReset ==
  /\ rx = "frame" /\ Received = Reset /\ ~transmitting
  /\ rxOn' = TRUE /\ pos' = 0 /\ buffer' = [i \in 0 .. 2 * Frame - 1 |-> Noise]
  /\ ht' = FALSE /\ tc' = FALSE /\ teRx' = FALSE /\ rx' = "none" /\ half' = 0
  /\ txOn' = FALSE /\ left' = 0 /\ response' = Failure
  /\ tdr' = NoByte /\ shift' = NoByte
  /\ tcTx' = FALSE /\ teTx' = FALSE /\ tx' = "none" /\ transmitting' = FALSE
  /\ UNCHANGED <<session, bounds>>

-----------------------------------------------------------------------------
(* resetUart, called by either handler.                                     *)

AtTx(here) == tx = here /\ rx = "none" /\ ~ht /\ ~tc /\ ~teRx

Steps(by, here, there) ==
  IF by = "rx" THEN rx = here /\ rx' = there /\ UNCHANGED tx
  ELSE AtTx(here) /\ tx' = there /\ UNCHANGED rx

\* Wait for the DMA and for the transmit data register, ...
WaitForTransmission(by) ==
  /\ Steps(by, "wait", "disable")
  /\ Transmitted
  /\ UNCHANGED <<session, receiver, half, transmitter, bounds>>

\* ... disable both channels and the UART, which drops what it was shifting out, ...
Disable(by) ==
  /\ Steps(by, "disable", "enable")
  /\ rxOn' = FALSE /\ txOn' = FALSE /\ shift' = NoByte
  /\ UNCHANGED <<session, pos, buffer, ht, tc, teRx, half, left, response, tdr, tcTx, teTx,
                 transmitting, bounds>>

\* ... and initializeUartImpl.
Enable(by) ==
  /\ Steps(by, "enable", "none")
  /\ transmitting' = FALSE
  /\ rxOn' = TRUE /\ pos' = 0
  /\ UNCHANGED <<session, buffer, ht, tc, teRx, half, txOn, left, response, tdr, shift, tcTx,
                 teTx, bounds>>

resetUart == \E by \in {"rx", "tx"} : WaitForTransmission(by) \/ Disable(by) \/ Enable(by)

-----------------------------------------------------------------------------
(* DMA2_Channel6_IRQHandler.                                                *)

TxEnter ==
  /\ \/ teTx /\ AtTx("none") /\ tx' = "wait" /\ teTx' = FALSE /\ UNCHANGED tcTx
     \/ ~teTx /\ tcTx /\ AtTx("none") /\ tx' = "off" /\ tcTx' = FALSE /\ UNCHANGED teTx
  /\ UNCHANGED <<session, receiver, rx, half, txOn, left, response, tdr, shift,
                 transmitting, bounds>>

TxOff ==
  /\ AtTx("off")
  /\ txOn' = FALSE /\ tx' = "flag"
  /\ UNCHANGED <<session, receiver, rx, half, left, response, tdr, shift, tcTx, teTx,
                 transmitting, bounds>>

TxFlag ==
  /\ AtTx("flag")
  /\ transmitting' = FALSE /\ tx' = "none"
  /\ UNCHANGED <<session, receiver, rx, half, txOn, left, response, tdr, shift, tcTx, teTx,
                 bounds>>

-----------------------------------------------------------------------------

Client == Ask \/ Read \/ GiveUp

Handlers ==
  \/ RxEnter \/ RxFrame \/ RxReset \/ resetUart
  \/ TxEnter \/ TxOff \/ TxFlag

Next == Client \/ ByteTime \/ ReceiveError \/ TransmitError \/ Handlers

Spec == Init /\ [][Next]_vars

\* The client goes on asking, the lines carry their bytes, handlers are served.
FairSpec ==
  Spec /\ WF_vars(Client) /\ WF_vars(Handlers)
       /\ WF_vars(ByteTime /\ (out > 0 \/ ~Settled))

-----------------------------------------------------------------------------
(* Properties.                                                              *)

\* g_clientUartTxBuffer is not rewritten while a response is being sent from it: not at
\* all when the controller receives only what its client sends, however late the handlers
\* run; and when it receives more, as long as they have been held up for no more than a
\* frame's time in all.  Later the flag may have been cleared for the transfer before, and
\* nothing keeps the response then (client_communication_uart_stm32l496zg.c:147-211).
ResponseKept ==
  [][(extra => delays <= Frame) /\ txOn /\ left > 0 /\ txOn' => response' = response]_vars

\* As long as the controller receives nothing that the client did not send, the
\* response the client reads is that to its current request.
AnswerInStep == client = "done" /\ ~extra => answer = request

\* After up to two faults, whatever was lost, garbled or added, the controller finds the
\* frames again and sends the answer to the current request of a client that asks on,
\* again and again; only when a DMA channel has failed may resetUart wait for ever for a
\* transfer that was stopped.  A third fault and handlers held up for a byte time more
\* than a frame can make it wait for ever without that (the same file, 115-158).
Recovers ==
  []~(teRx \/ teTx) \/ []~Stuck => []<>(transmitting /\ txOn /\ response = request)

\* "make sure to transmit result 1st": the UART is not disabled before the response
\* has left it.
ResultTransmittedFirst == rx = "disable" => shift = NoByte
=============================================================================
