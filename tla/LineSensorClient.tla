--------------------------- MODULE LineSensorClient ---------------------------
(***************************************************************************)
(* The wireless interface's side of the SPI line to the line sensor        *)
(* (line_sensor_client.c): a timer starts transfers, two DMA channels end  *)
(* them, and the radio's task in the main loop starts and stops it all.    *)
(*                                                                         *)
(* The handlers of the two channels have the same priority 0 and the timer *)
(* has 1: each is one step.  The main loop is preempted by all of them.    *)
(***************************************************************************)
EXTENDS LineSensorSpi

Longest == Transfer("values")

VARIABLES
  lsc,         \* globals and registers, see Client
  received,    \* g_lscRxBuffer, without the fillers
  selected,    \* the slave is selected: the line is low
  radio        \* where startQueryingLineSensor or stopQueryingLineSensor stands

client == <<lsc, received, selected, radio>>

Client == [
  active : BOOLEAN, receiving : BOOLEAN, transmitting : BOOLEAN, restart : BOOLEAN,
  command : Commands \cup {None},     \* g_lscCurrentCommandCode
  timer : BOOLEAN,                    \* TIM2 counts
  asked : Commands,                   \* g_lscTxBuffer
  rx : BOOLEAN, tx : BOOLEAN,         \* DMA channels 1 and 2 are enabled
  size : 0 .. Longest, clocked : 0 .. Longest,   \* of the transfer: length, done
  rxTc : BOOLEAN, rxTe : BOOLEAN, txTc : BOOLEAN, txTe : BOOLEAN ]

\* What was last passed on: nothing in this transfer, a response, a bad CRC.
Reports == {None, "values", "error", "details", "crc"}

ClientInit ==
  /\ lsc = [active |-> FALSE, receiving |-> FALSE, transmitting |-> FALSE, restart |-> FALSE,
            command |-> None, timer |-> FALSE, asked |-> "values", rx |-> FALSE, tx |-> FALSE,
            size |-> 0, clocked |-> 0, rxTc |-> FALSE, rxTe |-> FALSE, txTc |-> FALSE,
            txTe |-> FALSE]
  /\ received = [i \in FILLERS + 1 .. Longest |-> Junk]
  /\ selected = FALSE /\ radio = None

-----------------------------------------------------------------------------
(* The radio's task.                                                        *)

Handlers == lsc.rxTc \/ lsc.rxTe \/ lsc.txTc \/ lsc.txTe

RadioStep(here, there) ==
  /\ ~Handlers
  /\ radio = here /\ radio' = there
  /\ UNCHANGED <<received, selected>>

startQueryingLineSensor ==
  \/ /\ RadioStep(None, "start") /\ ~lsc.active
     /\ lsc' = [lsc EXCEPT !.active = TRUE]
  \/ RadioStep("start", "count") /\ lsc' = [lsc EXCEPT !.command = "values"]
  \/ RadioStep("count", None) /\ lsc' = [lsc EXCEPT !.timer = TRUE]

stopQueryingLineSensor ==
  \/ /\ RadioStep(None, "stop") /\ lsc.active
     /\ lsc' = [lsc EXCEPT !.active = FALSE]
  \/ RadioStep("stop", "halt") /\ lsc' = [lsc EXCEPT !.command = None]
  \/ RadioStep("halt", None) /\ lsc' = [lsc EXCEPT !.timer = FALSE]

-----------------------------------------------------------------------------
(* A transfer: started by the timer, ended by the later of two channels.    *)

sendLineSensorCommand ==
  /\ lsc.timer /\ ~Handlers
  /\ lsc.active /\ ~lsc.receiving /\ ~lsc.transmitting
  /\ lsc.command # None
  /\ lsc' = [lsc EXCEPT !.receiving = TRUE, !.transmitting = TRUE, !.rx = TRUE, !.tx = TRUE,
                        !.asked = lsc.command, !.size = Transfer(lsc.command), !.clocked = 0]
  /\ selected' = TRUE
  /\ UNCHANGED <<received, radio>>

\* The check of the CRC that belongs to the response to a command.
CrcIsRight(c) ==
  \E b \in Bodies :
    /\ b.of # None
    /\ \A i \in 1 .. Body(c) : received[FILLERS + i] = <<"part", b, i>>
    /\ received[Transfer(c)] = <<"crc", b, 0>>

\* What is passed on, and the next command; l is the state with the channel just ended.
Result(l) ==
  IF l.command = None THEN None
  ELSE IF ~CrcIsRight(l.command) THEN "crc"
  ELSE IF l.command = "detailed" THEN "details"
  ELSE IF received[FILLERS + 1][2].err THEN "error" ELSE "values"

\* Deviation: a response that is not right is not asked for again.
NextAfterResponse(l) ==
  CASE Result(l) = "crc" -> None
    [] Result(l) = "error" -> "detailed"
    [] OTHER -> "values"

NextCommand(l) ==
  CASE Result(l) = "crc" -> l.command
    [] Result(l) = "error" -> "detailed"
    [] OTHER -> "values"

\* A transfer goes on as long as there is something to send: the transmit channel is
\* a halfword ahead.
Clocking == lsc.clocked < lsc.size /\ (lsc.tx \/ lsc.txTc \/ lsc.clocked = lsc.size - 1)

\* resetSpiDevice waits until the line is quiet, and does not deselect the slave.
checkIfSpiCommunicationWasFinished(l, report) ==
  IF l.receiving \/ l.transmitting
  THEN lsc' = l /\ UNCHANGED selected /\ report = None
  ELSE IF l.restart
  THEN /\ ~Clocking
       /\ lsc' = [l EXCEPT !.rx = FALSE, !.tx = FALSE, !.restart = FALSE, !.command = "values"]
       /\ UNCHANGED selected /\ report = None
  ELSE /\ lsc' = [l EXCEPT !.command = NextCommand(l)]
       /\ selected' = FALSE
       /\ report = Result(l)

\* Deviation: an error of the receive channel is taken for its end.
ReceiveEndUnchecked(report) ==
  /\ lsc.rxTe \/ lsc.rxTc
  /\ checkIfSpiCommunicationWasFinished(
       [lsc EXCEPT !.rx = FALSE, !.receiving = FALSE, !.rxTe = FALSE,
                   !.rxTc = @ /\ lsc.rxTe], report)
  /\ UNCHANGED <<received, radio>>

\* The receive and the transmit handler.
DMA1_Channel1_IRQHandler(report) ==
  /\ lsc.rxTe \/ lsc.rxTc
  /\ checkIfSpiCommunicationWasFinished(
       [lsc EXCEPT !.rx = FALSE, !.receiving = FALSE, !.restart = @ \/ lsc.rxTe,
                   !.rxTe = FALSE, !.rxTc = @ /\ lsc.rxTe], report)
  /\ UNCHANGED <<received, radio>>

DMA1_Channel2_IRQHandler(report) ==
  /\ lsc.txTe \/ lsc.txTc
  /\ checkIfSpiCommunicationWasFinished(
       [lsc EXCEPT !.tx = FALSE, !.transmitting = FALSE, !.restart = @ \/ lsc.txTe,
                   !.txTe = FALSE, !.txTc = @ /\ lsc.txTe], report)
  /\ UNCHANGED <<received, radio>>

-----------------------------------------------------------------------------
(* The SPI and its DMA channels.                                            *)

\* One halfword: sent says what goes out first, got what came in.
Outgoing == IF lsc.clocked = 0 THEN lsc.asked ELSE "filler"

Clock(got) ==
  /\ lsc' = [lsc EXCEPT !.clocked = @ + 1,
                        !.txTc = @ \/ (lsc.tx /\ lsc.clocked + 2 = lsc.size),
                        !.rxTc = @ \/ (lsc.rx /\ lsc.clocked + 1 = lsc.size)]
  /\ received' = IF lsc.rx /\ lsc.clocked >= FILLERS
                 THEN [received EXCEPT ![lsc.clocked + 1] = got] ELSE received
  /\ UNCHANGED <<selected, radio>>

ReceiveError ==
  /\ lsc.rx /\ ~lsc.rxTc /\ lsc.clocked < lsc.size
  /\ lsc' = [lsc EXCEPT !.rx = FALSE, !.rxTe = TRUE]
  /\ UNCHANGED <<received, selected, radio>>

TransmitError ==
  /\ lsc.tx /\ ~lsc.txTc /\ lsc.clocked < lsc.size - 1
  /\ lsc' = [lsc EXCEPT !.tx = FALSE, !.txTe = TRUE]
  /\ UNCHANGED <<received, selected, radio>>
=============================================================================
