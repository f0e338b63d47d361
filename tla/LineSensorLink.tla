---------------------------- MODULE LineSensorLink ----------------------------
(***************************************************************************)
(* The SPI line between the wireless interface and the line sensor: the    *)
(* client and the slave, run by their own processors, and the wires.       *)
(*                                                                         *)
(* The line is slow: a handler of the slave is done within the time of a   *)
(* halfword, and the task when its response's CRC goes out, or at least    *)
(* when the next transfer starts, 5 ms after the last.  To be later than   *)
(* that, to lose or garble a halfword, to meet an error of a DMA channel   *)
(* or to be reset are faults, of which there are at most Faults.           *)
(***************************************************************************)
EXTENDS LineSensorClient

CONSTANTS Faults   \* most faults, and stops of the queries, of a run

ASSUME FaultsAssumption == Faults \in Nat

VARIABLES
  faults,   \* so far
  got,      \* what was last passed on in this transfer, and the response it is from
  answer,   \* the response the slave has begun to send in this transfer
  cut       \* the client's transmit channel has failed

vars == <<slave, client, faults, got, answer, cut>>

Nothing == [kind |-> None, body |-> NoBody]

Init ==
  /\ SlaveInit /\ ClientInit
  /\ faults = 0
  /\ got = Nothing /\ answer = NoBody /\ cut = FALSE

Fault == faults < Faults /\ faults' = faults + 1
FaultIf(condition) == IF condition THEN Fault ELSE UNCHANGED faults

\* The slave has not done yet what the line is about to need.
Late ==
  /\ Alive
  /\ \/ Interrupted
     \/ (spi.slot \/ task # "idle") /\ (~selected \/ (spi.dma /\ spi.left = 1))

-----------------------------------------------------------------------------
(* The slave.                                                               *)

\* The response is read from where the channel points once it is enabled.
Command(newer) ==
  /\ SPI2_IRQHandler(newer)
  /\ answer' = IF spi'.dma /\ ~spi.dma THEN spi.response[spi.from] ELSE answer
  /\ UNCHANGED <<client, faults, got, cut>>

Select == EXTI0_IRQHandler(selected) /\ UNCHANGED <<client, faults, got, answer, cut>>

ResponseEnd == DMA1_Channel5_IRQHandler /\ UNCHANGED <<client, faults, got, answer, cut>>

Work == Alive /\ RunTasks /\ UNCHANGED <<client, faults, got, answer, cut>>

Restart == Watchdog /\ UNCHANGED <<client, faults, got, answer, cut>>

-----------------------------------------------------------------------------
(* The client.                                                              *)

StartOrStop ==
  /\ startQueryingLineSensor \/ stopQueryingLineSensor
  /\ FaultIf(radio = None /\ lsc.active)
  /\ UNCHANGED <<slave, got, answer, cut>>

\* The select line, changed by the client, interrupts the slave.
Edge == edge' = (edge \/ selected' # selected)

Timer ==
  /\ sendLineSensorCommand
  /\ Edge /\ FaultIf(Late)
  /\ got' = Nothing /\ answer' = NoBody
  /\ UNCHANGED <<spi, task, pTxData, cut>>

TransferEnd ==
  /\ \E report \in Reports :
       /\ DMA1_Channel1_IRQHandler(report) \/ DMA1_Channel2_IRQHandler(report)
       /\ got' = IF report \in {None, "crc"} THEN [got EXCEPT !.kind = report]
                 ELSE [kind |-> report, body |-> received[FILLERS + 1][2]]
  /\ Edge /\ FaultIf(selected' # selected /\ Late)
  /\ UNCHANGED <<spi, task, pTxData, answer, cut>>

-----------------------------------------------------------------------------
(* The wires.                                                               *)

\* The line carries a halfword both ways.  A slave that is not selected stays out.
Carry(in, out) ==
  /\ Clock(IF selected THEN in ELSE Junk)
  /\ IF selected THEN Shift(out) ELSE UNCHANGED spi
  /\ UNCHANGED <<edge, task, pTxData, got, answer, cut>>

Tick == Clocking /\ Carry(Sent, Outgoing) /\ FaultIf(Late)

Garble == Clocking /\ (Carry(Junk, Outgoing) \/ Carry(Sent, "filler")) /\ Fault

ChannelError ==
  /\ Fault
  /\ UNCHANGED <<got, answer>>
  /\ \/ ReceiveError /\ UNCHANGED <<slave, cut>>
     \/ TransmitError /\ cut' = TRUE /\ UNCHANGED slave
     \/ ResponseError /\ UNCHANGED <<client, cut>>

PowerLoss == Fault /\ Reboot(Boot) /\ UNCHANGED <<client, got, answer, cut>>

-----------------------------------------------------------------------------
Next ==
  \/ \E newer \in BOOLEAN : Command(newer)
  \/ Select \/ ResponseEnd \/ Work \/ Restart
  \/ StartOrStop \/ Timer \/ TransferEnd
  \/ Tick \/ Garble \/ ChannelError \/ PowerLoss

\* That a new measurement is there when values are asked for, not every time but again
\* and again.
NewMeasurement == spi.state = "COMMAND" /\ spi.rdr = "values" /\ Command(TRUE)

\* Handlers are run, the main loops loop, the clock ticks.
Fairness ==
  /\ WF_vars(\E newer \in BOOLEAN : Command(newer)) /\ SF_vars(NewMeasurement)
  /\ WF_vars(Select) /\ WF_vars(ResponseEnd) /\ WF_vars(Work) /\ WF_vars(Restart)
  /\ WF_vars(radio # None /\ StartOrStop) /\ WF_vars(Timer) /\ WF_vars(TransferEnd)
  /\ WF_vars(Tick)

Spec == Init /\ [][Next]_vars /\ Fairness

-----------------------------------------------------------------------------
SlaveType ==
  /\ spi \in Slave /\ edge \in BOOLEAN /\ pTxData \in Commands \cup {None}
  /\ task \in {"idle", "pointer", "length", "sum", "rest", "switch", "store", "clear",
               "again", "fault"}

ClientType ==
  /\ lsc \in Client /\ received \in [FILLERS + 1 .. Longest -> Halfwords] /\ selected \in BOOLEAN
  /\ radio \in {None, "start", "count", "stop", "halt"}

TypeOK ==
  /\ SlaveType /\ ClientType
  /\ faults \in 0 .. Faults /\ cut \in BOOLEAN
  /\ got \in [kind : Reports, body : Bodies] /\ answer \in Bodies

\* What the client passes on as values, an error or details is the response that the
\* slave sent in this very transfer, to that very command, whatever is left in the
\* buffers of earlier transfers (line_sensor_client.c:388-442, spi.c:349-375).
AcceptedIsFresh ==
  got.kind \in {"values", "error", "details"} =>
    /\ got.body = answer
    /\ answer.of = IF got.kind = "details" THEN "detailed" ELSE "values"

\* The task never writes its CRC into the response to another command than the one it
\* has summed, though it reads the pointer again for the store (spi.c:473-497).
TaskWritesOwnResponse == [][task = "store" /\ Work => spi.tx \in {pTxData, None}]_vars

\* However a transfer fails, as long as the client is asked to query the line sensor new
\* values arrive again and again, with two exceptions.  When its own transmit channel has
\* failed, it waits for ever for the end of the receive channel (line_sensor_client.c:390).
\* When the watchdog has restarted the line sensor, every response is an error until power
\* is lost: then the detailed status arrives again and again (watchdog.c:17-20).
Recovers ==
  <>[](lsc.active /\ ~cut) => []<>(got.kind = IF spi.restarted THEN "details" ELSE "values")
=============================================================================
