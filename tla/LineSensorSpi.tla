---------------------------- MODULE LineSensorSpi ----------------------------
(***************************************************************************)
(* The line sensor's end of the SPI line to its master (spi.c), with the   *)
(* task that computes a response's CRC in the main loop (simple_tasks.c).  *)
(*                                                                         *)
(* Four levels: the SPI interrupt (0), the end of the response's DMA (1),  *)
(* the select line (2) and the main loop.  A handler is one step, for what *)
(* it shares with a more urgent one it does with interrupts masked; the    *)
(* task is a step from one access of shared data to the next.              *)
(***************************************************************************)
EXTENDS Integers

\* The commands the master of this repository sends.
Commands == {"values", "detailed"}
None == "none"

\* What a response says: the command it answers, whether its measurement is marked as
\* new, and whether its status reports an error.  The values are left out.
Bodies == [of : Commands \cup {None}, new : BOOLEAN, err : BOOLEAN]
NoBody == [of |-> None, new |-> FALSE, err |-> FALSE]

\* Halfwords of a body, of which only their different number matters.
Body(c) == IF c = "values" THEN 2 ELSE 1

FILLERS == 2                                       \* FILLER_HALF_WORDS_TO_TRANSMIT
Transfer(c) == FILLERS + Body(c) + 1

\* Halfwords towards the master: a part of a response, its CRC (known by the body
\* it was computed from), or anything else, as the fillers are.
Junk == <<"junk", NoBody, 0>>
Parts == {"part"} \X Bodies \X {1, 2}
Crcs == {"crc"} \X Bodies \X {0}
Halfwords == {Junk} \cup Parts \cup Crcs
\* An empty data register.
Empty == <<"empty", NoBody, 0>>

VARIABLES
  spi,      \* globals, registers and response buffers, see Slave
  edge,     \* the select line has changed: EXTI0 is pending
  task,     \* where the main loop stands in runTasks and computeCommandCrc
  pTxData   \* computeCommandCrc's copy of g_spiTxData

slave == <<spi, edge, task, pTxData>>

Slave == [
  state : {"IDLE", "COMMAND", "FILLER", "RESPONSE"},  \* g_spiState
  fillers : 0 .. FILLERS + 1,                         \* g_spiFillerHalfWordsTransmitted
  tx : Commands \cup {None},                          \* g_spiTxData, by the command answered
  length : 0 .. 3,                                    \* g_spiTxDataHalfWordLength
  command : Commands \cup {None},                     \* g_spiCurrentCommand
  txeie : BOOLEAN, rxneie : BOOLEAN,                  \* interrupt enable bits
  dr : Halfwords \cup {Empty},                        \* transmit data register
  rdr : Commands \cup {None, "filler"},               \* receive data register
  dma : BOOLEAN, from : Commands \cup {None}, left : 0 .. 3, tc : BOOLEAN,  \* channel 5
  unit : {"reset", "half", "whole", "other"}, summed : Bodies,  \* the CRC unit
  slot : BOOLEAN,                                     \* g_taskSchedulerCurrentTask is set
  response : [Commands -> Bodies],
  crc : [Commands -> Bodies],                         \* by the body it is the CRC of
  errors : BOOLEAN,                                   \* an SPI flag of the detailed status
  restarted : BOOLEAN ]                               \* its flag of a watchdog reset

Boot == [
  state |-> "IDLE", fillers |-> 0, tx |-> None, length |-> 0, command |-> None,
  txeie |-> FALSE, rxneie |-> FALSE, dr |-> Empty, rdr |-> None,
  dma |-> FALSE, from |-> None, left |-> 0, tc |-> FALSE,
  unit |-> "reset", summed |-> NoBody, slot |-> FALSE,
  response |-> [c \in Commands |-> [NoBody EXCEPT !.of = c]],
  crc |-> [c \in Commands |-> NoBody], errors |-> FALSE, restarted |-> FALSE ]

SlaveInit == spi = Boot /\ edge = FALSE /\ task = "idle" /\ pTxData = None

-----------------------------------------------------------------------------
(* What the handlers do, as functions of the slave's state.                 *)

spiStop(s) ==
  [s EXCEPT !.dma = FALSE, !.unit = "reset", !.txeie = FALSE, !.rxneie = FALSE,
            !.summed = NoBody, !.tx = None, !.state = "IDLE", !.length = 0, !.command = None, !.fillers = 0]

spiError(s) == [spiStop(s) EXCEPT !.errors = TRUE]

spiStart(s) ==
  IF s.state # "IDLE" THEN spiError(s)
  ELSE [s EXCEPT !.state = "COMMAND", !.fillers = 1, !.dr = Junk,
                 !.txeie = TRUE, !.rxneie = TRUE]

\* Any flag of the detailed status makes it an error.
getSensorStatus(s) == s.errors \/ s.restarted

\* The response to a command is filled in; newer says that a measurement has been
\* published since the last one (whose slot has the CRC of something else).
fillInCommandData(s, c, newer) ==
  LET old == s.response[c] IN
  IF c = "values" /\ newer
  THEN [s EXCEPT !.response[c] = [old EXCEPT !.new = TRUE, !.err = getSensorStatus(s)],
                 !.crc[c] = NoBody]
  ELSE [s EXCEPT !.response[c].err = getSensorStatus(s) \/ (c = "values" /\ old.err)]

\* The channel is pointed at the response: so many halfwords, the CRC the last.
Prepared(s, c, newer, length) ==
  [fillInCommandData(s, c, newer) EXCEPT
     !.from = c, !.left = length, !.tx = c, !.length = length]

\* Deviations: a CRC task that has not finished is not waited for; the fillers are
\* taken for a part of the response.
ProcessUnscheduled(s, c, newer) ==
  [Prepared(s, c, newer, Body(c) + 1) EXCEPT !.slot = TRUE, !.state = "FILLER"]
ProcessWithFillers(s, c, newer) ==
  [Prepared(s, c, newer, Transfer(c)) EXCEPT !.slot = TRUE, !.state = "FILLER"]

processCommand(s, c, newer) ==
  LET ready == Prepared(s, c, newer, Body(c) + 1)
  IN  IF s.slot THEN spiError(ready)
      ELSE [ready EXCEPT !.slot = TRUE, !.state = "FILLER"]

\* The receive half of the SPI interrupt: once the command is in, it reads no more.
OnReceived(s, newer) ==
  IF ~s.rxneie \/ s.rdr = None THEN s
  ELSE IF s.state # "COMMAND" THEN [s EXCEPT !.rxneie = FALSE]
  ELSE LET read == [s EXCEPT !.rdr = None, !.rxneie = FALSE] IN
       IF s.rdr \in Commands
       THEN processCommand([read EXCEPT !.command = s.rdr], s.rdr, newer)
       ELSE spiError(read)

\* The DMA channel fills an empty data register at once.
Feed(s) ==
  IF s.dma /\ s.left > 0 /\ s.dr = Empty
  THEN [s EXCEPT !.dr = IF s.left = 1 THEN <<"crc", s.crc[s.from], 0>>
                        ELSE <<"part", s.response[s.from], Body(s.from) + 2 - s.left>>,
                 !.left = @ - 1,
                 !.tc = @ \/ s.left = 1]
  ELSE s

\* All counts above FILLERS are alike.
Increment(n) == IF n > FILLERS THEN n ELSE n + 1

\* The transmit half; the flag, not the enable bit, is what the handler tests.
OnEmpty(s) ==
  IF s.dr # Empty THEN s
  ELSE IF s.state # "FILLER" THEN [s EXCEPT !.dr = Junk, !.fillers = Increment(@)]
  ELSE IF s.fillers = FILLERS
       THEN Feed([s EXCEPT !.state = "RESPONSE", !.dma = TRUE, !.txeie = FALSE])
  ELSE IF s.fillers > FILLERS THEN spiError([s EXCEPT !.dr = Junk])
  ELSE [s EXCEPT !.dr = Junk, !.fillers = Increment(@)]

\* Only the SPI flags are cleared.
processEndOfTransmittingResponse(s) ==
  [s EXCEPT !.response["values"].new = @ /\ s.command # "values",
            !.state = "IDLE", !.errors = FALSE]

-----------------------------------------------------------------------------
(* The interrupt handlers, most urgent first.                               *)

\* In a fault no handler runs.
Alive == task # "fault"

SpiPending == (spi.rxneie /\ spi.rdr # None) \/ (spi.txeie /\ spi.dr = Empty)

SPI2_IRQHandler(newer) ==
  /\ Alive /\ SpiPending
  /\ spi' = OnEmpty(OnReceived(spi, newer))
  /\ UNCHANGED <<edge, task, pTxData>>

DMA1_Channel5_IRQHandler ==
  /\ Alive /\ spi.tc /\ ~SpiPending
  /\ LET off == [spi EXCEPT !.tc = FALSE, !.dma = FALSE]
     IN  spi' = IF spi.state = "RESPONSE" THEN processEndOfTransmittingResponse(off)
                ELSE spiError(off)
  /\ UNCHANGED <<edge, task, pTxData>>

\* The pin is read when the handler runs: two edges may have become one.
EXTI0_IRQHandler(selected) ==
  /\ Alive /\ edge /\ ~SpiPending /\ ~spi.tc
  /\ edge' = FALSE
  /\ spi' = IF selected THEN spiStart(spi) ELSE spiStop(spi)
  /\ UNCHANGED <<task, pTxData>>

\* A transfer error of channel 5.
ResponseError ==
  /\ Alive /\ spi.dma /\ spi.left > 0
  /\ spi' = spiError(spi)
  /\ UNCHANGED <<edge, task, pTxData>>

-----------------------------------------------------------------------------
(* The main loop: runTasks and, in it, computeCommandCrc.                   *)

Interrupted == SpiPending \/ spi.tc \/ edge

At(here, there) ==
  /\ ~Interrupted
  /\ task = here /\ task' = there
  /\ UNCHANGED edge

LoadTask == At("idle", "pointer") /\ spi.slot /\ UNCHANGED <<spi, pTxData>>

LoadPointer == At("pointer", "length") /\ pTxData' = spi.tx /\ UNCHANGED spi

\* The length is read after the pointer.  Two less than 0 is not 0: with the pointer
\* of a response that has been stopped since, the sum runs off the end of the memory.
LoadLength ==
  /\ UNCHANGED <<spi, pTxData>>
  /\ \/ pTxData = None /\ At("length", "clear")
     \/ pTxData # None /\ spi.length > 0 /\ At("length", "sum")
     \/ pTxData # None /\ spi.length = 0 /\ At("length", "fault")

\* The first and the last words of the body go into the CRC unit.
SumFirst ==
  /\ At("sum", "rest")
  /\ spi' = [spi EXCEPT !.unit = IF @ = "reset" THEN "half" ELSE "other",
                        !.summed = spi.response[pTxData]]
  /\ UNCHANGED pTxData

SumRest ==
  /\ At("rest", "switch")
  /\ spi' = [spi EXCEPT !.unit = IF @ = "half" /\ spi.summed = spi.response[pTxData]
                                 THEN "whole" ELSE "other"]
  /\ UNCHANGED pTxData

\* The case is chosen by the command in hand.
SwitchOnCommand ==
  /\ UNCHANGED <<spi, pTxData>>
  /\ \/ spi.command = None /\ At("switch", "clear")
     \/ spi.command # None /\ At("switch", "store")

Sum == IF spi.unit = "whole" THEN spi.summed ELSE NoBody

\* g_spiTxData is read again for the store.  A store through null goes to the flash,
\* where it is ignored or faults.
StoreCrc ==
  /\ UNCHANGED pTxData
  /\ \/ spi.tx # None /\ At("store", "clear") /\ spi' = [spi EXCEPT !.crc[spi.tx] = Sum]
     \/ spi.tx = None /\ UNCHANGED spi /\ (At("store", "clear") \/ At("store", "fault"))

\* The slot is cleared twice.
ClearTask ==
  /\ At("clear", "again") \/ At("again", "idle")
  /\ pTxData' = None
  /\ spi' = [spi EXCEPT !.slot = FALSE]

RunTasks ==
  LoadTask \/ LoadPointer \/ LoadLength \/ SumFirst \/ SumRest \/ SwitchOnCommand
    \/ StoreCrc \/ ClearTask

Reboot(booted) == spi' = booted /\ edge' = FALSE /\ task' = "idle" /\ pTxData' = None

\* A fault handler never returns; the watchdog starts the program anew, which finds out
\* and flags it, for as long as it has power.
Watchdog == task = "fault" /\ Reboot([Boot EXCEPT !.restarted = TRUE])

-----------------------------------------------------------------------------
\* One halfword of a transfer: what is sent is the data register, or something if
\* that is empty; what is received is lost unless the last has been read.
Sent == IF spi.dr = Empty THEN Junk ELSE spi.dr

Shift(received) ==
  spi' = Feed([spi EXCEPT !.dr = Empty, !.rdr = IF @ = None THEN received ELSE @])
=============================================================================
