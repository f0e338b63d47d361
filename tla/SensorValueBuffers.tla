-------------------------- MODULE SensorValueBuffers --------------------------
(***************************************************************************)
(* How the line sensor hands measurements from its ADC to its SPI slave    *)
(* (collectSensorValues in adc.c; fillInCommandData and                    *)
(* processEndOfTransmittingResponse in spi.c).                             *)
(*                                                                         *)
(* The producer is the ADC's DMA interrupt, of the lowest priority (3); it *)
(* is preempted between any two of its accesses by the SPI interrupts (0   *)
(* to 2), which take a slot for the DMA to transmit, and later release it. *)
(* They are never preempted by the producer, so each is one step.          *)
(***************************************************************************)
EXTENDS ConsumerProducerBuffer

CONSTANTS
  Words,          \* the words of a measurement: the values of the sensors
  Measurements    \* bound on the measurements made

ASSUME BuffersAssumption == Measurements \in Nat

VARIABLES
  indexes,    \* g_lineSensorValuesBuffersProducerConsumerIndexes
  values,     \* g_lineSensorValuesBuffers: the measurement each word comes from
  fresh,      \* LSS_OK_FLAG_NEW_DATA_AVAILABLE in each slot's currentStatus
  measured,   \* number of the measurement being collected, or last collected
  pc,         \* where collectSensorValues stands
  index,      \* its local producerBufferIndex
  unwritten,  \* the words its loop has not copied yet
  old,        \* setLastReadIndex's local oldDataBufferIndexes
  sending,    \* the response to a GET_SENSOR_VALUES is being transmitted
  reported    \* history: the data last transmitted in full and marked as new

producer == <<measured, pc, index, unwritten, old>>
vars == <<indexes, values, fresh, producer, sending, reported>>

TypeOK ==
  /\ indexes \in Indexes
  /\ values \in [Slots -> [Words -> Nat]]
  /\ fresh \in [Slots -> BOOLEAN]
  /\ measured \in Nat
  /\ pc \in {"idle", "copy", "load", "swap"}
  /\ index \in SlotIndexes
  /\ unwritten \subseteq Words
  /\ old \in Indexes
  /\ sending \in BOOLEAN
  /\ reported \in [Words -> Nat]

Init ==
  /\ indexes = DATA_BUFFER_EMPTY_INDEXES
  /\ values = [s \in Slots |-> [w \in Words |-> 0]]
  /\ fresh = [s \in Slots |-> FALSE]
  /\ measured = 0 /\ reported = [w \in Words |-> 0]
  /\ pc = "idle" /\ index = 0 /\ unwritten = {} /\ old = DATA_BUFFER_EMPTY_INDEXES
  /\ sending = FALSE

-----------------------------------------------------------------------------
(* The producer: DMA1_Channel1_IRQHandler, processAdcData,                  *)
(* collectSensorValues and setLastReadIndex.                                *)

\* A slot is chosen; were there none, the indexes would start afresh.
ChooseSlot ==
  /\ pc = "idle" /\ measured < Measurements
  /\ measured' = measured + 1
  /\ index' = getProducerIndex(indexes)
  /\ IF index' = DATA_BUFFER_LENGTH
     THEN indexes' = DATA_BUFFER_EMPTY_INDEXES /\ UNCHANGED <<pc, unwritten>>
     ELSE pc' = "copy" /\ unwritten' = Words /\ UNCHANGED indexes
  /\ UNCHANGED <<values, fresh, old, sending, reported>>

CopyWord(w) ==
  /\ pc = "copy" /\ w \in unwritten
  /\ values' = [values EXCEPT ![index][w] = measured]
  /\ unwritten' = unwritten \ {w}
  /\ UNCHANGED <<indexes, fresh, measured, pc, index, old, sending, reported>>

SetStatus ==
  /\ pc = "copy" /\ unwritten = {}
  /\ fresh' = [fresh EXCEPT ![index] = TRUE]
  /\ pc' = "load"
  /\ UNCHANGED <<indexes, values, measured, index, unwritten, old, sending, reported>>

LoadIndexes ==
  /\ pc = "load"
  /\ old' = indexes
  /\ pc' = "swap"
  /\ UNCHANGED <<indexes, values, fresh, measured, index, unwritten, sending, reported>>

\* Deviation: the word is stored without looking whether it changed.
StoreIndexes ==
  /\ pc = "swap"
  /\ indexes' = SetLastRead(old, index) /\ pc' = "idle"
  /\ UNCHANGED <<values, fresh, measured, index, unwritten, old, sending, reported>>

\* The weak compare and exchange fails if the word changed, and may fail anyhow.
SwapIndexes ==
  /\ pc = "swap"
  /\ \/ indexes = old /\ indexes' = SetLastRead(old, index) /\ pc' = "idle"
     \/ pc' = "load" /\ UNCHANGED indexes
  /\ UNCHANGED <<values, fresh, measured, index, unwritten, old, sending, reported>>

-----------------------------------------------------------------------------
(* The consumer: the SPI slave's interrupts.                                *)

\* GET_SENSOR_VALUES arrives: the latest slot is taken, and transmission begins.
StartResponse ==
  /\ ~sending
  /\ indexes' = MoveConsumer(indexes)
  /\ sending' = TRUE
  /\ UNCHANGED <<values, fresh, producer, reported>>

\* Deviation: the data stay marked as new after they were sent.
EndResponseKeepsFresh ==
  /\ sending
  /\ sending' = FALSE
  /\ LET idx == indexes.consumer
     IN  reported' = IF idx # DATA_BUFFER_LENGTH /\ fresh[idx] THEN values[idx] ELSE reported
  /\ UNCHANGED <<indexes, values, fresh, producer>>

\* The response has been sent in full: its data are no longer new.
EndResponse ==
  /\ sending
  /\ sending' = FALSE
  /\ LET idx == indexes.consumer
     IN  IF idx = DATA_BUFFER_LENGTH
         THEN UNCHANGED <<fresh, reported>>
         ELSE /\ fresh' = [fresh EXCEPT ![idx] = FALSE]
              /\ reported' = IF fresh[idx] THEN values[idx] ELSE reported
  /\ UNCHANGED <<indexes, values, producer>>

\* The master deselects the slave in the middle of the response (spiStop).
AbandonResponse ==
  /\ sending
  /\ sending' = FALSE
  /\ UNCHANGED <<indexes, values, fresh, producer, reported>>

Producer ==
  \/ ChooseSlot
  \/ \E w \in Words : CopyWord(w)
  \/ SetStatus \/ LoadIndexes \/ SwapIndexes

Consumer == StartResponse \/ EndResponse \/ AbandonResponse

Next == Producer \/ Consumer

Spec == Init /\ [][Next]_vars
-----------------------------------------------------------------------------
(* The inductive invariant.                                                 *)

\* The data at a slot number; a measurement 0 that was never made where there is none.
Data(i) == IF i \in Slots THEN values[i] ELSE [w \in Words |-> 0]

Latest == Data(indexes.last)
Taken == Data(indexes.consumer)

\* The slot being filled is neither the one published nor the one held, whatever
\* the consumer did since it was chosen.
FillingInv ==
  pc # "idle" =>
    /\ index \in Slots /\ index # indexes.last /\ index # indexes.consumer
    /\ \A w \in Words \ unwritten : values[index][w] = measured
    /\ pc \in {"load", "swap"} => unwritten = {}
    /\ pc = "swap" => old.last = indexes.last

\* Measurements are published and taken in the order they were made.
OrderInv ==
  /\ indexes.last = DATA_BUFFER_LENGTH => indexes.consumer = DATA_BUFFER_LENGTH
  /\ \A w \in Words : Latest[w] <= measured
  /\ pc # "idle" => \A w \in Words : Latest[w] < measured
  /\ indexes.consumer # indexes.last => \A w \in Words : Taken[w] < Latest[w]

\* What is marked as new in the slot held has not been reported as new.
FreshInv ==
  /\ \A w \in Words : reported[w] <= Taken[w]
  /\ indexes.consumer \in Slots /\ fresh[indexes.consumer] =>
       \A w \in Words : reported[w] < Taken[w]

IInv == TypeOK /\ FillingInv /\ OrderInv /\ FreshInv

-----------------------------------------------------------------------------
(* Properties.                                                              *)

Register == INSTANCE LatestValue WITH latest <- Latest, taken <- Taken

\* Preempted wherever it may be, the producer publishes whole measurements at one
\* instant, and what the DMA transmits is the latest one and does not change under it.
RegisterImplemented == Register!Spec

\* "reset new data available in case master queries too fast": a response that
\* says its data are new has newer data, in every word, than any that said so before.
NewIsNewer ==
  sending /\ indexes.consumer \in Slots /\ fresh[indexes.consumer] =>
    \A w \in Words : reported[w] < Taken[w]
=============================================================================
