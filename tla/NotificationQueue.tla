-------------------------- MODULE NotificationQueue --------------------------
(***************************************************************************)
(* What the wireless interface passes on over Bluetooth: the queue between *)
(* the interrupt that ends a transfer (line_sensor_client.c, the functions *)
(* send...ToClient) and the task of the main loop that sends notifications *)
(* (p2p_server_app.c), with the sequencer that runs the task.              *)
(*                                                                         *)
(* The producer is an interrupt and so one step.  The consumer, one step   *)
(* from one access of shared data to the next, may be interrupted anywhere *)
(* and waits for the radio while it sends.  A publication every 5 ms finds *)
(* task with the indexes of the last one stored; before that it comes too  *)
(* soon, which happens Mishaps times at most.                              *)
(***************************************************************************)
EXTENDS ConsumerProducerBuffer

CONSTANTS
  Modulus,   \* of the counters of an entry: 256 in the code
  Mishaps    \* most publications that come too soon, and failed updates

ASSUME NotificationAssumption == Modulus \in Nat \ {0, 1} /\ Mishaps \in Nat

VARIABLES
  word,      \* g_lineSensorDataQueueProducerConsumerIndexes
  queue,     \* g_lineSensorDataQueue
  ready,     \* the task's bit in the sequencer's TaskSet
  status,    \* notificationStatus
  active,    \* g_lscIsActive
  transfer,  \* a transfer of the client goes on
  pc,        \* where p2pSendNotification stands
  loaded,    \* its copy of the word
  out,       \* the entry as the update of the characteristic read it first
  probe,     \* some values published: not yet, not yet sent, sent (or later ones)
  owed,      \* calls published and not yet handed over, modulo Modulus
  mishaps    \* so far

device == <<word, queue, ready, status, active, transfer, pc, loaded>>
vars == <<device, out, probe, owed, mishaps>>

\* An entry: its calls, what was published into it last, and whether its values are
\* those of the probe or later.
Entries == [calls : 0 .. Modulus - 1, kind : {"none", "values", "failure"}, since : BOOLEAN]
Zeroed == [calls |-> 0, kind |-> "none", since |-> FALSE]

\* Deviation: the entry held before is sent.
HeldBefore == loaded.consumer

Held == loaded.last

\* The word is not reset by this program: slot 0 counts as filled, and as held.
Init ==
  /\ word = [last |-> 0, consumer |-> 0]
  /\ queue = [i \in Slots |-> Zeroed]
  /\ ready = FALSE /\ status = FALSE /\ active = FALSE /\ transfer = FALSE
  /\ pc = "idle" /\ loaded = word
  /\ out = Zeroed /\ probe = "none" /\ owed = 0 /\ mishaps = 0

Plus(n) == (n + 1) % Modulus

-----------------------------------------------------------------------------
(* The client: transfers, and at the end of each a publication.             *)

sendLineSensorCommand ==
  /\ active /\ ~transfer
  /\ transfer' = TRUE
  /\ UNCHANGED <<word, queue, ready, status, active, pc, loaded, out, probe, owed, mishaps>>

\* Deviation: the task is called only when the last entry had nothing to send.
SetTaskOnce == ready' = (ready \/ queue[word.last].calls = 0)

lineSensorDataAvailable == ready' = TRUE

TooSoon == ready \/ pc \in {"load", "store"}

\* Deviations: the calls that an entry has kept from an earlier use are forgotten; the
\* counter has no width.
CountAnew(entry) == 1
CountUnbounded(entry) == entry.calls + 1

CountCall(entry) == Plus(entry.calls)

\* Of three entries two are avoided: there is always one for the producer.  Into it go
\* either values or, with the values left as they are, an error or a CRC error.
Published(i, kind, isProbe) ==
  [queue EXCEPT ![i] = [calls |-> CountCall(@), kind |-> kind,
                        since |-> IF kind = "values" THEN isProbe \/ probe # "none" ELSE @.since]]

TransferEnd(kind, isProbe) ==
  LET i == getProducerIndex(word) IN
  /\ transfer /\ transfer' = FALSE
  /\ isProbe => probe = "none" /\ kind = "values"
  /\ queue' = Published(i, kind, isProbe)
  /\ word' = SetLastRead(word, i)
  /\ lineSensorDataAvailable
  /\ probe' = IF isProbe THEN "waiting" ELSE probe
  /\ owed' = Plus(owed)
  /\ IF TooSoon THEN mishaps < Mishaps /\ mishaps' = mishaps + 1 ELSE UNCHANGED mishaps
  /\ UNCHANGED <<status, active, pc, loaded, out>>

-----------------------------------------------------------------------------
(* The main loop: events of the connection, and the notification task.      *)

p2pStmAppNotification(enable) ==
  /\ pc = "idle" /\ status # enable
  /\ status' = enable /\ active' = enable
  /\ UNCHANGED <<word, queue, ready, transfer, pc, loaded, out, probe, owed, mishaps>>

\* The sequencer clears the bit before it runs the task.
UTIL_SEQ_Run ==
  /\ pc = "idle" /\ ready
  /\ ready' = FALSE
  /\ pc' = IF status THEN "load" ELSE "idle"
  /\ UNCHANGED <<word, queue, status, active, transfer, loaded, out, probe, owed, mishaps>>

LoadIndexes ==
  /\ pc = "load" /\ pc' = "store"
  /\ loaded' = word
  /\ UNCHANGED <<word, queue, ready, status, active, transfer, out, probe, owed, mishaps>>

\* A plain store: what has been published since the load is undone.
StoreIndexes ==
  /\ pc = "store" /\ pc' = "check"
  /\ word' = MoveConsumer(loaded)
  /\ UNCHANGED <<queue, ready, status, active, transfer, loaded, out, probe, owed, mishaps>>

\* The entry is sent if it counts any call.
Update ==
  /\ pc = "check"
  /\ IF Held < DATA_BUFFER_LENGTH /\ queue[Held].calls > 0
     THEN pc' = "sending" /\ out' = queue[Held]
     ELSE pc' = "idle" /\ UNCHANGED out
  /\ UNCHANGED <<word, queue, ready, status, active, transfer, loaded, probe, owed, mishaps>>

\* The update's result is ignored; in either case the entry's calls are gone.
Updated ==
  /\ pc = "sending" /\ pc' = "clear"
  /\ owed' = (owed + Modulus - out.calls) % Modulus
  /\ \/ /\ probe' = IF probe = "waiting" /\ out.since THEN "sent" ELSE probe
        /\ UNCHANGED mishaps
     \/ mishaps < Mishaps /\ mishaps' = mishaps + 1 /\ UNCHANGED probe
  /\ UNCHANGED <<word, queue, ready, status, active, transfer, loaded, out>>

Clear ==
  /\ pc = "clear" /\ pc' = "idle"
  /\ queue' = [queue EXCEPT ![Held] = Zeroed]
  /\ out' = Zeroed
  /\ UNCHANGED <<word, ready, status, active, transfer, loaded, probe, owed, mishaps>>

p2pSendNotification == LoadIndexes \/ StoreIndexes \/ Update \/ Updated \/ Clear

-----------------------------------------------------------------------------
PublishValues == \E isProbe \in BOOLEAN : TransferEnd("values", isProbe)

Next ==
  \/ sendLineSensorCommand
  \/ PublishValues \/ TransferEnd("failure", FALSE)
  \/ \E enable \in BOOLEAN : p2pStmAppNotification(enable)
  \/ UTIL_SEQ_Run \/ p2pSendNotification

\* The main loop loops; how often values arrive is said in the properties.
Spec == Init /\ [][Next]_vars /\ WF_vars(UTIL_SEQ_Run) /\ WF_vars(p2pSendNotification)

-----------------------------------------------------------------------------
TypeOK ==
  /\ word \in Indexes /\ loaded \in Indexes
  /\ queue \in [Slots -> Entries] /\ out \in Entries
  /\ ready \in BOOLEAN /\ status \in BOOLEAN /\ active \in BOOLEAN /\ transfer \in BOOLEAN
  /\ pc \in {"idle", "load", "store", "check", "sending", "clear"}
  /\ probe \in {"none", "waiting", "sent"}
  /\ owed \in 0 .. Modulus - 1 /\ mishaps \in 0 .. Mishaps

\* The entry that is being sent and then zeroed is not written in between, though the
\* consumer's store may have undone publications (p2p_server_app.c:74-78).
HeldEntryUntouched == pc \in {"sending", "clear"} => queue[Held] = out

Count(i) == IF pc = "clear" /\ i = Held THEN 0 ELSE queue[i].calls

\* Every call of the line sensor is counted in exactly one notification: what has not
\* been handed over is in the entries (line_sensor_client.c:444-511, p2p_server_app.c:78).
CallsConserved == owed = (Count(0) + Count(1) + Count(2)) % Modulus

\* Once some values have been sent, values published before them are not sent as the
\* latest, which an undone publication might become (p2p_server_app.c:74).
NoOlderValues ==
  [][Updated /\ probe = "sent" /\ out.kind = "values" => out.since]_vars

\* As long as notifications are wanted and values arrive, some values published, or
\* later ones, are sent: a publication undone by the consumer's store or found to count
\* no call is made up for by the next (p2p_server_app.c:70-81, line_sensor_client.c:492).
ValuesGetSent ==
  <>[]status /\ []<><<PublishValues>>_vars => [](probe = "waiting" => <>(probe = "sent"))
=============================================================================
