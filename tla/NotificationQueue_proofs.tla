----------------------- MODULE NotificationQueue_proofs -----------------------
(***************************************************************************)
(* Theorems about the queue of notifications, for counters of any width    *)
(* and however often publications come too soon or updates fail.           *)
(***************************************************************************)
EXTENDS NotificationQueue, ConsumerProducerBuffer_proofs, TLAPS

\* Once something has been filled there is always something to read.
SlotInv == word.last \in Slots /\ loaded.last \in Slots

\* From its store on the consumer's slot is in the word, so that the producer avoids it.
HeldInv == pc \in {"check", "sending", "clear"} => word.consumer = Held

\* An entry that does not hold values from before the probe.
Marked(i) == queue[i].kind = "values" => queue[i].since

\* The entries the consumer may come to hold as the latest are of the probe or later
\* once the probe has been sent; before that, what is published after it is marked.
ProbeInv ==
  /\ \A i \in Slots : queue[i].since => probe # "none"
  /\ pc \in {"check", "sending"} /\ queue[Held].since => Marked(word.last)
  /\ probe = "sent" =>
       /\ Marked(word.last)
       /\ pc \in {"store", "check", "sending", "clear"} => Marked(Held)

IInv == TypeOK /\ SlotInv /\ HeldInv /\ HeldEntryUntouched /\ CallsConserved /\ ProbeInv

USE DEF Held

-----------------------------------------------------------------------------
(* Arithmetic of the counters.                                              *)

\* The remainder of a sum of three counters.
LEMMA SmallRemainder ==
  ASSUME NEW s \in Nat, s < 3 * Modulus
  PROVE  s % Modulus = IF s < Modulus THEN s
                       ELSE IF s < 2 * Modulus THEN s - Modulus ELSE s - 2 * Modulus
  <1>1. Modulus \in Nat \ {0}
    BY NotificationAssumption
  <1>2. CASE s < Modulus
    BY <1>1, <1>2
  <1>3. CASE Modulus <= s /\ s < 2 * Modulus
    BY <1>1, <1>3
  <1>4. CASE 2 * Modulus <= s
    BY <1>1, <1>4
  <1>5. QED
    BY <1>1, <1>2, <1>3, <1>4

\* The counter after a call.
LEMMA PlusType ==
  ASSUME NEW n \in 0 .. Modulus - 1
  PROVE  Plus(n) \in 0 .. Modulus - 1 /\ Plus(n) = IF n + 1 = Modulus THEN 0 ELSE n + 1
  <1>1. Modulus \in Nat \ {0, 1}
    BY NotificationAssumption
  <1>2. n + 1 < 3 * Modulus
    BY <1>1
  <1>3. Plus(n) = IF n + 1 = Modulus THEN 0 ELSE n + 1
    BY <1>1, <1>2, SmallRemainder DEF Plus
  <1>4. QED
    BY <1>1, <1>3

\* A call more in one of three entries is a call more in all.
LEMMA CallCounted ==
  ASSUME NEW a \in 0 .. Modulus - 1, NEW b \in 0 .. Modulus - 1, NEW c \in 0 .. Modulus - 1
  PROVE  (Plus(a) + b + c) % Modulus = Plus((a + b + c) % Modulus)
  <1> DEFINE all == a + b + c
             more == Plus(a) + b + c
             owing == all % Modulus
  <1>1. Modulus \in Nat \ {0, 1}
    BY NotificationAssumption
  <1>2. all \in Nat /\ all < 3 * Modulus
    BY <1>1
  <1>3. owing \in 0 .. Modulus - 1
    BY <1>1, <1>2
  <1>4. more \in Nat /\ more < 3 * Modulus
    BY <1>1, PlusType
  <1>5. more = IF a + 1 = Modulus THEN all + 1 - Modulus ELSE all + 1
    BY <1>1, PlusType
  <1> HIDE DEF all, more
  <1>6. owing = IF all < Modulus THEN all
                ELSE IF all < 2 * Modulus THEN all - Modulus ELSE all - 2 * Modulus
    BY <1>2, SmallRemainder
  <1>7. more % Modulus = IF more < Modulus THEN more
                         ELSE IF more < 2 * Modulus THEN more - Modulus
                         ELSE more - 2 * Modulus
    BY <1>4, SmallRemainder
  <1> HIDE DEF owing
  <1>8. Plus(owing) = IF owing + 1 = Modulus THEN 0 ELSE owing + 1
    BY <1>3, PlusType
  <1>9. more % Modulus = Plus(owing)
    BY <1>1, <1>2, <1>3, <1>4, <1>5, <1>6, <1>7, <1>8
  <1>10. QED
    BY <1>9 DEF all, more, owing

\* The calls of an entry that is handed over are no longer owed.
LEMMA CallsHandedOver ==
  ASSUME NEW a \in 0 .. Modulus - 1, NEW b \in 0 .. Modulus - 1, NEW c \in 0 .. Modulus - 1
  PROVE  (b + c) % Modulus = (((a + b + c) % Modulus) + Modulus - a) % Modulus
  <1> DEFINE all == a + b + c
             owing == all % Modulus
             kept == owing + Modulus - a
  <1>1. Modulus \in Nat \ {0, 1}
    BY NotificationAssumption
  <1>2. all \in Nat /\ all < 3 * Modulus
    BY <1>1
  <1>3. owing \in 0 .. Modulus - 1
    BY <1>1, <1>2
  <1>4. b + c \in Nat /\ b + c < 3 * Modulus
    BY <1>1
  <1> HIDE DEF all
  <1>5. owing = IF all < Modulus THEN all
                ELSE IF all < 2 * Modulus THEN all - Modulus ELSE all - 2 * Modulus
    BY <1>2, SmallRemainder
  <1> HIDE DEF owing
  <1>6. kept \in Nat /\ kept < 3 * Modulus
    BY <1>1, <1>3
  <1> HIDE DEF kept
  <1>7. kept % Modulus = IF kept < Modulus THEN kept
                         ELSE IF kept < 2 * Modulus THEN kept - Modulus
                         ELSE kept - 2 * Modulus
    BY <1>6, SmallRemainder
  <1>8. (b + c) % Modulus = kept % Modulus
    BY <1>1, <1>2, <1>3, <1>4, <1>5, <1>7, SmallRemainder DEF all, kept
  <1>9. QED
    BY <1>8 DEF kept, owing, all

-----------------------------------------------------------------------------
(* The inductive invariant.                                                 *)

\* The program starts with an empty queue, nothing owed.
LEMMA InitInv == Init => IInv
  <1> SUFFICES ASSUME Init PROVE IInv
    OBVIOUS
  <1> USE DEF Init
  <1>1. Slots = {0, 1, 2} /\ Modulus \in Nat \ {0, 1} /\ Mishaps \in Nat
    BY NotificationAssumption DEF Slots, DATA_BUFFER_LENGTH
  <1>2. word \in Indexes /\ SlotInv
    BY <1>1 DEF Indexes, SlotIndexes, DATA_BUFFER_LENGTH, SlotInv
  <1>3. Zeroed \in Entries
    BY <1>1 DEF Zeroed, Entries
  <1>4. TypeOK
    <2>1. queue \in [Slots -> Entries] /\ out \in Entries /\ loaded \in Indexes
      BY <1>2, <1>3
    <2>2. owed \in 0 .. Modulus - 1 /\ mishaps \in 0 .. Mishaps
      BY <1>1
    <2>3. QED
      BY <1>2, <2>1, <2>2 DEF TypeOK
  <1>5. \A i \in Slots : queue[i] = Zeroed
    OBVIOUS
  <1>6. ProbeInv /\ HeldInv /\ HeldEntryUntouched
    BY <1>2, <1>5 DEF ProbeInv, HeldInv, HeldEntryUntouched, Zeroed
  <1>7. Count(0) = 0 /\ Count(1) = 0 /\ Count(2) = 0
    BY <1>1, <1>5 DEF Count, Zeroed
  <1>8. CallsConserved
    BY <1>1, <1>7 DEF CallsConserved
  <1>9. QED
    BY <1>2, <1>4, <1>6, <1>8 DEF IInv

\* The counts of the entries are counters.
LEMMA CountType ==
  ASSUME TypeOK, NEW i \in Slots
  PROVE  Count(i) \in 0 .. Modulus - 1
  <1>1. Modulus \in Nat \ {0, 1}
    BY NotificationAssumption
  <1>2. queue[i].calls \in 0 .. Modulus - 1
    BY DEF TypeOK, Entries
  <1>3. QED
    BY <1>1, <1>2 DEF Count

\* What a publication does: the free slot gets one call more, the others are left alone.
LEMMA Publication ==
  ASSUME IInv, NEW kind \in {"values", "failure"}, NEW isProbe \in BOOLEAN,
         TransferEnd(kind, isProbe)
  PROVE  \E i \in Slots :
           /\ i # word.last /\ i # word.consumer
           /\ word' = [last |-> i, consumer |-> word.consumer] /\ word' \in Indexes
           /\ queue' \in [Slots -> Entries]
           /\ \A j \in Slots : j # i => queue'[j] = queue[j]
           /\ queue'[i].calls = Plus(queue[i].calls)
           /\ queue'[i].kind = kind
           /\ queue'[i].since = IF kind = "values" THEN isProbe \/ probe # "none"
                                ELSE queue[i].since
  <1> DEFINE i == getProducerIndex(word)
             old == queue[i]
             new == [calls |-> Plus(old.calls), kind |-> kind,
                     since |-> IF kind = "values" THEN isProbe \/ probe # "none" ELSE old.since]
  <1>1. i \in Slots /\ i # word.last /\ i # word.consumer
    BY FreeSlot DEF IInv, TypeOK
  <1>2. word' = [last |-> i, consumer |-> word.consumer] /\ word' \in Indexes
    BY <1>1, WordType DEF TransferEnd, IInv, TypeOK
  <1>3. queue' = [queue EXCEPT ![i] = new]
    BY DEF TransferEnd, Published, CountCall
  <1>4. old \in Entries /\ queue \in [Slots -> Entries]
    BY <1>1 DEF IInv, TypeOK
  <1> HIDE DEF i, old
  <1>5. Plus(old.calls) \in 0 .. Modulus - 1
    BY <1>4, PlusType DEF Entries
  <1>6. new.calls = Plus(old.calls) /\ new.kind = kind
        /\ new.since = IF kind = "values" THEN isProbe \/ probe # "none" ELSE old.since
    BY <1>4 DEF Entries
  <1>7. new \in Entries
    BY <1>4, <1>5 DEF Entries
  <1> HIDE DEF new
  <1>8. queue'[i] = new /\ \A j \in Slots : j # i => queue'[j] = queue[j]
    BY <1>1, <1>3, <1>4
  <1>9. queue' \in [Slots -> Entries]
    BY <1>1, <1>3, <1>4, <1>7
  <1>10. old = queue[i]
    BY DEF old
  <1>11. QED
    BY <1>1, <1>2, <1>6, <1>8, <1>9, <1>10

\* A publication keeps the invariant, wherever it interrupts the consumer.
LEMMA TransferEndInv ==
  ASSUME IInv, NEW kind \in {"values", "failure"}, NEW isProbe \in BOOLEAN,
         TransferEnd(kind, isProbe)
  PROVE  IInv'
  <1> USE DEF IInv
  <1>0. Slots = {0, 1, 2} /\ Modulus \in Nat \ {0, 1}
    BY NotificationAssumption DEF Slots, DATA_BUFFER_LENGTH
  <1>1. PICK i \in Slots :
          /\ i # word.last /\ i # word.consumer
          /\ word' = [last |-> i, consumer |-> word.consumer] /\ word' \in Indexes
          /\ queue' \in [Slots -> Entries]
          /\ \A j \in Slots : j # i => queue'[j] = queue[j]
          /\ queue'[i].calls = Plus(queue[i].calls)
          /\ queue'[i].kind = kind
          /\ queue'[i].since = IF kind = "values" THEN isProbe \/ probe # "none"
                               ELSE queue[i].since
    BY Publication
  <1>2. /\ UNCHANGED <<status, active, pc, loaded, out>>
        /\ ready' = TRUE /\ transfer' = FALSE /\ owed' = Plus(owed)
        /\ probe' = IF isProbe THEN "waiting" ELSE probe
        /\ isProbe => probe = "none" /\ kind = "values"
    BY DEF TransferEnd, lineSensorDataAvailable
  <1>3. word'.last = i /\ word'.consumer = word.consumer
    BY <1>1
  <1>4. TypeOK'
    <2>1. mishaps' \in 0 .. Mishaps
      BY NotificationAssumption DEF TransferEnd, TypeOK
    <2>2. owed' \in 0 .. Modulus - 1
      BY <1>2, PlusType DEF TypeOK
    <2>3. QED
      BY <1>1, <1>2, <2>1, <2>2 DEF TypeOK
  <1>5. SlotInv' /\ HeldInv'
    BY <1>2, <1>3 DEF SlotInv, HeldInv
  <1>6. pc \in {"check", "sending", "clear"} => Held # i
    BY <1>1 DEF HeldInv
  <1>7. Held \in Slots /\ Held' = Held
    BY <1>2 DEF SlotInv
  <1>8. HeldEntryUntouched'
    BY <1>1, <1>2, <1>6, <1>7 DEF HeldEntryUntouched
  <1>9. CallsConserved'
    <2>1. \A j \in Slots : Count(j) \in 0 .. Modulus - 1
      BY CountType
    <2>2. \A j \in Slots : j # i => Count(j)' = Count(j)
      BY <1>1, <1>2 DEF Count
    <2>3. Count(i)' = Plus(Count(i))
      BY <1>1, <1>2, <1>6 DEF Count
    <2>4. CASE i = 0
      <3>1. (Plus(Count(0)) + Count(1) + Count(2)) % Modulus
              = Plus((Count(0) + Count(1) + Count(2)) % Modulus)
        BY <1>0, <2>1, CallCounted
      <3>2. QED
        BY <1>0, <1>2, <2>2, <2>3, <2>4, <3>1 DEF CallsConserved
    <2>5. CASE i = 1
      <3>1. (Plus(Count(1)) + Count(0) + Count(2)) % Modulus
              = Plus((Count(1) + Count(0) + Count(2)) % Modulus)
        BY <1>0, <2>1, CallCounted
      <3>2. Plus(Count(1)) \in Nat
        BY <1>0, <2>1, PlusType
      <3>3. /\ Count(0) + Plus(Count(1)) + Count(2) = Plus(Count(1)) + Count(0) + Count(2)
            /\ Count(0) + Count(1) + Count(2) = Count(1) + Count(0) + Count(2)
        BY <1>0, <2>1, <3>2
      <3>4. QED
        BY <1>0, <1>2, <2>2, <2>3, <2>5, <3>1, <3>3 DEF CallsConserved
    <2>6. CASE i = 2
      <3>1. (Plus(Count(2)) + Count(0) + Count(1)) % Modulus
              = Plus((Count(2) + Count(0) + Count(1)) % Modulus)
        BY <1>0, <2>1, CallCounted
      <3>2. Plus(Count(2)) \in Nat
        BY <1>0, <2>1, PlusType
      <3>3. /\ Count(0) + Count(1) + Plus(Count(2)) = Plus(Count(2)) + Count(0) + Count(1)
            /\ Count(0) + Count(1) + Count(2) = Count(2) + Count(0) + Count(1)
        BY <1>0, <2>1, <3>2
      <3>4. QED
        BY <1>0, <1>2, <2>2, <2>3, <2>6, <3>1, <3>3 DEF CallsConserved
    <2>7. QED
      BY <1>0, <2>4, <2>5, <2>6
  <1>10. ProbeInv'
    <2>1. \A j \in Slots : queue'[j].since => probe' # "none"
      BY <1>1, <1>2 DEF ProbeInv
    <2>2. probe # "none" => Marked(i)'
      BY <1>1 DEF Marked
    <2>3. pc \in {"check", "sending"} /\ queue[Held].since => Marked(i)'
      BY <1>7, <2>2 DEF ProbeInv
    <2>4. \A j \in Slots : j # i => (Marked(j)' <=> Marked(j))
      BY <1>1 DEF Marked
    <2>5. probe = "sent" /\ pc \in {"store", "check", "sending", "clear"} => Marked(Held)'
      BY <1>7, <2>2, <2>4 DEF ProbeInv
    <2>6. pc \in {"check", "sending"} => queue'[Held] = queue[Held]
      BY <1>1, <1>6, <1>7
    <2>7. probe' = "sent" => probe = "sent"
      BY <1>2
    <2>8. Marked(word.last)' <=> Marked(i)'
      BY <1>3 DEF Marked
    <2>9. QED
      BY <1>2, <1>7, <2>1, <2>2, <2>3, <2>5, <2>6, <2>7, <2>8 DEF ProbeInv, Marked
  <1>11. QED
    BY <1>4, <1>5, <1>8, <1>9, <1>10

\* A step of either side keeps the invariant.
LEMMA InvStep ==
  ASSUME IInv, [Next]_vars
  PROVE  IInv'
  <1> USE DEF IInv
  <1>0. Slots = {0, 1, 2} /\ Modulus \in Nat \ {0, 1} /\ Mishaps \in Nat
    BY NotificationAssumption DEF Slots, DATA_BUFFER_LENGTH
  <1>1. ASSUME \/ sendLineSensorCommand
               \/ \E enable \in BOOLEAN : p2pStmAppNotification(enable)
               \/ UTIL_SEQ_Run
               \/ UNCHANGED vars
        PROVE  IInv'
    <2>1. /\ UNCHANGED <<word, queue, loaded, out, probe, owed, mishaps>>
          /\ pc' = pc \/ (pc = "idle" /\ pc' \in {"idle", "load"})
      BY <1>1 DEF sendLineSensorCommand, p2pStmAppNotification, UTIL_SEQ_Run, vars, device
    <2>2. {ready, status, active, transfer}' \subseteq BOOLEAN
      BY <1>1 DEF sendLineSensorCommand, p2pStmAppNotification, UTIL_SEQ_Run, vars, device, TypeOK
    <2>3. TypeOK' /\ SlotInv'
      BY <2>1, <2>2 DEF TypeOK, SlotInv
    <2>4. HeldInv' /\ HeldEntryUntouched' /\ ProbeInv'
      BY <2>1 DEF HeldInv, HeldEntryUntouched, ProbeInv, Marked
    <2>5. CallsConserved'
      BY <2>1 DEF CallsConserved, Count
    <2>6. QED
      BY <2>3, <2>4, <2>5
  <1>2. ASSUME PublishValues \/ TransferEnd("failure", FALSE)
        PROVE  IInv'
    BY <1>2, TransferEndInv DEF PublishValues
  <1>3. ASSUME LoadIndexes
        PROVE  IInv'
    <2>1. /\ pc = "load" /\ pc' = "store" /\ loaded' = word
          /\ UNCHANGED <<word, queue, ready, status, active, transfer, out, probe, owed, mishaps>>
      BY <1>3 DEF LoadIndexes
    <2>2. TypeOK' /\ SlotInv'
      BY <2>1 DEF TypeOK, SlotInv
    <2>3. HeldInv' /\ HeldEntryUntouched' /\ ProbeInv'
      BY <2>1 DEF HeldInv, HeldEntryUntouched, ProbeInv, Marked
    <2>4. CallsConserved'
      BY <2>1 DEF CallsConserved, Count
    <2>5. QED
      BY <2>2, <2>3, <2>4
  <1>4. ASSUME StoreIndexes
        PROVE  IInv'
    <2>1. /\ pc = "store" /\ pc' = "check"
          /\ UNCHANGED <<queue, ready, status, active, transfer, loaded, out, probe, owed, mishaps>>
      BY <1>4 DEF StoreIndexes
    <2>2. word' \in Indexes /\ word'.last = loaded.last /\ word'.consumer = loaded.last
      BY <1>4, WordType DEF StoreIndexes, TypeOK, SlotInv
    <2>3. TypeOK' /\ SlotInv' /\ HeldInv' /\ HeldEntryUntouched'
      BY <2>1, <2>2 DEF TypeOK, SlotInv, HeldInv, HeldEntryUntouched
    <2>4. ProbeInv'
      BY <2>1, <2>2 DEF ProbeInv, Marked
    <2>5. CallsConserved'
      BY <2>1 DEF CallsConserved, Count
    <2>6. QED
      BY <2>3, <2>4, <2>5
  <1>5. ASSUME Update
        PROVE  IInv'
    <2>1. /\ pc = "check"
          /\ UNCHANGED <<word, queue, ready, status, active, transfer, loaded, probe, owed, mishaps>>
          /\ \/ pc' = "sending" /\ out' = queue[Held]
             \/ pc' = "idle" /\ UNCHANGED out
      BY <1>5 DEF Update
    <2>2. Held \in Slots /\ out' \in Entries
      BY <2>1 DEF SlotInv, TypeOK
    <2>3. TypeOK' /\ SlotInv' /\ HeldInv' /\ HeldEntryUntouched'
      BY <2>1, <2>2 DEF TypeOK, SlotInv, HeldInv, HeldEntryUntouched
    <2>4. ProbeInv'
      BY <2>1 DEF ProbeInv, Marked
    <2>5. CallsConserved'
      BY <2>1 DEF CallsConserved, Count
    <2>6. QED
      BY <2>3, <2>4, <2>5
  <1>6. ASSUME Updated
        PROVE  IInv'
    <2>1. /\ pc = "sending" /\ pc' = "clear" /\ queue[Held] = out
          /\ owed' = (owed + Modulus - out.calls) % Modulus
          /\ UNCHANGED <<word, queue, ready, status, active, transfer, loaded, out>>
          /\ probe' = probe \/ (probe = "waiting" /\ out.since /\ probe' = "sent")
          /\ mishaps' \in 0 .. Mishaps
      BY <1>0, <1>6 DEF Updated, HeldEntryUntouched, TypeOK
    <2>2. Held \in Slots /\ out.calls \in 0 .. Modulus - 1
      BY <2>1 DEF SlotInv, TypeOK, Entries
    <2>3. owed + Modulus - out.calls \in Nat
      BY <1>0, <2>2 DEF TypeOK
    <2>4. TypeOK' /\ SlotInv' /\ HeldInv' /\ HeldEntryUntouched'
      BY <1>0, <2>1, <2>3 DEF TypeOK, SlotInv, HeldInv, HeldEntryUntouched
    <2>5. ProbeInv'
      BY <2>1 DEF ProbeInv, Marked
    <2>6. CallsConserved'
      <3>1. \A j \in Slots : Count(j) \in 0 .. Modulus - 1
        BY CountType
      <3>2. Count(Held)' = 0 /\ Count(Held) = out.calls
        BY <2>1 DEF Count
      <3>3. \A j \in Slots : j # Held => Count(j)' = Count(j)
        BY <2>1 DEF Count
      <3>4. CASE Held = 0
        <4>1. (Count(1) + Count(2)) % Modulus
                = (((Count(0) + Count(1) + Count(2)) % Modulus) + Modulus - Count(0)) % Modulus
          BY <1>0, <3>1, CallsHandedOver
        <4>2. 0 + Count(1) + Count(2) = Count(1) + Count(2)
          BY <1>0, <3>1
        <4>3. QED
          BY <1>0, <2>1, <3>2, <3>3, <3>4, <4>1, <4>2 DEF CallsConserved
      <3>5. CASE Held = 1
        <4>1. (Count(0) + Count(2)) % Modulus
                = (((Count(1) + Count(0) + Count(2)) % Modulus) + Modulus - Count(1)) % Modulus
          BY <1>0, <3>1, CallsHandedOver
        <4>2. /\ Count(0) + 0 + Count(2) = Count(0) + Count(2)
              /\ Count(0) + Count(1) + Count(2) = Count(1) + Count(0) + Count(2)
          BY <1>0, <3>1
        <4>3. QED
          BY <1>0, <2>1, <3>2, <3>3, <3>5, <4>1, <4>2 DEF CallsConserved
      <3>6. CASE Held = 2
        <4>1. (Count(0) + Count(1)) % Modulus
                = (((Count(2) + Count(0) + Count(1)) % Modulus) + Modulus - Count(2)) % Modulus
          BY <1>0, <3>1, CallsHandedOver
        <4>2. /\ Count(0) + Count(1) + 0 = Count(0) + Count(1)
              /\ Count(0) + Count(1) + Count(2) = Count(2) + Count(0) + Count(1)
          BY <1>0, <3>1
        <4>3. QED
          BY <1>0, <2>1, <3>2, <3>3, <3>6, <4>1, <4>2 DEF CallsConserved
      <3>7. QED
        BY <1>0, <2>2, <3>4, <3>5, <3>6
    <2>7. QED
      BY <2>4, <2>5, <2>6
  <1>7. ASSUME Clear
        PROVE  IInv'
    <2>1. /\ pc = "clear" /\ pc' = "idle" /\ out' = Zeroed
          /\ queue' = [queue EXCEPT ![Held] = Zeroed]
          /\ UNCHANGED <<word, ready, status, active, transfer, loaded, probe, owed, mishaps>>
      BY <1>7 DEF Clear
    <2>2. Held \in Slots /\ Zeroed \in Entries
      BY <1>0 DEF SlotInv, Zeroed, Entries
    <2>3. queue'[Held] = Zeroed /\ \A j \in Slots : j # Held => queue'[j] = queue[j]
      BY <2>1, <2>2 DEF TypeOK
    <2>4. TypeOK' /\ SlotInv' /\ HeldInv' /\ HeldEntryUntouched'
      BY <2>1, <2>2 DEF TypeOK, SlotInv, HeldInv, HeldEntryUntouched
    <2>5. ProbeInv'
      BY <2>1, <2>2, <2>3 DEF ProbeInv, Marked, Zeroed, SlotInv
    <2>6. CallsConserved'
      <3>1. \A j \in Slots : Count(j)' = Count(j)
        BY <2>1, <2>2, <2>3 DEF Count, Zeroed
      <3>2. QED
        BY <1>0, <2>1, <3>1 DEF CallsConserved
    <2>7. QED
      BY <2>4, <2>5, <2>6
  <1>8. QED
    BY <1>1, <1>2, <1>3, <1>4, <1>5, <1>6, <1>7 DEF Next, p2pSendNotification

\* The invariant holds for any counter's width, any interleaving.
THEOREM Invariant == Spec => []IInv
  <1>1. IInv /\ [Next]_vars => IInv'
    BY InvStep
  <1>2. QED
    BY InitInv, <1>1, PTL DEF Spec

\* Every variable keeps its type.
THEOREM TypeCorrect == Spec => []TypeOK
  <1>1. IInv => TypeOK
    BY DEF IInv
  <1>2. QED
    BY Invariant, <1>1, PTL

\* While an entry is sent and zeroed the producer never writes it, though the consumer
\* stores the word without looking at what was published since its load.
THEOREM HeldEntrySafe == Spec => []HeldEntryUntouched
  <1>1. IInv => HeldEntryUntouched
    BY DEF IInv
  <1>2. QED
    BY Invariant, <1>1, PTL

\* No call is counted twice or lost, even in entries whose publication was undone,
\* modulo the width of the counters.
THEOREM CallsAreConserved == Spec => []CallsConserved
  <1>1. IInv => CallsConserved
    BY DEF IInv
  <1>2. QED
    BY Invariant, <1>1, PTL

\* Notifications of values do not go back behind values that have been sent.
THEOREM OlderValuesNeverSent == Spec => NoOlderValues
  <1>1. IInv /\ [Next]_vars =>
          [Updated /\ probe = "sent" /\ out.kind = "values" => out.since]_vars
    BY DEF IInv, ProbeInv, Marked, HeldEntryUntouched, Updated
  <1>2. QED
    BY Invariant, <1>1, PTL DEF Spec, NoOlderValues
=============================================================================
