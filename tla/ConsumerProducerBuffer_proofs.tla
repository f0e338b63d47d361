-------------------- MODULE ConsumerProducerBuffer_proofs --------------------
(***************************************************************************)
(* Facts about the operations of consumer_producer_buffer.h, used for both *)
(* of the buffers built with it.                                           *)
(***************************************************************************)
EXTENDS ConsumerProducerBuffer, TLAPS

\* The producer is given a slot, and it is neither of the two in use.
LEMMA FreeSlot ==
  ASSUME NEW word \in Indexes
  PROVE  /\ getProducerIndex(word) \in Slots
         /\ getProducerIndex(word) # word.last
         /\ getProducerIndex(word) # word.consumer
  <1> DEFINE free == Slots \ {word.last, word.consumer}
  <1>1. word.last \in 0 .. 3 /\ word.consumer \in 0 .. 3
    BY DEF Indexes, SlotIndexes, DATA_BUFFER_LENGTH
  <1>2. Slots = {0, 1, 2}
    BY DEF Slots, DATA_BUFFER_LENGTH
  <1>3. \E i \in free : \A j \in free : i <= j
    BY <1>1, <1>2
  <1>4. FirstOf(free) \in free
    <2>1. free # {}
      BY <1>3
    <2> HIDE DEF free
    <2>2. FirstOf(free) = CHOOSE i \in free : \A j \in free : i <= j
      BY <2>1 DEF FirstOf
    <2>3. QED
      BY <1>3, <2>2
  <1>5. QED
    BY <1>4 DEF getProducerIndex

\* The two ways to update the word keep it a word.
LEMMA WordType ==
  ASSUME NEW word \in Indexes, NEW i \in Slots
  PROVE  /\ SetLastRead(word, i) = [last |-> i, consumer |-> word.consumer]
         /\ MoveConsumer(word) = [last |-> word.last, consumer |-> word.last]
         /\ SetLastRead(word, i) \in Indexes
         /\ MoveConsumer(word) \in Indexes
         /\ DATA_BUFFER_EMPTY_INDEXES \in Indexes
  BY DEF Indexes, SetLastRead, MoveConsumer, SlotIndexes, Slots, DATA_BUFFER_LENGTH,
         DATA_BUFFER_EMPTY_INDEXES
=============================================================================
