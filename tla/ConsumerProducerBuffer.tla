------------------------ MODULE ConsumerProducerBuffer ------------------------
(***************************************************************************)
(* The operations of consumer_producer_buffer.h: three slots shared by one *)
(* producer and one consumer, coordinated by two slot numbers kept in one  *)
(* word, so that one atomic access reads or writes both.                   *)
(***************************************************************************)
EXTENDS Naturals

DATA_BUFFER_LENGTH == 3

Slots == 0 .. DATA_BUFFER_LENGTH - 1

\* A slot number, or DATA_BUFFER_LENGTH for none.
SlotIndexes == 0 .. DATA_BUFFER_LENGTH

\* The word: the slot last filled and the slot the consumer holds.
Indexes == [last : SlotIndexes, consumer : SlotIndexes]

DATA_BUFFER_EMPTY_INDEXES ==
  [last |-> DATA_BUFFER_LENGTH, consumer |-> DATA_BUFFER_LENGTH]

FirstOf(free) ==
  IF free = {} THEN DATA_BUFFER_LENGTH
  ELSE CHOOSE i \in free : \A j \in free : i <= j

\* Deviation: the slot held by the consumer is not avoided.
ProducerIndexBesideLast(word) == FirstOf(Slots \ {word.last})

\* The first slot that is neither the one just filled nor the one held.
getProducerIndex(word) == FirstOf(Slots \ {word.last, word.consumer})

\* The word installed by setLastReadIndex, and by moveConsumerIndexToLastReadIndex.
SetLastRead(word, index) == [word EXCEPT !.last = index]
MoveConsumer(word) == [word EXCEPT !.consumer = word.last]
=============================================================================
