---------------------- MODULE SensorValueBuffers_proofs ----------------------
(***************************************************************************)
(* Proofs about SensorValueBuffers: its invariant, and that it implements  *)
(* the register of LatestValue, for values of any number of words and any  *)
(* number of measurements.                                                 *)
(***************************************************************************)
EXTENDS SensorValueBuffers, ConsumerProducerBuffer_proofs, TLAPS

\* The data at a slot number have naturals for their words.
LEMMA DataType ==
  ASSUME TypeOK, NEW i
  PROVE  Data(i) \in [Words -> Nat]
  BY DEF TypeOK, Data

-----------------------------------------------------------------------------
(* The inductive invariant.                                                 *)

\* A step of either side keeps the invariant: in particular a slot chosen by the
\* producer stays free, whatever is taken before it is published.
LEMMA InvStep ==
  ASSUME IInv, [Next]_vars
  PROVE  IInv'
  <1> USE DEF IInv
  <1>0. Slots = {0, 1, 2} /\ SlotIndexes = {0, 1, 2, 3} /\ DATA_BUFFER_LENGTH = 3
    BY DEF Slots, SlotIndexes, DATA_BUFFER_LENGTH
  <1>1. ASSUME ChooseSlot
        PROVE  IInv'
    <2>1. index' \in Slots /\ index' # indexes.last /\ index' # indexes.consumer
      BY <1>1, FreeSlot DEF ChooseSlot, TypeOK
    <2>2. indexes' = indexes /\ pc' = "copy" /\ unwritten' = Words
          /\ measured' = measured + 1
          /\ UNCHANGED <<values, fresh, old, sending, reported>>
      BY <1>0, <1>1, <2>1 DEF ChooseSlot
    <2>3. TypeOK'
      BY <1>0, <2>1, <2>2 DEF TypeOK
    <2>4. FillingInv'
      BY <2>1, <2>2 DEF FillingInv
    <2>5. OrderInv'
      <3>1. Latest' = Latest /\ Taken' = Taken
        BY <2>2 DEF Latest, Taken, Data
      <3>2. Latest \in [Words -> Nat]
        BY DataType DEF Latest
      <3>3. \A w \in Words : Latest[w] <= measured /\ Latest[w] < measured + 1
        BY <3>2 DEF OrderInv, TypeOK
      <3>4. QED
        BY <2>2, <3>1, <3>2, <3>3 DEF OrderInv, TypeOK
    <2>6. FreshInv'
      BY <2>2 DEF FreshInv, Taken, Data
    <2>7. QED
      BY <2>3, <2>4, <2>5, <2>6
  <1>2. ASSUME NEW v \in Words, CopyWord(v)
        PROVE  IInv'
    <2>1. index \in Slots /\ index # indexes.last /\ index # indexes.consumer /\ pc = "copy"
      BY <1>2 DEF CopyWord, FillingInv
    <2>2. /\ values' = [values EXCEPT ![index][v] = measured]
          /\ unwritten' = unwritten \ {v}
          /\ UNCHANGED <<indexes, fresh, measured, pc, index, old, sending, reported>>
      BY <1>2 DEF CopyWord
    <2>3. \A s \in Slots : s # index => values'[s] = values[s]
      BY <2>1, <2>2 DEF TypeOK
    <2>4. \A w \in Words : values'[index][w] = IF w = v THEN measured ELSE values[index][w]
      BY <2>1, <2>2 DEF TypeOK
    <2>5. TypeOK'
      BY <2>1, <2>2 DEF TypeOK
    <2>6. FillingInv'
      BY <2>1, <2>2, <2>4 DEF FillingInv
    <2>7. Latest' = Latest /\ Taken' = Taken
      BY <2>1, <2>2, <2>3 DEF Latest, Taken, Data
    <2>8. OrderInv' /\ FreshInv'
      BY <2>2, <2>7 DEF OrderInv, FreshInv
    <2>9. QED
      BY <2>5, <2>6, <2>8
  <1>3. ASSUME SetStatus
        PROVE  IInv'
    <2>1. index \in Slots /\ index # indexes.consumer
      BY <1>3 DEF SetStatus, FillingInv
    <2>2. TypeOK'
      BY <1>3, <2>1 DEF SetStatus, TypeOK
    <2>3. FillingInv'
      BY <1>3 DEF SetStatus, FillingInv
    <2>4. Latest' = Latest /\ Taken' = Taken
      BY <1>3 DEF SetStatus, Latest, Taken, Data
    <2>5. OrderInv'
      BY <1>3, <2>4 DEF SetStatus, OrderInv
    <2>6. indexes.consumer \in Slots => fresh'[indexes.consumer] = fresh[indexes.consumer]
      BY <1>3, <2>1 DEF SetStatus, TypeOK
    <2>7. FreshInv'
      BY <1>3, <2>4, <2>6 DEF SetStatus, FreshInv
    <2>8. QED
      BY <2>2, <2>3, <2>5, <2>7
  <1>4. ASSUME LoadIndexes
        PROVE  IInv'
    <2>1. TypeOK'
      BY <1>4 DEF LoadIndexes, TypeOK
    <2>2. FillingInv'
      BY <1>4 DEF LoadIndexes, FillingInv
    <2>3. Latest' = Latest /\ Taken' = Taken
      BY <1>4 DEF LoadIndexes, Latest, Taken, Data
    <2>4. OrderInv' /\ FreshInv'
      BY <1>4, <2>3 DEF LoadIndexes, OrderInv, FreshInv
    <2>5. QED
      BY <2>1, <2>2, <2>4
  <1>5. ASSUME SwapIndexes
        PROVE  IInv'
    <2>1. /\ pc = "swap" /\ index \in Slots /\ unwritten = {}
          /\ index # indexes.last /\ index # indexes.consumer
          /\ UNCHANGED <<values, fresh, measured, index, unwritten, old, sending, reported>>
      BY <1>5 DEF SwapIndexes, FillingInv
    <2>2. CASE indexes' = SetLastRead(indexes, index) /\ pc' = "idle"
      <3>1. indexes' = [last |-> index, consumer |-> indexes.consumer] /\ indexes' \in Indexes
        BY <2>1, <2>2, WordType DEF TypeOK
      <3>2. TypeOK'
        BY <2>1, <2>2, <3>1 DEF TypeOK
      <3>3. FillingInv'
        BY <2>2 DEF FillingInv
      <3>4. Taken' = Taken
        BY <2>1, <3>1 DEF Taken, Data
      <3>5. \A w \in Words : Latest'[w] = measured
        BY <2>1, <3>1 DEF Latest, Data, FillingInv
      <3>6. \A w \in Words : Taken[w] < measured
        <4>1. Taken \in [Words -> Nat] /\ Latest \in [Words -> Nat]
          BY DataType DEF Taken, Latest
        <4>2. indexes.consumer = indexes.last => Taken = Latest
          BY DEF Taken, Latest
        <4>3. QED
          BY <2>1, <4>1, <4>2 DEF OrderInv, TypeOK
      <3>7. OrderInv'
        BY <1>0, <2>1, <2>2, <3>1, <3>4, <3>5, <3>6 DEF OrderInv, TypeOK
      <3>8. FreshInv'
        BY <2>1, <3>1, <3>4 DEF FreshInv
      <3>9. QED
        BY <3>2, <3>3, <3>7, <3>8
    <2>3. CASE UNCHANGED indexes /\ pc' = "load"
      <3>1. TypeOK' /\ FillingInv'
        BY <2>1, <2>3 DEF TypeOK, FillingInv
      <3>2. Latest' = Latest /\ Taken' = Taken
        BY <2>1, <2>3 DEF Latest, Taken, Data
      <3>3. OrderInv' /\ FreshInv'
        BY <2>1, <2>3, <3>2 DEF OrderInv, FreshInv
      <3>4. QED
        BY <3>1, <3>3
    <2>4. QED
      BY <1>5, <2>2, <2>3 DEF SwapIndexes
  <1>6. ASSUME StartResponse
        PROVE  IInv'
    <2>1. /\ indexes' = [last |-> indexes.last, consumer |-> indexes.last]
          /\ indexes' \in Indexes
      BY <1>0, <1>6, WordType DEF StartResponse, TypeOK
    <2>2. TypeOK'
      BY <1>6, <2>1 DEF StartResponse, TypeOK, producer
    <2>3. FillingInv'
      BY <1>6, <2>1 DEF StartResponse, FillingInv, producer
    <2>4. Latest' = Latest /\ Taken' = Latest
      BY <1>6, <2>1 DEF StartResponse, Latest, Taken, Data
    <2>5. OrderInv'
      BY <1>6, <2>1, <2>4 DEF StartResponse, OrderInv, producer
    <2>6. CASE indexes.consumer = indexes.last
      <3>1. Taken' = Taken
        BY <2>4, <2>6 DEF Latest, Taken
      <3>2. QED
        BY <1>6, <2>1, <2>2, <2>3, <2>5, <2>6, <3>1 DEF StartResponse, FreshInv
    <2>7. CASE indexes.consumer # indexes.last
      <3>1. Taken \in [Words -> Nat] /\ Latest \in [Words -> Nat]
        BY DataType DEF Taken, Latest
      <3>2. \A w \in Words : reported[w] < Latest[w]
        BY <2>7, <3>1 DEF FreshInv, OrderInv, TypeOK
      <3>3. FreshInv'
        BY <1>6, <2>4, <3>1, <3>2 DEF StartResponse, FreshInv, TypeOK
      <3>4. QED
        BY <2>2, <2>3, <2>5, <3>3
    <2>8. QED
      BY <2>6, <2>7
  <1>7. ASSUME EndResponse
        PROVE  IInv'
    <2>1. UNCHANGED <<indexes, values, producer>> /\ sending' = FALSE
      BY <1>7 DEF EndResponse
    <2>2. Latest' = Latest /\ Taken' = Taken
      BY <2>1 DEF Latest, Taken, Data
    <2>3. FillingInv' /\ OrderInv'
      BY <2>1, <2>2 DEF FillingInv, OrderInv, producer
    <2>4. CASE indexes.consumer = DATA_BUFFER_LENGTH
      <3>1. UNCHANGED <<fresh, reported>>
        BY <1>7, <2>4 DEF EndResponse
      <3>2. TypeOK' /\ FreshInv'
        BY <2>1, <2>2, <3>1 DEF TypeOK, FreshInv, producer
      <3>3. QED
        BY <2>3, <3>2
    <2>5. CASE indexes.consumer # DATA_BUFFER_LENGTH
      <3>1. indexes.consumer \in Slots
        BY <1>0, <2>5 DEF TypeOK, Indexes
      <3>2. /\ fresh' = [fresh EXCEPT ![indexes.consumer] = FALSE]
            /\ reported' = IF fresh[indexes.consumer] THEN Taken ELSE reported
        BY <1>7, <2>5, <3>1 DEF EndResponse, Taken, Data
      <3>3. Taken \in [Words -> Nat]
        BY DataType DEF Taken
      <3>4. TypeOK'
        BY <2>1, <3>1, <3>2, <3>3 DEF TypeOK, producer
      <3>5. fresh'[indexes.consumer] = FALSE
        BY <3>1, <3>2 DEF TypeOK
      <3>6. FreshInv'
        BY <2>1, <2>2, <3>2, <3>3, <3>5 DEF FreshInv
      <3>7. QED
        BY <2>3, <3>4, <3>6
    <2>6. QED
      BY <2>4, <2>5
  <1>8. ASSUME AbandonResponse \/ UNCHANGED vars
        PROVE  IInv'
    <2>1. /\ UNCHANGED <<indexes, values, fresh, producer, reported>>
          /\ sending' \in BOOLEAN
      BY <1>8 DEF AbandonResponse, vars, TypeOK
    <2>2. Latest' = Latest /\ Taken' = Taken
      BY <2>1 DEF Latest, Taken, Data
    <2>3. TypeOK' /\ FillingInv' /\ OrderInv' /\ FreshInv'
      BY <2>1, <2>2 DEF TypeOK, FillingInv, OrderInv, FreshInv, producer
    <2>4. QED
      BY <2>3
  <1>9. QED
    BY <1>1, <1>2, <1>3, <1>4, <1>5, <1>6, <1>7, <1>8 DEF Next, Producer, Consumer

\* The empty buffers satisfy the invariant.
LEMMA InitInv == Init => IInv
  <1> SUFFICES ASSUME Init PROVE IInv
    OBVIOUS
  <1>1. DATA_BUFFER_EMPTY_INDEXES \in Indexes /\ 0 \in SlotIndexes
    BY DEF Indexes, SlotIndexes, DATA_BUFFER_LENGTH, DATA_BUFFER_EMPTY_INDEXES
  <1>2. TypeOK
    BY <1>1 DEF Init, TypeOK
  <1>3. Latest = [w \in Words |-> 0] /\ Taken = [w \in Words |-> 0]
    BY DEF Init, Latest, Taken, Data, DATA_BUFFER_EMPTY_INDEXES, DATA_BUFFER_LENGTH, Slots
  <1>4. indexes.consumer = indexes.last /\ indexes.consumer \notin Slots
    BY DEF Init, DATA_BUFFER_EMPTY_INDEXES, DATA_BUFFER_LENGTH, Slots
  <1>5. FillingInv /\ OrderInv /\ FreshInv
    BY <1>3, <1>4 DEF Init, FillingInv, OrderInv, FreshInv
  <1>6. QED
    BY <1>2, <1>5 DEF IInv

\* The slot being filled is nobody else's, measurements keep their order and the mark
\* of new data is spent once.
THEOREM Invariant == Spec => []IInv
  <1>1. IInv /\ [Next]_vars => IInv'
    BY InvStep
  <1>2. QED
    BY InitInv, <1>1, PTL DEF Spec

\* A response whose data are marked as new carries newer data than every one before
\* it that was marked so and was sent in full.
THEOREM NewDataAreNewer == Spec => []NewIsNewer
  <1>1. IInv => NewIsNewer
    BY DEF IInv, FreshInv, NewIsNewer
  <1>2. QED
    BY Invariant, <1>1, PTL

-----------------------------------------------------------------------------
(* The buffers implement a register.                                        *)

\* Publishing is the successful swap, taking the start of a response; every other
\* step leaves the published and the taken value alone, word for word.
LEMMA RegisterStep ==
  ASSUME IInv, [Next]_vars
  PROVE  [Register!Next]_(Register!values)
  <1> SUFFICES \/ Latest' = Latest /\ Taken' = Taken
               \/ Register!Publish
               \/ Register!Take
    BY DEF Register!Next, Register!values
  <1> USE DEF IInv
  <1>0. Slots = {0, 1, 2} /\ SlotIndexes = {0, 1, 2, 3} /\ DATA_BUFFER_LENGTH = 3
    BY DEF Slots, SlotIndexes, DATA_BUFFER_LENGTH
  <1>1. ASSUME ChooseSlot
        PROVE  Latest' = Latest /\ Taken' = Taken
    <2>1. index' \in Slots
      BY <1>1, FreeSlot DEF ChooseSlot, TypeOK
    <2>2. UNCHANGED <<indexes, values>>
      BY <1>0, <1>1, <2>1 DEF ChooseSlot
    <2>3. QED
      BY <2>2 DEF Latest, Taken, Data
  <1>2. ASSUME NEW v \in Words, CopyWord(v)
        PROVE  Latest' = Latest /\ Taken' = Taken
    <2>1. index \in Slots /\ index # indexes.last /\ index # indexes.consumer
      BY <1>2 DEF CopyWord, FillingInv
    <2>2. \A s \in Slots : s # index => values'[s] = values[s]
      BY <1>2, <2>1 DEF CopyWord, TypeOK
    <2>3. QED
      BY <1>2, <2>1, <2>2 DEF CopyWord, Latest, Taken, Data
  <1>3. ASSUME SwapIndexes
        PROVE  \/ Latest' = Latest /\ Taken' = Taken
               \/ Register!Publish
    <2>1. CASE UNCHANGED indexes
      BY <1>3, <2>1 DEF SwapIndexes, Latest, Taken, Data
    <2>2. CASE indexes' = SetLastRead(indexes, index)
      <3>1. /\ pc = "swap" /\ index \in Slots /\ unwritten = {} /\ UNCHANGED values
            /\ index # indexes.consumer
        BY <1>3 DEF SwapIndexes, FillingInv
      <3>2. indexes' = [last |-> index, consumer |-> indexes.consumer]
        BY <2>2, <3>1, WordType DEF TypeOK
      <3>3. Taken' = Taken
        BY <3>1, <3>2 DEF Taken, Data
      <3>4. Latest' = values[index]
        BY <3>1, <3>2 DEF Latest, Data
      <3>5. \A w \in Words : Latest'[w] = measured /\ Latest[w] < measured
        BY <3>1, <3>4 DEF FillingInv, OrderInv
      <3>6. Latest' \in [Words -> Nat]
        BY <3>1, <3>4 DEF TypeOK
      <3>7. QED
        BY <3>3, <3>5, <3>6 DEF Register!Publish
    <2>3. QED
      BY <1>3, <2>1, <2>2 DEF SwapIndexes
  <1>4. ASSUME StartResponse
        PROVE  Register!Take
    <2>1. indexes' = [last |-> indexes.last, consumer |-> indexes.last]
      BY <1>0, <1>4, WordType DEF StartResponse, TypeOK
    <2>2. QED
      BY <1>4, <2>1 DEF StartResponse, Register!Take, Latest, Taken, Data
  <1>5. ASSUME SetStatus \/ LoadIndexes \/ EndResponse \/ AbandonResponse \/ UNCHANGED vars
        PROVE  Latest' = Latest /\ Taken' = Taken
    BY <1>5 DEF SetStatus, LoadIndexes, EndResponse, AbandonResponse, vars, Latest, Taken, Data
  <1>6. QED
    BY <1>1, <1>2, <1>3, <1>4, <1>5 DEF Next, Producer, Consumer

\* The producer's word-by-word copying and its retried swap, preempted anywhere by
\* the SPI interrupts, look to the reader like a register written at one instant.
THEOREM Refinement == Spec => RegisterImplemented
  <1>1. Init => Register!Init
    BY DEF Init, Register!Init, Register!NoValue, Latest, Taken, Data,
           DATA_BUFFER_EMPTY_INDEXES, DATA_BUFFER_LENGTH, Slots
  <1>2. IInv /\ [Next]_vars => [Register!Next]_(Register!values)
    BY RegisterStep
  <1>3. QED
    BY <1>1, <1>2, Invariant, PTL DEF Spec, RegisterImplemented, Register!Spec
=============================================================================
