------------------------- MODULE DataCollector_proofs -------------------------
(***************************************************************************)
(* Theorems about the collection of data, for tracks, steps, numbers of    *)
(* samples and tries of any size, and any number of faults, answers        *)
(* outstanding and straggling notifications.                               *)
(***************************************************************************)
EXTENDS DataCollector, SequenceTheorems, TLAPS

\* Every request has one answer at most; whoever asks waits for one more than may be late.
ExchangeInv == Len(wire) + Len(line) <= Late + (IF reader = "none" THEN 0 ELSE 1)

\* Until it is reset the controller knows where the carriage is; it stays on the track,
\* and short of where it is going.
MachineInv ==
  /\ at >= Start
  /\ state \in {"idle", "busy"} => x = at
  /\ state = "busy" => at <= to

\* The semaphore is released, and a wait ends well, once there are enough samples.
SampleInv ==
  ~cancelled /\ (released > 0 \/ pc \in {"stop", "stopped"}) => Len(samples) = NumberOfSamples

\* The last attempt is not counted further.
AttemptInv == ui # "none" => attempt \in 1 .. MaxAttempts

IInv == TypeOK /\ ExchangeInv /\ MachineInv /\ SampleInv /\ AttemptInv

USE DEF machine, radio, stopping, collector, reading

-----------------------------------------------------------------------------
(* Facts used throughout.                                                   *)

\* What is assumed of the constants, one by one.
LEMMA ConstantTypes ==
  /\ Start \in Nat \ {0} /\ Delta \in Nat \ {0} /\ NumberOfSamples \in Nat \ {0}
  /\ Retries \in Nat \ {0} /\ MaxAttempts \in Nat \ {0}
  /\ Late \in Nat /\ Faults \in Nat /\ Stragglers \in Nat /\ Length \in Nat
  /\ Track \in Nat /\ Start + Delta < Track
  BY CollectorAssumption

\* A queue that something is put into.
LEMMA Put ==
  ASSUME NEW S, NEW q \in Seq(S), NEW e \in S
  PROVE  Append(q, e) \in Seq(S) /\ Len(Append(q, e)) = Len(q) + 1
  BY AppendProperties

\* A queue that something is taken from.
LEMMA Taken ==
  ASSUME NEW S, NEW q \in Seq(S), q # <<>>
  PROVE  /\ Head(q) \in S /\ Tail(q) \in Seq(S)
         /\ Len(q) \in Nat \ {0} /\ Len(Tail(q)) = Len(q) - 1
  BY HeadTailProperties, EmptySeq

\* Length of a queue.
LEMMA Lengths ==
  ASSUME TypeOK
  PROVE  Len(wire) \in Nat /\ Len(line) \in Nat /\ Len(samples) \in Nat
  BY LenProperties DEF TypeOK, LineType, RadioType

\* Nothing goes wrong more often than it may.
LEMMA FaultCount ==
  ASSUME TypeOK, Fault \/ UNCHANGED faults
  PROVE  faults' \in 0 .. Faults
  BY ConstantTypes DEF Fault, TypeOK

\* The collection starts with a controller that is idle and nothing on the wires.
LEMMA InitInv == Init => IInv
  <1> SUFFICES ASSUME Init PROVE IInv
    OBVIOUS
  <1> USE DEF Init
  <1>1. /\ wire \in Seq(Requests) /\ line \in Seq(Answers) /\ air \in Seq(1 .. Blurred)
        /\ samples \in Seq(1 .. Blurred)
        /\ Len(wire) = 0 /\ Len(line) = 0 /\ Len(samples) = 0
    BY EmptySeq
  <1>2. Start \in 0 .. Track /\ 0 \in 0 .. Faults /\ 0 \in 0 .. MaxAttempts
    BY ConstantTypes
  <1>3. MachineType /\ UserType /\ faults \in 0 .. Faults
    BY <1>2 DEF MachineType, States, UserType
  <1>8. response \in Answers /\ missed \in 0 .. 2
    BY <1>2 DEF Answers, States
  <1>9. LineType
    <2>1. reader \in {"none", "collector", "user"} /\ shifted \in BOOLEAN
      OBVIOUS
    <2>2. Len(wire) + Len(line) <= Late + 1
      BY <1>1, ConstantTypes
    <2> HIDE DEF Init
    <2>3. QED
      BY <1>1, <1>8, <2>1, <2>2 DEF LineType
  <1>4. CollectorType /\ RadioType
    BY <1>1, ConstantTypes DEF CollectorType, RadioType
  <1>5. FilesType
    BY DEF FilesType
  <1>6. ExchangeInv /\ MachineInv /\ SampleInv /\ AttemptInv
    BY <1>1, ConstantTypes DEF ExchangeInv, MachineInv, SampleInv, AttemptInv
  <1>7. QED
    BY <1>3, <1>4, <1>9, <1>5, <1>6 DEF IInv, TypeOK

-----------------------------------------------------------------------------
(* The position controller.                                                 *)

\* An answer may be put on the line.
LEMMA AnswerType ==
  ASSUME TypeOK, NEW s \in States, NEW ok \in BOOLEAN, Answer(s, ok)
  PROVE  line' \in Seq(Answers) /\ Len(line') = Len(line) + 1
  <1>1. [state |-> s, at |-> x, ok |-> ok /\ ~error] \in Answers
    BY DEF TypeOK, MachineType, Answers
  <1>2. QED
    BY <1>1, Put DEF Answer, TypeOK, LineType

\* What a request does to the controller, and its answer.
LEMMA ObeyInv ==
  ASSUME TypeOK, MachineInv, NEW request \in Requests, Obey(request)
  PROVE  /\ MachineType' /\ MachineInv'
         /\ line' \in Seq(Answers)
         /\ Len(line') = Len(line) \/ Len(line') = Len(line) + 1
  <1> USE DEF TypeOK
  <1>0. state \in States /\ "busy" \in States /\ "stopped" \in States /\ "reset" \in States
    BY DEF MachineType, States
  <1>1. CASE request = "get"
    <2>1. UNCHANGED machine /\ Answer(state, TRUE)
      BY <1>1 DEF Obey
    <2>2. QED
      BY <1>0, <2>1, AnswerType DEF MachineType, MachineInv
  <1>2. CASE request = "move"
    <2>1. /\ UNCHANGED <<at, x, error>>
          /\ \/ /\ state = "idle" /\ x + Delta < Track /\ state' = "busy" /\ to' = at + Delta
                /\ Answer("busy", TRUE)
             \/ UNCHANGED <<state, to>> /\ Answer(state, FALSE)
      BY <1>2 DEF Obey
    <2>2. line' \in Seq(Answers) /\ Len(line') = Len(line) + 1
      BY <1>0, <2>1, AnswerType
    <2>3. state = "idle" /\ x + Delta < Track => x = at /\ at + Delta \in 0 .. Track /\ at <= at + Delta
      BY ConstantTypes DEF MachineType, MachineInv
    <2>4. MachineType' /\ MachineInv'
      BY <1>0, <2>1, <2>3 DEF MachineType, MachineInv
    <2>5. QED
      BY <2>2, <2>4
  <1>3. CASE request = "stop"
    <2>1. state' = "stopped" /\ Answer("stopped", TRUE) /\ UNCHANGED <<at, x, to, error>>
      BY <1>3 DEF Obey
    <2>2. QED
      BY <1>0, <2>1, AnswerType DEF MachineType, MachineInv
  <1>4. CASE request = "reset"
    <2>1. state' = "reset" /\ x' = 0 /\ error' = FALSE /\ UNCHANGED <<at, to, line>>
      BY <1>4 DEF Obey
    <2>2. 0 \in 0 .. Track
      BY ConstantTypes
    <2>3. MachineType' /\ MachineInv'
      BY <1>0, <2>1, <2>2 DEF MachineType, MachineInv
    <2>4. QED
      BY <2>1, <2>3 DEF LineType
  <1>5. QED
    BY <1>1, <1>2, <1>3, <1>4 DEF Requests

\* Serving a request keeps the invariant.
LEMMA ServeInv ==
  ASSUME IInv, Serve
  PROVE  IInv'
  <1> USE DEF IInv
  <1>1. /\ wire # <<>> /\ wire' = Tail(wire)
        /\ UNCHANGED <<reader, reading, pc, start, current, tries, notifying, air, stragglers,
                       samples, released, files, ui, attempt, cancelled>>
        /\ \/ Obey(Head(wire)) /\ UNCHANGED faults
           \/ /\ Fault /\ UNCHANGED <<state, at, x, to, error>>
              /\ Answer(state, FALSE) \/ UNCHANGED line
    BY DEF Serve
  <1>2. Head(wire) \in Requests /\ wire' \in Seq(Requests) /\ Len(wire') = Len(wire) - 1
    BY <1>1, Taken DEF TypeOK, LineType
  <1>3. /\ MachineType' /\ MachineInv' /\ line' \in Seq(Answers)
        /\ Len(line') = Len(line) \/ Len(line') = Len(line) + 1
    <2>1. CASE Obey(Head(wire))
      BY <1>2, <2>1, ObeyInv
    <2>2. CASE UNCHANGED <<state, at, x, to, error>> /\ (Answer(state, FALSE) \/ UNCHANGED line)
      <3>1. MachineType' /\ MachineInv'
        BY <2>2 DEF TypeOK, MachineType, MachineInv
      <3>2. state \in States
        BY DEF TypeOK, MachineType
      <3>3. QED
        BY <2>2, <3>1, <3>2, AnswerType DEF TypeOK, LineType
    <2>3. QED
      BY <1>1, <2>1, <2>2
  <1>4. Len(wire') + Len(line') <= Len(wire) + Len(line)
    BY <1>2, <1>3, Lengths
  <1>5. LineType' /\ ExchangeInv'
    <2>1. Len(wire') \in Nat /\ Len(line') \in Nat
      BY <1>2, <1>3, LenProperties
    <2>2. QED
      BY <1>1, <1>2, <1>3, <1>4, <2>1, Lengths, ConstantTypes DEF TypeOK, LineType, ExchangeInv
  <1>6. faults' \in 0 .. Faults
    BY <1>1, FaultCount
  <1>7. CollectorType' /\ RadioType' /\ FilesType' /\ UserType'
    BY <1>1 DEF TypeOK, CollectorType, RadioType, FilesType, UserType
  <1>8. SampleInv' /\ AttemptInv'
    BY <1>1 DEF SampleInv, AttemptInv
  <1>9. QED
    BY <1>3, <1>5, <1>6, <1>7, <1>8 DEF TypeOK

\* A movement and its end, and the controller's own button, keep the invariant.
LEMMA TravelInv ==
  ASSUME IInv, Travel \/ Button
  PROVE  IInv'
  <1> USE DEF IInv
  <1>1. UNCHANGED <<to, wire, line, reader, reading, pc, start, current, tries, notifying, air,
                    stragglers, samples, released, files, ui, attempt, cancelled>>
    BY DEF Travel, Button
  <1>2. \/ state = "busy" /\ at # to /\ at' = at + 1 /\ x' = x + 1 /\ UNCHANGED <<state, error>>
        \/ state = "busy" /\ state' = "idle" /\ UNCHANGED <<at, x>> /\ error' \in {error, TRUE}
        \/ state' = "stopped" /\ UNCHANGED <<at, x, error>>
    BY DEF Travel, Button
  <1>3. faults' \in 0 .. Faults
    BY FaultCount DEF Travel, Button
  <1>0. Start \in Nat /\ Track \in Nat
    BY ConstantTypes
  <1>4. /\ at >= Start /\ at + 1 >= Start
        /\ state = "busy" /\ at # to => x = at /\ at + 1 \in 0 .. Track /\ at + 1 <= to
    BY <1>0 DEF TypeOK, MachineType, MachineInv
  <1>5. MachineType'
    BY <1>1, <1>2, <1>4 DEF TypeOK, MachineType, States
  <1>6. MachineInv'
    <2>1. at' >= Start
      BY <1>2, <1>4
    <2>2. state' \in {"idle", "busy"} => x' = at'
      BY <1>2, <1>4 DEF MachineInv
    <2>3. state' = "busy" => at' <= to'
      BY <1>1, <1>2, <1>4 DEF MachineInv
    <2>4. QED
      BY <2>1, <2>2, <2>3 DEF MachineInv
  <1>7. LineType' /\ CollectorType' /\ RadioType' /\ FilesType' /\ UserType'
    BY <1>1 DEF TypeOK, LineType, CollectorType, RadioType, FilesType, UserType
  <1>8. ExchangeInv' /\ SampleInv' /\ AttemptInv'
    BY <1>1 DEF ExchangeInv, SampleInv, AttemptInv
  <1>9. QED
    BY <1>3, <1>5, <1>6, <1>7, <1>8 DEF TypeOK

-----------------------------------------------------------------------------
(* The exchange of a request and its answer.                                *)

\* Asking puts a request on the wire, for an answer that is waited for.
LEMMA AskInv ==
  ASSUME IInv, NEW who \in {"collector", "user"}, NEW request \in Requests, Ask(who, request)
  PROVE  LineType' /\ ExchangeInv' /\ faults' = faults
  <1> USE DEF IInv, TypeOK
  <1>1. /\ reader = "none" /\ reader' = who /\ UNCHANGED <<line, reading, faults>>
        /\ wire' \in Seq(Requests) /\ Len(wire') = Len(wire) + 1
    BY Put DEF Ask, LineType
  <1>2. /\ Len(wire) \in Nat /\ Len(line) \in Nat /\ Late \in Nat
        /\ Len(wire) + Len(line) <= Late
    BY <1>1, Lengths, ConstantTypes DEF ExchangeInv
  <1>3. Len(wire') + Len(line') <= Late + 1
    BY <1>1, <1>2
  <1>4. ExchangeInv'
    BY <1>1, <1>3 DEF ExchangeInv
  <1>5. LineType'
    BY <1>1, <1>3 DEF LineType
  <1>6. QED
    BY <1>1, <1>4, <1>5

\* What is decoded is an answer, whatever of it was read, and misses are not counted further
\* than two.
LEMMA ReadType ==
  ASSUME TypeOK, NEW who, NEW answer, ExecutePrebuiltCommand(who, answer)
  PROVE  response' \in Answers /\ shifted' \in BOOLEAN /\ missed' \in 0 .. 2 /\ faults' \in 0 .. Faults
  <1>1. response \in Answers /\ shifted \in BOOLEAN /\ missed \in 0 .. 2 /\ line \in Seq(Answers)
    BY DEF TypeOK, LineType
  <1>2. NoAnswer \in Answers
    BY ConstantTypes DEF NoAnswer, Answers, States
  <1>3. faults' \in 0 .. Faults
    BY FaultCount DEF ExecutePrebuiltCommand, ReadAnswer
  <1>4. Miss => missed' \in 0 .. 2
    BY <1>1 DEF Miss
  <1>5. CASE line # <<>> /\ ReadAnswer(answer)
    <2>1. Head(line) \in Answers
      BY <1>1, <1>5, Taken
    <2>2. QED
      BY <1>1, <1>2, <1>3, <1>5, <2>1 DEF ReadAnswer
  <1>6. ASSUME NEW buffer \in SUBSET Answers, NEW rest \in SUBSET BOOLEAN,
               TimedOut(answer, buffer, rest)
        PROVE  response' \in Answers /\ shifted' \in BOOLEAN /\ missed' \in 0 .. 2
    BY <1>1, <1>4, <1>6 DEF TimedOut
  <1>7. {response, NoAnswer} \in SUBSET Answers
        /\ {IF shifted THEN NoAnswer ELSE response} \in SUBSET Answers
        /\ {FALSE} \in SUBSET BOOLEAN /\ BOOLEAN \in SUBSET BOOLEAN
    BY <1>1, <1>2
  <1>8. QED
    BY <1>3, <1>5, <1>6, <1>7 DEF ExecutePrebuiltCommand

\* Reading takes an answer off the line, or leaves it to be late.
LEMMA ReadInv ==
  ASSUME IInv, NEW who \in {"collector", "user"}, NEW answer \in Answers,
         ExecutePrebuiltCommand(who, answer)
  PROVE  LineType' /\ ExchangeInv' /\ faults' \in 0 .. Faults
  <1> USE DEF IInv, TypeOK
  <1>1. reader = who /\ reader' = "none" /\ UNCHANGED wire
    BY DEF ExecutePrebuiltCommand
  <1>2. /\ response' \in Answers /\ shifted' \in BOOLEAN /\ missed' \in 0 .. 2
        /\ faults' \in 0 .. Faults
    BY ReadType
  <1>3. Late \in Nat /\ Len(wire) \in Nat /\ Len(line) \in Nat
    BY Lengths, ConstantTypes
  <1>4. line' \in Seq(Answers) /\ Len(wire) + Len(line') <= Late
    <2>1. CASE line # <<>> /\ line' = Tail(line)
      <3>1. line' \in Seq(Answers) /\ Len(line') = Len(line) - 1
        BY <2>1, Taken DEF LineType
      <3>2. Len(wire) + Len(line) <= Late + 1
        BY <1>1, <1>3 DEF ExchangeInv, LineType
      <3>3. QED
        BY <1>3, <3>1, <3>2
    <2>2. CASE line = <<>> /\ UNCHANGED line /\ Len(wire) <= Late
      BY <1>3, <2>2 DEF LineType
    <2>3. QED
      BY <2>1, <2>2 DEF ExecutePrebuiltCommand
  <1>5. Len(line') \in Nat
    BY <1>4, LenProperties
  <1>6. LineType'
    BY <1>1, <1>2, <1>3, <1>4, <1>5 DEF LineType
  <1>7. ExchangeInv'
    BY <1>1, <1>3, <1>4, <1>5 DEF ExchangeInv
  <1>8. QED
    BY <1>2, <1>6, <1>7

\* What neither side touches while they talk.
LEMMA TalkInv ==
  ASSUME IInv, LineType', ExchangeInv', faults' \in 0 .. Faults,
         UNCHANGED <<machine, radio, samples, released>>
  PROVE  /\ MachineType' /\ MachineInv' /\ RadioType'
         /\ CollectorType' /\ FilesType' /\ UserType' /\ SampleInv' /\ AttemptInv' => IInv'
  BY DEF IInv, TypeOK, MachineType, MachineInv, RadioType

\* Requests of the collector.
LEMMA CollectorAsksInv ==
  ASSUME IInv, CollectorAsks
  PROVE  IInv'
  <1>1. LineType' /\ ExchangeInv' /\ faults' = faults
    BY AskInv DEF CollectorAsks, Requests
  <1>2. UNCHANGED <<collector, samples, released, files, machine, radio, stopping, cancelled>>
    BY DEF CollectorAsks, Stay
  <1>3. CollectorType' /\ FilesType' /\ UserType' /\ SampleInv' /\ AttemptInv'
    BY <1>2 DEF IInv, TypeOK, CollectorType, FilesType, UserType, SampleInv, AttemptInv
  <1>4. faults' \in 0 .. Faults
    BY <1>1 DEF IInv, TypeOK
  <1>5. QED
    BY <1>1, <1>2, <1>3, <1>4, TalkInv

\* Answers to the collector: a position is on the track, a good one or not.
LEMMA CollectorReadsInv ==
  ASSUME IInv, CollectorReads
  PROVE  IInv'
  <1>1. PICK answer \in Answers :
          /\ ExecutePrebuiltCommand("collector", answer)
          /\ Begin(answer) \/ moveToNextPosition(answer)
    BY DEF CollectorReads
  <1>2. LineType' /\ ExchangeInv' /\ faults' \in 0 .. Faults
    BY <1>1, ReadInv
  <1>3. UNCHANGED <<samples, released, machine, radio, stopping, cancelled>>
    BY DEF CollectorReads, Stay
  <1>4. /\ pc' \in {"loop", "failed", "poll", pc}
        /\ start' \in {start, answer.at} /\ current' \in {current, answer.at}
        /\ UNCHANGED <<tries, files>> /\ pc \in {"begin", "move", "poll"}
    BY <1>1 DEF Begin, moveToNextPosition, Go
  <1>5. answer.at \in 0 .. Track
    BY DEF Answers
  <1>6. CollectorType' /\ FilesType' /\ UserType'
    BY <1>3, <1>4, <1>5 DEF IInv, TypeOK, CollectorType, FilesType, UserType
  <1>7. SampleInv' /\ AttemptInv'
    BY <1>3, <1>4 DEF IInv, SampleInv, AttemptInv
  <1>8. QED
    BY <1>2, <1>3, <1>6, <1>7, TalkInv

\* Requests of the user.
LEMMA UserAsksInv ==
  ASSUME IInv, UserAsks
  PROVE  IInv'
  <1>1. \A u \in DOMAIN Request : Request[u] \in Requests
    BY DEF Request, Requests
  <1>2. LineType' /\ ExchangeInv' /\ faults' = faults
    BY <1>1, AskInv DEF UserAsks, Requests
  <1>3. /\ UNCHANGED <<collector, samples, released, files, machine, radio, cancelled>>
        /\ (ui' = "emergency" /\ attempt' = 1) \/ UNCHANGED <<ui, attempt>>
    BY DEF UserAsks
  <1>4. 1 \in 0 .. MaxAttempts /\ 1 \in 1 .. MaxAttempts
    BY ConstantTypes
  <1>8. CollectorType' /\ FilesType' /\ SampleInv'
    BY <1>3 DEF IInv, TypeOK, CollectorType, FilesType, SampleInv
  <1>9. UserType'
    BY <1>3, <1>4 DEF IInv, TypeOK, UserType
  <1>10. AttemptInv'
    BY <1>3, <1>4 DEF IInv, AttemptInv
  <1>5. CollectorType' /\ FilesType' /\ UserType' /\ SampleInv' /\ AttemptInv'
    BY <1>8, <1>9, <1>10
  <1>6. faults' \in 0 .. Faults
    BY <1>2 DEF IInv, TypeOK
  <1>7. QED
    BY <1>2, <1>3, <1>5, <1>6, TalkInv

\* Answers to the user: attempts are not counted beyond the last.
LEMMA UserReadsInv ==
  ASSUME IInv, UserReads
  PROVE  IInv'
  <1>1. PICK answer \in Answers :
          ExecutePrebuiltCommand("user", answer) /\ StrongEmergencyStop(answer)
    BY DEF UserReads
  <1>2. LineType' /\ ExchangeInv' /\ faults' \in 0 .. Faults
    BY <1>1, ReadInv
  <1>3. UNCHANGED <<collector, samples, released, files, machine, radio>>
    BY DEF UserReads
  <1>4. /\ ui # "none" /\ cancelled' \in {cancelled, TRUE}
        /\ ui' \in {"returned", "reset", "status", "gave up", "emergency"}
        /\ attempt' = attempt \/ (attempt # MaxAttempts /\ attempt' = attempt + 1)
    BY <1>1 DEF StrongEmergencyStop
  <1>5. attempt' \in 1 .. MaxAttempts /\ attempt' \in 0 .. MaxAttempts
    <2>1. MaxAttempts \in Nat
      BY ConstantTypes
    <2>2. attempt \in 1 .. MaxAttempts
      BY <1>4 DEF IInv, AttemptInv
    <2>3. attempt' = attempt \/ (attempt # MaxAttempts /\ attempt' = attempt + 1)
      BY <1>4
    <2>4. QED
      BY <2>1, <2>2, <2>3
  <1>9. cancelled' \in BOOLEAN /\ (~cancelled' => ~cancelled)
    <2>1. cancelled \in BOOLEAN
      BY DEF IInv, TypeOK, UserType
    <2>2. cancelled' = cancelled \/ cancelled' = TRUE
      BY <1>4
    <2>3. QED
      BY <2>1, <2>2, Zenon
  <1>6. UserType' /\ AttemptInv'
    BY <1>4, <1>5, <1>9 DEF UserType, AttemptInv
  <1>10. SampleInv'
    BY <1>3, <1>9 DEF IInv, SampleInv
  <1>7. CollectorType' /\ FilesType' /\ SampleInv'
    BY <1>3, <1>10 DEF IInv, TypeOK, CollectorType, FilesType
  <1>8. QED
    BY <1>2, <1>3, <1>6, <1>7, TalkInv

-----------------------------------------------------------------------------
(* Positions and measurements.                                              *)

\* What the collector does with nobody else touches neither controller nor wires.
LEMMA LineKept ==
  ASSUME IInv, UNCHANGED <<machine, wire, line, reader, reading, stopping>>
  PROVE  MachineType' /\ LineType' /\ MachineInv' /\ ExchangeInv' /\ AttemptInv'
  BY DEF IInv, TypeOK, MachineType, LineType, MachineInv, ExchangeInv, AttemptInv

\* The next position, or the end.
LEMMA CollectDataInv ==
  ASSUME IInv, CollectData
  PROVE  IInv'
  <1>1. /\ pc' \in {"done", "start"} /\ tries' = 0 /\ samples' = <<>> /\ released' = 0
        /\ UNCHANGED <<start, current, wire, line, reader, reading, faults, files, machine, radio,
                       stopping, cancelled>>
    BY DEF CollectData, Go, Stay
  <1>2. MachineType' /\ LineType' /\ MachineInv' /\ ExchangeInv' /\ AttemptInv'
    BY <1>1, LineKept
  <1>3. 0 \in 0 .. Retries /\ Len(samples') = 0 /\ 0 <= NumberOfSamples /\ samples' \in Seq(1 .. Blurred)
    BY <1>1, ConstantTypes, EmptySeq
  <1>4. RadioType'
    BY <1>1, <1>3 DEF IInv, TypeOK, RadioType
  <1>5. CollectorType'
    BY <1>1, <1>3 DEF IInv, TypeOK, CollectorType
  <1>6. FilesType' /\ UserType' /\ faults' \in 0 .. Faults
    BY <1>1 DEF IInv, TypeOK, FilesType, UserType
  <1>7. SampleInv'
    BY <1>1 DEF SampleInv
  <1>8. QED
    BY <1>2, <1>4, <1>5, <1>6, <1>7 DEF IInv, TypeOK

\* A measurement is of a place on the track, or blurred.
LEMMA NotifyInv ==
  ASSUME IInv, Notify
  PROVE  IInv'
  <1>1. /\ air' = <<IF state = "busy" THEN Blurred ELSE at>>
        /\ UNCHANGED <<machine, wire, line, reader, reading, faults, collector, notifying,
                       stragglers, samples, released, files, stopping, cancelled>>
    BY DEF Notify
  <1>2. MachineType' /\ LineType' /\ MachineInv' /\ ExchangeInv' /\ AttemptInv'
    BY <1>1, LineKept
  <1>3. at \in 1 .. Blurred /\ Blurred \in 1 .. Blurred
    <2>1. Start \in Nat \ {0} /\ Track \in Nat
      BY ConstantTypes
    <2>2. QED
      BY <2>1 DEF IInv, TypeOK, MachineType, MachineInv, Blurred
  <1>4. air' \in Seq(1 .. Blurred)
    BY <1>1, <1>3
  <1>5. RadioType'
    BY <1>1, <1>4 DEF IInv, TypeOK, RadioType
  <1>6. CollectorType' /\ FilesType' /\ UserType' /\ faults' \in 0 .. Faults
    BY <1>1 DEF IInv, TypeOK, CollectorType, FilesType, UserType
  <1>7. SampleInv'
    BY <1>1 DEF IInv, SampleInv
  <1>8. QED
    BY <1>2, <1>5, <1>6, <1>7 DEF IInv, TypeOK

\* A sample is kept as long as there are not enough, and the semaphore released only then.
LEMMA CallbackInv ==
  ASSUME IInv, air # <<>>, Callback, UNCHANGED <<pc, cancelled>>
  PROVE  /\ samples' \in Seq(1 .. Blurred) /\ Len(samples') <= NumberOfSamples
         /\ released' \in 0 .. 1 /\ SampleInv'
  <1>0. /\ NumberOfSamples \in Nat /\ Len(samples) \in Nat /\ samples \in Seq(1 .. Blurred)
        /\ Len(samples) <= NumberOfSamples /\ released \in 0 .. 1
    BY ConstantTypes, Lengths DEF IInv, TypeOK, RadioType
  <1>1. CASE UNCHANGED <<samples, released>>
    BY <1>0, <1>1 DEF IInv, SampleInv
  <1>2. CASE (cancelled \/ Enough) /\ Release /\ UNCHANGED samples
    <2>1. cancelled \/ Len(samples) = NumberOfSamples
      BY <1>0, <1>2 DEF Enough
    <2>2. QED
      BY <1>0, <1>2, <2>1 DEF Release, SampleInv
  <1>3. CASE ~cancelled /\ ~Enough /\ samples' = Append(samples, Head(air)) /\ UNCHANGED released
    <2>1. Len(samples) < NumberOfSamples
      BY <1>0, <1>3 DEF Enough
    <2>2. Head(air) \in 1 .. Blurred
      BY Taken DEF IInv, TypeOK, RadioType
    <2>3. samples' \in Seq(1 .. Blurred) /\ Len(samples') = Len(samples) + 1
      BY <1>0, <1>3, <2>2, Put
    <2>4. Len(samples') <= NumberOfSamples
      BY <1>0, <2>1, <2>3
    <2>5. ~(released > 0 \/ pc \in {"stop", "stopped"})
      BY <1>0, <1>3, <2>1 DEF IInv, SampleInv
    <2>6. SampleInv'
      BY <1>3, <2>5 DEF SampleInv
    <2>7. QED
      BY <1>0, <1>3, <2>3, <2>4, <2>6
  <1>4. QED
    BY <1>1, <1>2, <1>3 DEF Callback

\* A notification arrives.
LEMMA DeliverInv ==
  ASSUME IInv, Deliver
  PROVE  IInv'
  <1>1. /\ air # <<>> /\ air' = <<>>
        /\ Callback \/ UNCHANGED <<samples, released>>
        /\ UNCHANGED <<machine, wire, line, reader, reading, faults, collector, notifying,
                       stragglers, files, stopping, cancelled>>
    BY DEF Deliver
  <1>2. MachineType' /\ LineType' /\ MachineInv' /\ ExchangeInv' /\ AttemptInv'
    BY <1>1, LineKept
  <1>3. Callback
    BY <1>1 DEF Callback
  <1>4. /\ samples' \in Seq(1 .. Blurred) /\ Len(samples') <= NumberOfSamples
        /\ released' \in 0 .. 1 /\ SampleInv'
    BY <1>1, <1>3, CallbackInv
  <1>5. RadioType'
    BY <1>1, <1>4, EmptySeq DEF IInv, TypeOK, RadioType
  <1>6. CollectorType' /\ FilesType' /\ UserType' /\ faults' \in 0 .. Faults
    BY <1>1 DEF IInv, TypeOK, CollectorType, FilesType, UserType
  <1>7. QED
    BY <1>2, <1>4, <1>5, <1>6 DEF IInv, TypeOK

\* A Bluetooth write is tried again a number of times.
LEMMA WrittenType ==
  ASSUME IInv, NEW want \in BOOLEAN, NEW next, Written(want, next)
  PROVE  /\ pc' \in {"failed", next, pc} /\ tries' \in 0 .. Retries /\ notifying' \in BOOLEAN
         /\ stragglers' \in 0 .. Stragglers /\ faults' \in 0 .. Faults
  <1>0. /\ Retries \in Nat /\ Stragglers \in Nat /\ tries \in 0 .. Retries
        /\ notifying \in BOOLEAN /\ stragglers \in 0 .. Stragglers
    BY ConstantTypes DEF IInv, TypeOK, CollectorType, RadioType
  <1>1. faults' \in 0 .. Faults
    BY FaultCount DEF Written, IInv
  <1>2. CASE tries = Retries \/ cancelled
    BY <1>0, <1>1, <1>2 DEF Written, Go
  <1>3. CASE ~(tries = Retries \/ cancelled) /\ pc' = next /\ notifying' = want /\ tries' = 0
             /\ (stragglers' = stragglers \/ (stragglers < Stragglers /\ stragglers' = stragglers + 1))
    BY <1>0, <1>1, <1>3
  <1>4. CASE /\ ~(tries = Retries \/ cancelled) /\ notifying' \in {notifying, want}
             /\ tries' = tries + 1 /\ UNCHANGED <<pc, stragglers>>
    <2>1. tries' \in 0 .. Retries
      BY <1>0, <1>4
    <2>2. QED
      BY <1>0, <1>1, <1>4, <2>1
  <1>5. QED
    BY <1>2, <1>3, <1>4 DEF Written, Go

\* The wait for the samples of a position, between two writes.
LEMMA GetLineSensorDataInv ==
  ASSUME IInv, getLineSensorData
  PROVE  IInv'
  <1>1. UNCHANGED <<machine, wire, line, reader, reading, start, current, air, samples, released,
                    files, stopping, cancelled>>
    BY DEF getLineSensorData
  <1>2. MachineType' /\ LineType' /\ MachineInv' /\ ExchangeInv' /\ AttemptInv'
    BY <1>1, LineKept
  <1>3. /\ tries' \in 0 .. Retries /\ notifying' \in BOOLEAN
        /\ stragglers' \in 0 .. Stragglers /\ faults' \in 0 .. Faults
        /\ \/ pc = "start" /\ pc' \in {"failed", "wait", "start"}
           \/ pc = "wait" /\ pc' \in {"stop", "failed"} /\ (pc' = "stop" => released > 0)
           \/ pc = "stop" /\ pc' \in {"failed", "stopped", "stop"}
           \/ pc = "stopped" /\ pc' \in {"failed", "save"}
    <2>1. CASE pc = "start" /\ Written(TRUE, "wait")
      BY <2>1, WrittenType
    <2>2. CASE pc = "stop" /\ Written(FALSE, "stopped")
      BY <2>2, WrittenType
    <2>3. CASE (pc = "wait" /\ WaitOne) \/ (pc = "stopped" /\ CheckCount)
      BY <2>3 DEF WaitOne, CheckCount, Go, IInv, TypeOK, CollectorType, RadioType
    <2>4. QED
      BY <2>1, <2>2, <2>3 DEF getLineSensorData
  <1>4. RadioType' /\ FilesType' /\ UserType'
    BY <1>1, <1>3 DEF IInv, TypeOK, RadioType, FilesType, UserType
  <1>5. CollectorType'
    BY <1>1, <1>3 DEF IInv, TypeOK, CollectorType
  <1>6. SampleInv'
    BY <1>1, <1>3 DEF IInv, SampleInv
  <1>7. QED
    BY <1>2, <1>3, <1>4, <1>5, <1>6 DEF IInv, TypeOK

\* The file of a position.
LEMMA SaveInv ==
  ASSUME IInv, saveLineSensorDataToFile
  PROVE  IInv'
  <1>1. /\ pc = "save" /\ pc' \in {"move", "failed"}
        /\ UNCHANGED <<start, current, tries, wire, line, reader, reading, samples, released,
                       machine, radio, stopping, cancelled>>
        /\ \/ files' = [o \in DOMAIN files \cup {Offset} |-> IF o = Offset THEN samples ELSE files[o]]
           \/ files' = [o \in DOMAIN files \ {Offset} |-> files[o]]
    BY DEF saveLineSensorDataToFile, Go, Stay
  <1>2. MachineType' /\ LineType' /\ MachineInv' /\ ExchangeInv' /\ AttemptInv'
    BY <1>1, LineKept
  <1>3. faults' \in 0 .. Faults
    BY FaultCount DEF saveLineSensorDataToFile, IInv
  <1>4. FilesType'
    <2>1. Offset \in Int
      BY ConstantTypes DEF Offset, IInv, TypeOK, CollectorType
    <2>2. samples \in Seq(1 .. Blurred) /\ \A o \in DOMAIN files : o \in Int /\ files[o] \in Seq(1 .. Blurred)
      BY DEF IInv, TypeOK, RadioType, FilesType
    <2>3. CASE files' = [o \in DOMAIN files \cup {Offset} |-> IF o = Offset THEN samples ELSE files[o]]
      BY <2>1, <2>2, <2>3 DEF FilesType, Blurred
    <2>4. CASE files' = [o \in DOMAIN files \ {Offset} |-> files[o]]
      BY <2>2, <2>4 DEF FilesType, Blurred
    <2>5. QED
      BY <1>1, <2>3, <2>4
  <1>5. RadioType' /\ UserType' /\ CollectorType'
    BY <1>1 DEF IInv, TypeOK, RadioType, UserType, CollectorType
  <1>6. SampleInv'
    BY <1>1 DEF IInv, SampleInv
  <1>7. QED
    BY <1>2, <1>3, <1>4, <1>5, <1>6 DEF IInv, TypeOK

\* The user's end of the collection excuses whatever is not complete.
LEMMA CancelInv ==
  ASSUME IInv, Cancel
  PROVE  IInv'
  <1>1. /\ cancelled' = TRUE
        /\ UNCHANGED <<machine, wire, line, reader, reading, faults, collector, radio, samples,
                       released, files, stopping>>
    BY DEF Cancel
  <1>2. MachineType' /\ LineType' /\ MachineInv' /\ ExchangeInv' /\ AttemptInv'
    BY <1>1, LineKept
  <1>3. CollectorType' /\ RadioType' /\ FilesType' /\ UserType' /\ SampleInv' /\ faults' \in 0 .. Faults
    BY <1>1 DEF IInv, TypeOK, CollectorType, RadioType, FilesType, UserType, SampleInv
  <1>4. QED
    BY <1>2, <1>3 DEF IInv, TypeOK

-----------------------------------------------------------------------------
(* The theorems.                                                            *)

\* Every step keeps the invariant.
LEMMA InvStep == IInv /\ [Next]_vars => IInv'
  <1> SUFFICES ASSUME IInv, [Next]_vars PROVE IInv'
    OBVIOUS
  <1>1. CASE Serve
    BY <1>1, ServeInv
  <1>2. CASE Travel \/ Button
    BY <1>2, TravelInv
  <1>3. CASE Collector
    BY <1>3, CollectorAsksInv, CollectorReadsInv, CollectDataInv, GetLineSensorDataInv, SaveInv
       DEF Collector
  <1>4. CASE Notify \/ Deliver
    BY <1>4, NotifyInv, DeliverInv
  <1>5. CASE User
    BY <1>5, UserAsksInv, UserReadsInv DEF User
  <1>6. CASE Cancel
    BY <1>6, CancelInv
  <1>7. CASE UNCHANGED vars
    <2>1. UNCHANGED <<machine, wire, line, reader, reading, faults, collector, radio, samples,
                      released, files, stopping, cancelled>>
      BY <1>7 DEF vars
    <2>2. MachineType' /\ LineType' /\ MachineInv' /\ ExchangeInv' /\ AttemptInv'
      BY <2>1, LineKept
    <2>3. CollectorType' /\ RadioType' /\ FilesType' /\ UserType' /\ SampleInv' /\ faults' \in 0 .. Faults
      BY <2>1 DEF IInv, TypeOK, CollectorType, RadioType, FilesType, UserType, SampleInv
    <2>4. QED
      BY <2>2, <2>3 DEF IInv, TypeOK
  <1>8. QED
    BY <1>1, <1>2, <1>3, <1>4, <1>5, <1>6, <1>7 DEF Next

\* Whatever goes wrong, and however often, the inductive invariant holds throughout.
THEOREM Invariant == Spec => []IInv
  BY InitInv, InvStep, PTL DEF Spec

\* The state stays within its types: at most one request or answer more than may be
\* late, the carriage on its track, no more samples than asked for
\* (DataCollector.cs:121-176, PositionController.cs:96-188).
THEOREM TypeCorrect == Spec => []TypeOK
  <1>1. IInv => TypeOK
    BY DEF IInv
  <1>2. QED
    BY <1>1, Invariant, PTL

\* A wait that was not cut short has collected exactly the samples asked for
\* (DataCollector.cs:79-86, 136).
THEOREM MeasurementsComplete == Spec => []MeasurementComplete
  <1>1. IInv => MeasurementComplete
    BY DEF IInv, SampleInv, MeasurementComplete
  <1>2. QED
    BY <1>1, Invariant, PTL

-----------------------------------------------------------------------------
(* Where the samples come from, while the controller knows where it is.     *)

Still == state # "busy" /\ \A i \in DOMAIN wire : wire[i] # "move"

\* The first position is asked for when nothing else is on the way.
BeginInv ==
  pc = "begin" =>
    /\ Still /\ at = Start /\ ~shifted
    /\ \A i \in DOMAIN line : line[i].at = at
    /\ Len(wire) + Len(line) = (IF reader = "none" THEN 0 ELSE 1)

\* From the end of a movement to the request for the next the carriage stands where the
\* collector thinks it does.
RestInv ==
  pc \in {"loop", "start", "wait", "stop", "stopped", "save"}
  \/ (pc = "move" /\ reader # "collector") => Still /\ at = current

\* A movement that was asked for has a request or answer before it only when one has been
\* missed.
MoveInv ==
  pc = "move" /\ reader = "collector" =>
    /\ \A i \in DOMAIN wire : wire[i] = "move" <=> i = Len(wire)
    /\ \A i \in missed + 1 .. Len(line) : ~Arrived(line[i])

\* Once it has been answered, or given up, there is none: who reads that the carriage is
\* idle reads where it is, or, when nothing has been missed yet, has read it before.
PollInv ==
  pc = "poll" =>
    /\ \A i \in DOMAIN wire : wire[i] = "move" => i = 1 /\ line = <<>> /\ missed = 1
    /\ \A i \in DOMAIN line : Arrived(line[i]) => state # "busy" /\ line[i].at = at
    /\ missed = 0 /\ Arrived(response) => state # "busy" /\ response.at = at

\* Nothing is measured during a movement; what comes after a stop comes before the samples
\* of the next position.
AirInv ==
  /\ pc = "begin" => air \in {<<>>, <<at>>}
  /\ pc \in {"loop", "start", "wait", "stop", "stopped"} =>
       air \in {<<>>, <<at>>} \/ (stragglers > 0 /\ (pc # "loop" => samples = <<>>))
  /\ pc \in {"stopped", "save", "move", "poll"} => ~notifying /\ (air = <<>> \/ stragglers > 0)

MeasuredInv ==
  /\ pc \in {"start", "wait", "stop", "stopped", "save"} =>
       \A i \in DOMAIN samples : i > stragglers => samples[i] = at
  /\ pc = "save" => Len(samples) = NumberOfSamples

FiledInv ==
  /\ pc \notin {"begin", "done", "failed"} => start = Start
  /\ \A o \in DOMAIN files :
       /\ Len(files[o]) = NumberOfSamples
       /\ \A i \in 1 .. NumberOfSamples : i > stragglers => files[o][i] = Start + o

\* The collector waits for an answer between two positions only.
ReaderInv == reader = "collector" => pc \in {"begin", "move", "poll"}

\* No more is outstanding than has been missed.
MissedInv == missed < 2 => Len(wire) + Len(line) <= missed + (IF reader = "none" THEN 0 ELSE 1)

InPlace == BeginInv /\ RestInv /\ MoveInv /\ PollInv /\ AirInv /\ MeasuredInv /\ FiledInv

PlaceInv == ReaderInv /\ MissedInv /\ (x = at /\ missed < 2 => InPlace)

\* Where the elements of a queue are when one is put in.
LEMMA PutAt ==
  ASSUME NEW S, NEW q \in Seq(S), NEW e \in S
  PROVE  /\ DOMAIN Append(q, e) = 1 .. Len(q) + 1
         /\ \A i \in 1 .. Len(q) : Append(q, e)[i] = q[i]
         /\ Append(q, e)[Len(q) + 1] = e
  BY AppendProperties

\* Where they are when one is taken.
LEMMA TakenAt ==
  ASSUME NEW S, NEW q \in Seq(S), q # <<>>
  PROVE  /\ Head(q) = q[1] /\ Len(q) \in Nat \ {0} /\ Len(Tail(q)) = Len(q) - 1
         /\ DOMAIN q = 1 .. Len(q) /\ DOMAIN Tail(q) = 1 .. Len(q) - 1
         /\ \A i \in 1 .. Len(q) - 1 : Tail(q)[i] = q[i + 1]
  BY HeadTailProperties, EmptySeq

\* What is known of the queues between controller and collector.
Queues ==
  /\ wire \in Seq(Requests) /\ line \in Seq(Answers)
  /\ Len(wire) \in Nat /\ Len(line) \in Nat /\ missed \in 0 .. 2
  /\ DOMAIN wire = 1 .. Len(wire) /\ DOMAIN line = 1 .. Len(line)
  /\ missed < 2 => Len(wire) + Len(line) <= missed + (IF reader = "none" THEN 0 ELSE 1)
  /\ wire = <<>> <=> Len(wire) = 0
  /\ line = <<>> <=> Len(line) = 0

\* So it is in every state of the invariant.
LEMMA QueuesHold ==
  ASSUME IInv, PlaceInv
  PROVE  Queues
  <1>1. wire \in Seq(Requests) /\ line \in Seq(Answers) /\ missed \in 0 .. 2
    BY DEF IInv, TypeOK, LineType
  <1>2. /\ Len(wire) \in Nat /\ Len(line) \in Nat
        /\ DOMAIN wire = 1 .. Len(wire) /\ DOMAIN line = 1 .. Len(line)
    BY <1>1, LenProperties
  <1>3. (wire = <<>> <=> Len(wire) = 0) /\ (line = <<>> <=> Len(line) = 0)
    BY <1>1, EmptySeq
  <1>4. QED
    BY <1>1, <1>2, <1>3 DEF Queues, PlaceInv, MissedInv

\* What serving a request changes, as long as the position is kept.
Served ==
  /\ wire # <<>> /\ wire' = Tail(wire)
  /\ UNCHANGED <<at, x, reader, reading, collector, radio, samples, released, files, stopping,
                 cancelled>>
  /\ state' = "busy" => state = "busy" \/ wire[1] = "move"
  /\ \/ line' = line /\ pc # "begin"
     \/ \E a \in Answers : /\ line' = Append(line, a) /\ a.at = x
                           /\ Arrived(a) => wire[1] = "get" /\ state' = state /\ state # "busy"

\* Serving does no more, except that a reset makes the position unknown.
LEMMA ServedHolds ==
  ASSUME IInv, PlaceInv, Serve
  PROVE  Served \/ (x' = 0 /\ at' = at)
  <1>1. Queues
    BY QueuesHold
  <1>2. /\ wire # <<>> /\ wire' = Tail(wire)
        /\ UNCHANGED <<reader, reading, collector, radio, samples, released, files, stopping,
                       cancelled>>
        /\ \/ Obey(Head(wire))
           \/ Fault /\ UNCHANGED machine /\ (Answer(state, FALSE) \/ UNCHANGED line)
    BY DEF Serve
  <1>3. Head(wire) = wire[1] /\ wire[1] \in Requests
    BY <1>1, <1>2, TakenAt, Taken DEF Queues
  <1>4. /\ x \in 0 .. Track /\ error \in BOOLEAN /\ state \in States
        /\ "busy" \in States /\ "stopped" \in States
    BY DEF IInv, TypeOK, MachineType, States
  <1>5. ASSUME NEW s \in States, NEW ok \in BOOLEAN, Answer(s, ok)
        PROVE  \E a \in Answers : /\ line' = Append(line, a) /\ a.at = x
                                  /\ a.state = s /\ (a.ok => ok)
    <2>1. [state |-> s, at |-> x, ok |-> ok /\ ~error] \in Answers
      BY <1>4 DEF Answers
    <2>2. QED
      BY <1>5, <2>1 DEF Answer
  <1>6. CASE Fault /\ UNCHANGED machine /\ (Answer(state, FALSE) \/ UNCHANGED line)
    BY <1>2, <1>4, <1>5, <1>6 DEF Served, Fault, Arrived
  <1>7. CASE Obey(wire[1])
    <2>1. CASE wire[1] = "get"
      <3>1. UNCHANGED machine /\ Answer(state, TRUE)
        BY <1>7, <2>1 DEF Obey
      <3>2. QED
        BY <1>2, <1>4, <1>5, <2>1, <3>1 DEF Served, Arrived
    <2>2. CASE wire[1] = "move"
      <3>1. UNCHANGED <<at, x>> /\ (Answer("busy", TRUE) \/ Answer(state, FALSE))
        BY <1>7, <2>2 DEF Obey
      <3>2. QED
        BY <1>2, <1>4, <1>5, <2>2, <3>1 DEF Served, Arrived
    <2>3. CASE wire[1] = "stop"
      <3>1. UNCHANGED <<at, x>> /\ state' = "stopped" /\ Answer("stopped", TRUE)
        BY <1>7, <2>3 DEF Obey
      <3>2. QED
        BY <1>2, <1>4, <1>5, <2>3, <3>1 DEF Served, Arrived
    <2>4. CASE wire[1] = "reset"
      BY <1>7, <2>4 DEF Obey
    <2>5. QED
      BY <1>3, <2>1, <2>2, <2>3, <2>4 DEF Requests
  <1>8. QED
    BY <1>2, <1>3, <1>6, <1>7

\* An answer takes the place of its request.
LEMMA ServeMissed ==
  ASSUME IInv, PlaceInv, Serve
  PROVE  MissedInv'
  <1>1. /\ wire # <<>> /\ wire' = Tail(wire) /\ UNCHANGED <<reader, missed>>
        /\ Obey(Head(wire)) \/ Answer(state, FALSE) \/ UNCHANGED line
    BY DEF Serve
  <1>2. Queues /\ Head(wire) \in Requests /\ Len(wire') = Len(wire) - 1
    BY <1>1, QueuesHold, Taken DEF Queues
  <1>3. Len(line') = Len(line) \/ Len(line') = Len(line) + 1
    <2>1. state \in States
      BY DEF IInv, TypeOK, MachineType
    <2>2. QED
      BY <1>1, <1>2, <2>1, ObeyInv, AnswerType DEF IInv
  <1>4. QED
    BY <1>1, <1>2, <1>3 DEF MissedInv, Queues

\* An answer that says where the carriage is has been given after every movement asked for.
LEMMA ServePlace ==
  ASSUME IInv, PlaceInv, Serve
  PROVE  PlaceInv'
  <1>1. Queues /\ (Served \/ (x' = 0 /\ at' = at))
    BY QueuesHold, ServedHolds
  <1>2. CASE x' = 0 /\ at' = at
    <2>1. at # 0
      BY ConstantTypes DEF IInv, TypeOK, MachineType, MachineInv
    <2>2. ReaderInv'
      BY DEF Serve, PlaceInv, ReaderInv
    <2>3. QED
      BY <1>2, <2>1, <2>2, ServeMissed DEF PlaceInv
  <1>3. CASE Served
    <2>1. ReaderInv'
      BY <1>3 DEF Served, PlaceInv, ReaderInv
    <2> SUFFICES ASSUME x' = at', missed' < 2 PROVE InPlace'
      BY <2>1, ServeMissed DEF PlaceInv
    <2>2. BeginInv /\ RestInv /\ MoveInv /\ PollInv /\ AirInv /\ MeasuredInv /\ FiledInv
          /\ x = at /\ missed \in 0 .. 1
      BY <1>1, <1>3 DEF Served, PlaceInv, InPlace, Queues
    <2>3. AirInv' /\ MeasuredInv' /\ FiledInv'
      BY <1>3, <2>2 DEF Served, AirInv, MeasuredInv, FiledInv
    <2>4. /\ Len(wire) >= 1 /\ Len(wire') = Len(wire) - 1 /\ DOMAIN wire' = 1 .. Len(wire) - 1
          /\ \A i \in 1 .. Len(wire) - 1 : wire'[i] = wire[i + 1]
          /\ wire' = <<>> <=> Len(wire') = 0
      <3>1. wire' \in Seq(Requests)
        BY <1>1, <1>3, Taken DEF Queues, Served
      <3>2. wire' = <<>> <=> Len(wire') = 0
        BY <3>1, EmptySeq
      <3>3. QED
        BY <1>1, <1>3, <3>2, TakenAt DEF Queues, Served
    <2>5. Still => Still'
      BY <1>1, <1>3, <2>4 DEF Still, Served, Queues
    <2>6. RestInv'
      BY <1>3, <2>2, <2>5 DEF RestInv, Served
    <2>7. CASE line' = line /\ pc # "begin"
      <3>1. BeginInv'
        BY <1>3, <2>7 DEF BeginInv, Served
      <3>2. MoveInv'
        BY <1>1, <1>3, <2>2, <2>4, <2>7 DEF MoveInv, Served, Queues
      <3>3. PollInv'
        BY <1>1, <1>3, <2>2, <2>4, <2>7 DEF PollInv, Served, Queues
      <3>4. QED
        BY <2>3, <2>6, <3>1, <3>2, <3>3 DEF InPlace
    <2>8. ASSUME NEW a \in Answers, line' = Append(line, a), a.at = x,
                 Arrived(a) => wire[1] = "get" /\ state' = state /\ state # "busy"
          PROVE  BeginInv' /\ MoveInv' /\ PollInv'
      <3>1. /\ DOMAIN line' = 1 .. Len(line) + 1 /\ Len(line') = Len(line) + 1
            /\ \A i \in 1 .. Len(line) : line'[i] = line[i]
            /\ line'[Len(line) + 1] = a
        BY <1>1, <2>8, Put, PutAt DEF Queues
      <3>2. BeginInv'
        <4> SUFFICES ASSUME pc = "begin" PROVE BeginInv'
          BY <1>3 DEF BeginInv, Served
        <4>1. \A i \in DOMAIN line' : line'[i].at = at
          BY <1>1, <2>2, <2>8, <3>1 DEF BeginInv, Queues
        <4>2. Len(wire') + Len(line') = (IF reader = "none" THEN 0 ELSE 1)
          BY <1>1, <2>2, <2>4, <3>1 DEF BeginInv, Queues
        <4>3. QED
          BY <1>3, <2>2, <2>4, <2>5, <4>1, <4>2 DEF BeginInv, Served
      <3>3. MoveInv'
        <4> SUFFICES ASSUME pc = "move", reader = "collector" PROVE MoveInv'
          BY <1>3 DEF MoveInv, Served
        <4>1. \A i \in DOMAIN wire' : wire'[i] = "move" <=> i = Len(wire')
          BY <1>1, <2>2, <2>4 DEF MoveInv, Queues
        <4>2. \A i \in missed + 1 .. Len(line') : ~Arrived(line'[i])
          <5> SUFFICES ASSUME NEW i \in missed + 1 .. Len(line'), Arrived(line'[i]) PROVE FALSE
            OBVIOUS
          <5>1. i = Len(line) + 1
            BY <1>1, <2>2, <3>1 DEF MoveInv, Queues
          <5>2. wire[1] = "get" /\ Len(line) >= missed
            BY <1>1, <2>2, <2>8, <3>1, <5>1 DEF Queues
          <5>3. Len(wire) # 1
            BY <1>1, <2>2, <5>2 DEF MoveInv, Queues
          <5>4. QED
            BY <1>1, <2>2, <2>4, <5>2, <5>3 DEF Queues
        <4>3. QED
          BY <1>3, <4>1, <4>2 DEF MoveInv, Served
      <3>4. PollInv'
        <4> SUFFICES ASSUME pc = "poll" PROVE PollInv'
          BY <1>3 DEF PollInv, Served
        <4>1. \A i \in DOMAIN wire' : wire'[i] # "move"
          BY <1>1, <2>2, <2>4 DEF PollInv, Queues
        <4>2. ASSUME NEW i \in 1 .. Len(line), Arrived(line'[i])
              PROVE  state' # "busy" /\ line'[i].at = at
          <5>1. Arrived(line[i]) /\ line # <<>>
            BY <1>1, <3>1, <4>2 DEF Queues
          <5>2. state # "busy" /\ line[i].at = at /\ wire[1] # "move"
            BY <1>1, <2>2, <2>4, <5>1 DEF PollInv, Queues
          <5>3. QED
            BY <1>3, <3>1, <5>2 DEF Served
        <4>3. \A i \in DOMAIN line' : Arrived(line'[i]) => state' # "busy" /\ line'[i].at = at
          BY <1>1, <2>2, <2>8, <3>1, <4>2 DEF Queues
        <4>4. missed = 0 /\ Arrived(response) => state' # "busy" /\ response.at = at
          BY <1>1, <1>3, <2>2, <2>4 DEF PollInv, Served, Queues
        <4>5. QED
          BY <1>3, <4>1, <4>3, <4>4 DEF PollInv, Served, Arrived
      <3>5. QED
        BY <3>2, <3>3, <3>4
    <2>9. QED
      BY <1>3, <2>3, <2>6, <2>7, <2>8 DEF Served, InPlace
  <1>4. QED
    BY <1>1, <1>2, <1>3

\* The carriage moves only when nobody has read that it is idle, or is going to.
LEMMA TravelPlace ==
  ASSUME IInv, PlaceInv, Travel \/ Button
  PROVE  PlaceInv'
  <1>1. UNCHANGED <<to, wire, line, reader, reading, pc, start, current, tries, notifying, air,
                    stragglers, samples, released, files, ui, attempt, cancelled>>
    BY DEF Travel, Button
  <1>2. /\ (state = "busy" /\ at' = at + 1 /\ x' = x + 1) \/ UNCHANGED <<at, x>>
        /\ state' = "busy" => state = "busy"
    BY DEF Travel, Button
  <1>3. ReaderInv' /\ MissedInv'
    BY <1>1 DEF PlaceInv, ReaderInv, MissedInv
  <1> SUFFICES ASSUME x' = at', missed' < 2 PROVE InPlace'
    BY <1>3 DEF PlaceInv
  <1>4. x = at /\ missed < 2
    BY <1>1, <1>2 DEF IInv, TypeOK, MachineType
  <1>5. BeginInv /\ RestInv /\ MoveInv /\ PollInv /\ AirInv /\ MeasuredInv /\ FiledInv
    BY <1>4 DEF PlaceInv, InPlace
  <1>6. Still => UNCHANGED at /\ Still'
    BY <1>1, <1>2 DEF Still
  <1>7. BeginInv' /\ RestInv'
    BY <1>1, <1>5, <1>6 DEF BeginInv, RestInv
  <1>8. MoveInv' /\ FiledInv'
    BY <1>1, <1>5 DEF MoveInv, FiledInv, Arrived
  <1>9. PollInv'
    BY <1>1, <1>2, <1>5 DEF PollInv, Arrived
  <1>10. AirInv' /\ MeasuredInv'
    BY <1>1, <1>5, <1>6 DEF AirInv, MeasuredInv, BeginInv, RestInv
  <1>11. QED
    BY <1>7, <1>8, <1>9, <1>10 DEF InPlace

\* What an invariant of place has to be shown to hold of, when the carriage is left alone.
LEMMA PlaceKept ==
  ASSUME PlaceInv, UNCHANGED machine, ReaderInv', MissedInv', missed' < 2 => missed < 2,
         x = at /\ missed < 2 /\ missed' < 2 /\ InPlace => InPlace'
  PROVE  PlaceInv'
  BY DEF PlaceInv

\* The collector asks for a movement only when nothing that looks like its answer can come
\* before it, but for one answer.
LEMMA CollectorAsksPlace ==
  ASSUME IInv, PlaceInv, CollectorAsks
  PROVE  PlaceInv'
  <1>1. Queues
    BY QueuesHold
  <1>2. /\ reader = "none" /\ reader' = "collector"
        /\ UNCHANGED <<line, reading, machine, pc, start, current, tries, samples, released, files,
                       notifying, air, stragglers, ui, attempt, cancelled>>
        /\ \/ pc = "move" /\ wire' = Append(wire, "move")
           \/ pc \in {"begin", "poll"} /\ wire' = Append(wire, "get")
    BY DEF CollectorAsks, Ask, Stay
  <1>6. \A e \in Requests : wire' = Append(wire, e) =>
          /\ DOMAIN wire' = 1 .. Len(wire) + 1 /\ Len(wire') = Len(wire) + 1
          /\ \A i \in 1 .. Len(wire) : wire'[i] = wire[i]
          /\ wire'[Len(wire) + 1] = e
    BY <1>1, Put, PutAt DEF Queues
  <1>3. ReaderInv' /\ MissedInv'
    <2>1. Len(wire') = Len(wire) + 1
      BY <1>2, <1>6 DEF Requests
    <2>2. QED
      BY <1>1, <1>2, <2>1 DEF ReaderInv, MissedInv, Queues
  <1> SUFFICES ASSUME x = at, missed < 2, missed' < 2, BeginInv, RestInv, MoveInv, PollInv,
                      AirInv, MeasuredInv, FiledInv
               PROVE  InPlace'
    BY <1>2, <1>3, PlaceKept DEF InPlace
  <1>4. AirInv' /\ MeasuredInv' /\ FiledInv'
    BY <1>2 DEF AirInv, MeasuredInv, FiledInv
  <1>5. RestInv'
    BY <1>2 DEF RestInv, Still
  <1>7. CASE pc = "move" /\ wire' = Append(wire, "move")
    <2>1. /\ DOMAIN wire' = 1 .. Len(wire) + 1 /\ Len(wire') = Len(wire) + 1
          /\ \A i \in 1 .. Len(wire) : wire'[i] = wire[i]
          /\ wire'[Len(wire) + 1] = "move"
      BY <1>6, <1>7 DEF Requests
    <2>2. \A i \in 1 .. Len(wire) : wire[i] # "move"
      BY <1>1, <1>2, <1>7 DEF RestInv, Still, Queues
    <2>3. Len(line) <= missed
      BY <1>1, <1>2 DEF Queues
    <2>4. MoveInv'
      BY <1>1, <1>2, <2>1, <2>2, <2>3 DEF MoveInv, Queues
    <2>5. BeginInv' /\ PollInv'
      BY <1>2, <1>7 DEF BeginInv, PollInv
    <2>6. QED
      BY <1>4, <1>5, <2>4, <2>5 DEF InPlace
  <1>8. CASE pc \in {"begin", "poll"} /\ wire' = Append(wire, "get")
    <2>1. /\ DOMAIN wire' = 1 .. Len(wire) + 1 /\ Len(wire') = Len(wire) + 1
          /\ \A i \in 1 .. Len(wire) : wire'[i] = wire[i]
          /\ wire'[Len(wire) + 1] = "get"
      BY <1>6, <1>8 DEF Requests
    <2>2. MoveInv'
      BY <1>2, <1>8 DEF MoveInv
    <2>3. PollInv'
      BY <1>1, <1>2, <2>1 DEF PollInv, Queues, Arrived
    <2>4. BeginInv'
      <3> SUFFICES ASSUME pc = "begin" PROVE BeginInv'
        BY <1>2 DEF BeginInv
      <3>1. Still /\ at = Start /\ ~shifted /\ \A i \in DOMAIN line : line[i].at = at
        BY DEF BeginInv
      <3>2. Len(wire) = 0 /\ Len(line) = 0
        BY <1>1, <1>2 DEF Queues, BeginInv
      <3>3. Still'
        BY <1>1, <1>2, <2>1, <3>1 DEF Still, Queues
      <3>4. QED
        BY <1>1, <1>2, <2>1, <3>1, <3>2, <3>3 DEF BeginInv, Queues
    <2>5. QED
      BY <1>4, <1>5, <2>2, <2>3, <2>4 DEF InPlace
  <1>9. QED
    BY <1>2, <1>7, <1>8

\* The user asks for no movement, and for nothing while the collector waits.
LEMMA UserAsksPlace ==
  ASSUME IInv, PlaceInv, UserAsks
  PROVE  PlaceInv'
  <1>1. Queues
    BY QueuesHold
  <1>2. PICK request \in {"stop", "reset", "get"} : wire' = Append(wire, request)
    BY DEF UserAsks, Ask, Request
  <1>3. /\ reader = "none" /\ reader' = "user"
        /\ UNCHANGED <<line, reading, machine, pc, start, current, tries, samples, released, files,
                       notifying, air, stragglers, cancelled>>
    BY DEF UserAsks, Ask
  <1>6. /\ DOMAIN wire' = 1 .. Len(wire) + 1 /\ Len(wire') = Len(wire) + 1
        /\ \A i \in 1 .. Len(wire) : wire'[i] = wire[i]
        /\ wire'[Len(wire) + 1] # "move"
    BY <1>1, <1>2, Put, PutAt DEF Queues, Requests
  <1>4. ReaderInv' /\ MissedInv'
    BY <1>1, <1>3, <1>6 DEF ReaderInv, MissedInv, Queues
  <1> SUFFICES ASSUME x = at, missed < 2, missed' < 2, BeginInv, RestInv, MoveInv, PollInv,
                      AirInv, MeasuredInv, FiledInv
               PROVE  InPlace'
    BY <1>3, <1>4, PlaceKept DEF InPlace
  <1>5. AirInv' /\ MeasuredInv' /\ FiledInv'
    BY <1>3 DEF AirInv, MeasuredInv, FiledInv
  <1>7. Still => Still'
    BY <1>1, <1>3, <1>6 DEF Still, Queues
  <1>8. BeginInv' /\ RestInv'
    BY <1>1, <1>3, <1>6, <1>7 DEF BeginInv, RestInv, Queues
  <1>9. MoveInv'
    BY <1>3 DEF MoveInv
  <1>10. PollInv'
    BY <1>1, <1>3, <1>6 DEF PollInv, Queues, Arrived
  <1>11. QED
    BY <1>5, <1>8, <1>9, <1>10 DEF InPlace

\* What is read in time is the first answer, or nothing that can be told to be one.
FirstRead(answer) ==
  /\ missed' = missed /\ response' = answer
  /\ Len(line) # 0 /\ answer \in {line[1], NoAnswer}
  /\ pc = "begin" /\ ~shifted => answer = line[1] /\ ~shifted'

\* Who reads nothing in time may take the last answer again.
OneMissed(answer) ==
  /\ missed' = 2 \/ (missed = 0 /\ missed' = 1)
  /\ answer \in {response, NoAnswer}
  /\ pc = "begin" => Len(wire) = 0 /\ Len(line) = 0

\* Whoever reads does one or the other, and no more is left outstanding than is counted.
LEMMA ReadAt ==
  ASSUME IInv, PlaceInv, NEW who, NEW answer \in Answers, who # "none",
         ExecutePrebuiltCommand(who, answer)
  PROVE  /\ reader = who /\ reader' = "none" /\ wire' = wire /\ MissedInv'
         /\ FirstRead(answer) \/ OneMissed(answer)
         /\ Len(line) = 0 => line' = line
         /\ Len(line) # 0 =>
              /\ DOMAIN line' = 1 .. Len(line) - 1 /\ (Len(line) = 1 => line' = <<>>)
              /\ \A i \in 1 .. Len(line) - 1 : line'[i] = line[i + 1]
  <1>1. Queues
    BY QueuesHold
  <1>2. reader = who /\ reader' = "none" /\ wire' = wire
    BY DEF ExecutePrebuiltCommand
  <1>3. /\ Len(line) = 0 => line' = line
        /\ Len(line) # 0 => line' = Tail(line)
    BY <1>1 DEF ExecutePrebuiltCommand, Queues
  <1>4. Len(line) # 0 => /\ Len(line') = Len(line) - 1 /\ line' \in Seq(Answers)
                         /\ Head(line) = line[1] /\ DOMAIN line' = 1 .. Len(line) - 1
                         /\ \A i \in 1 .. Len(line) - 1 : line'[i] = line[i + 1]
    BY <1>1, <1>3, Taken, TakenAt DEF Queues
  <1>5. Len(line) = 1 => line' = <<>>
    BY <1>1, <1>4, EmptySeq
  <1>6. FirstRead(answer) \/ OneMissed(answer)
    <2>1. CASE line # <<>> /\ ReadAnswer(answer)
      BY <1>1, <1>4, <2>1 DEF ReadAnswer, FirstRead, Fault, Queues
    <2>2. Miss => missed' = 2 \/ (missed = 0 /\ missed' = 1)
      BY <1>1 DEF Miss, Queues
    <2>3. CASE line # <<>> /\ Fault /\ TimedOut(answer, {response, NoAnswer}, BOOLEAN)
      BY <2>2, <2>3 DEF TimedOut, OneMissed, Fault
    <2>4. CASE /\ line = <<>> /\ (pc = "begin" => wire = <<>>)
               /\ TimedOut(answer, {IF shifted THEN NoAnswer ELSE response}, {FALSE})
      BY <1>1, <2>2, <2>4 DEF TimedOut, OneMissed, Queues
    <2>5. QED
      BY <2>1, <2>3, <2>4 DEF ExecutePrebuiltCommand
  <1>7. MissedInv'
    <2>1. CASE Len(line) # 0
      <3>1. missed' < 2 => missed < 2 /\ missed <= missed'
        BY <1>1, <1>6 DEF FirstRead, OneMissed, Queues
      <3>2. Len(line') = Len(line) - 1
        BY <1>4, <2>1
      <3>3. missed' \in 0 .. 2
        BY <1>1, <1>6 DEF FirstRead, OneMissed, Queues
      <3>4. QED
        BY <1>1, <1>2, <2>1, <3>1, <3>2, <3>3 DEF MissedInv, Queues
    <2>2. CASE Len(line) = 0
      <3>1. missed' < 2 => missed = 0 /\ missed' = 1
        BY <1>1, <1>6, <2>2 DEF FirstRead, OneMissed, Queues
      <3>2. QED
        BY <1>1, <1>2, <1>3, <2>2, <3>1 DEF MissedInv, Queues
    <2>3. QED
      BY <2>1, <2>2
  <1>8. QED
    BY <1>2, <1>3, <1>4, <1>5, <1>6, <1>7

\* An answer that is read while positions are asked for leaves none that could mislead.
LEMMA PollRead ==
  ASSUME Queues, PollInv, pc = "poll", pc' = "poll", missed < 2, missed' < 2, reader # "none",
         wire' = wire, UNCHANGED machine, NEW answer, FirstRead(answer) \/ OneMissed(answer),
         Len(line) = 0 => line' = line,
         Len(line) # 0 => /\ DOMAIN line' = 1 .. Len(line) - 1
                          /\ \A i \in 1 .. Len(line) - 1 : line'[i] = line[i + 1]
  PROVE  PollInv'
  <1>1. \A i \in DOMAIN wire' : wire'[i] # "move"
    BY DEF Queues, PollInv, FirstRead, OneMissed
  <1>2. \A i \in DOMAIN line' : Arrived(line'[i]) => state' # "busy" /\ line'[i].at = at'
    BY DEF Queues, PollInv, Arrived
  <1>3. ASSUME missed' = 0, Arrived(response')
        PROVE  state' # "busy" /\ response'.at = at'
    <2>1. Len(line) # 0 /\ response' \in {line[1], NoAnswer}
      BY <1>3 DEF FirstRead, OneMissed
    <2>2. response' = line[1] /\ 1 \in DOMAIN line
      BY <1>3, <2>1 DEF Arrived, NoAnswer, Queues
    <2>3. Arrived(line[1])
      BY <1>3, <2>2 DEF Arrived
    <2>4. QED
      BY <2>2, <2>3 DEF PollInv
  <1>4. QED
    BY <1>1, <1>2, <1>3 DEF PollInv, Arrived

\* What the user reads is no longer there to be read.
LEMMA UserReadsPlace ==
  ASSUME IInv, PlaceInv, UserReads
  PROVE  PlaceInv'
  <1>1. Queues
    BY QueuesHold
  <1>2. PICK answer \in Answers : ExecutePrebuiltCommand("user", answer)
    BY DEF UserReads
  <1>3. UNCHANGED <<machine, pc, start, current, tries, notifying, air, stragglers, samples,
                    released, files>>
    BY DEF UserReads
  <1>4. /\ reader = "user" /\ reader' = "none" /\ wire' = wire /\ MissedInv'
        /\ FirstRead(answer) \/ OneMissed(answer)
        /\ Len(line) = 0 => line' = line
        /\ Len(line) # 0 => /\ DOMAIN line' = 1 .. Len(line) - 1
                            /\ Len(line) = 1 => line' = <<>>
                            /\ \A i \in 1 .. Len(line) - 1 : line'[i] = line[i + 1]
    BY <1>2, ReadAt
  <1>5. ReaderInv' /\ (missed' < 2 => missed < 2)
    BY <1>1, <1>4 DEF ReaderInv, FirstRead, OneMissed, Queues
  <1> SUFFICES ASSUME x = at, missed < 2, missed' < 2, BeginInv, RestInv, MoveInv, PollInv,
                      AirInv, MeasuredInv, FiledInv
               PROVE  InPlace'
    BY <1>3, <1>4, <1>5, PlaceKept DEF InPlace
  <1>6. AirInv' /\ MeasuredInv' /\ FiledInv'
    BY <1>3 DEF AirInv, MeasuredInv, FiledInv
  <1>7. RestInv' /\ MoveInv'
    BY <1>3, <1>4 DEF RestInv, MoveInv, Still
  <1>8. BeginInv'
    <2> SUFFICES ASSUME pc = "begin" PROVE BeginInv'
      BY <1>3 DEF BeginInv
    <2>1. /\ Still /\ at = Start /\ ~shifted /\ \A i \in DOMAIN line : line[i].at = at
          /\ Len(wire) + Len(line) = 1
      BY <1>4 DEF BeginInv
    <2>2. Len(line) # 0 /\ FirstRead(answer)
      BY <1>1, <1>4, <2>1 DEF FirstRead, OneMissed, Queues
    <2>3. Len(wire) = 0 /\ Len(line) = 1 /\ ~shifted'
      BY <1>1, <2>1, <2>2 DEF FirstRead, Queues
    <2>4. Still'
      BY <1>3, <1>4, <2>1 DEF Still
    <2>5. wire' = wire /\ line' = <<>> /\ Len(line') = 0
      BY <1>4, <2>3
    <2>6. QED
      BY <1>3, <1>4, <2>1, <2>3, <2>4, <2>5 DEF BeginInv
  <1>9. PollInv'
    <2> SUFFICES ASSUME pc = "poll" PROVE PollInv'
      BY <1>3 DEF PollInv
    <2>1. QED
      BY <1>1, <1>3, <1>4, PollRead
  <1>10. QED
    BY <1>6, <1>7, <1>8, <1>9 DEF InPlace

\* Where the collector takes itself to be it is: it has read the answer to a question put
\* after the movement.
LEMMA CollectorReadsPlace ==
  ASSUME IInv, PlaceInv, CollectorReads
  PROVE  PlaceInv'
  <1>1. Queues
    BY QueuesHold
  <1>2. PICK answer \in Answers : /\ ExecutePrebuiltCommand("collector", answer)
                                  /\ Begin(answer) \/ moveToNextPosition(answer)
    BY DEF CollectorReads
  <1>3. UNCHANGED <<machine, notifying, air, stragglers, samples, released>>
    BY DEF CollectorReads, Stay
  <1>4. /\ reader = "collector" /\ reader' = "none" /\ wire' = wire /\ MissedInv'
        /\ FirstRead(answer) \/ OneMissed(answer)
        /\ Len(line) = 0 => line' = line
        /\ Len(line) # 0 => /\ DOMAIN line' = 1 .. Len(line) - 1
                            /\ Len(line) = 1 => line' = <<>>
                            /\ \A i \in 1 .. Len(line) - 1 : line'[i] = line[i + 1]
    BY <1>2, ReadAt
  <1>5. ReaderInv' /\ (missed' < 2 => missed < 2)
    BY <1>1, <1>4 DEF ReaderInv, FirstRead, OneMissed, Queues
  <1> SUFFICES ASSUME x = at, missed < 2, missed' < 2, BeginInv, RestInv, MoveInv, PollInv,
                      AirInv, MeasuredInv, FiledInv
               PROVE  InPlace'
    BY <1>3, <1>4, <1>5, PlaceKept DEF InPlace
  <1>9. /\ DOMAIN line = 1 .. Len(line) /\ DOMAIN wire = 1 .. Len(wire)
        /\ Len(line) \in Nat /\ Len(wire) \in Nat /\ missed \in 0 .. 1
        /\ Len(wire) + Len(line) <= missed + 1
    BY <1>1, <1>4 DEF Queues
  <1>10. line = <<>> <=> Len(line) = 0
    BY <1>1 DEF Queues
  <1>6. CASE Begin(answer)
    <2>1. /\ pc = "begin" /\ pc' \in {"loop", "failed"} /\ start' = answer.at
          /\ current' = answer.at /\ files' = files
      BY <1>6 DEF Begin, Go
    <2>2. /\ Still /\ at = Start /\ ~shifted /\ \A i \in DOMAIN line : line[i].at = at
          /\ Len(wire) + Len(line) = 1
      BY <1>4, <2>1 DEF BeginInv
    <2>3. line # <<>> /\ answer = line[1] /\ line[1].at = at
      <3>1. Len(line) = 1 /\ FirstRead(answer)
        BY <1>4, <1>9, <2>1, <2>2 DEF FirstRead, OneMissed
      <3>2. line # <<>> /\ answer = line[1] /\ 1 \in DOMAIN line
        BY <1>9, <1>10, <2>1, <2>2, <3>1 DEF FirstRead
      <3>3. QED
        BY <2>2, <3>2
    <2>4. Still'
      BY <1>3, <1>4, <2>2 DEF Still
    <2>5. BeginInv' /\ MoveInv' /\ PollInv' /\ MeasuredInv'
      BY <2>1 DEF BeginInv, MoveInv, PollInv, MeasuredInv
    <2>6. RestInv'
      BY <1>3, <2>1, <2>3, <2>4 DEF RestInv
    <2>7. AirInv' /\ FiledInv'
      BY <1>3, <2>1, <2>2, <2>3 DEF AirInv, FiledInv
    <2>8. QED
      BY <2>5, <2>6, <2>7 DEF InPlace
  <1>7. CASE moveToNextPosition(answer)
    <2>1. /\ pc \in {"move", "poll"} /\ start' = start /\ files' = files
          /\ \/ pc' = "failed"
             \/ pc = "move" /\ pc' = "poll"
             \/ pc = "poll" /\ Arrived(answer) /\ pc' = "loop" /\ current' = answer.at
             \/ pc = "poll" /\ pc' = "poll"
      BY <1>7 DEF moveToNextPosition, Go
    <2>2. FiledInv'
      BY <1>3, <2>1 DEF FiledInv
    <2>3. BeginInv' /\ MoveInv' /\ MeasuredInv'
      BY <2>1 DEF BeginInv, MoveInv, MeasuredInv
    <2>4. AirInv'
      BY <1>3, <2>1 DEF AirInv
    <2>5. CASE pc' = "failed"
      BY <2>2, <2>3, <2>4, <2>5 DEF RestInv, PollInv, InPlace
    <2>6. CASE pc = "move" /\ pc' = "poll"
      <3>1. /\ \A i \in DOMAIN wire : wire[i] = "move" <=> i = Len(wire)
            /\ \A i \in missed + 1 .. Len(line) : ~Arrived(line[i])
        BY <1>4, <2>6 DEF MoveInv
      <3>2. \A i \in DOMAIN wire' : wire'[i] = "move" => i = 1 /\ line' = <<>> /\ missed' = 1
        BY <1>4, <1>9, <1>10, <3>1 DEF FirstRead, OneMissed
      <3>3. missed' = 0 => ~Arrived(response')
        <4>1. SUFFICES ASSUME missed' = 0 PROVE ~Arrived(response')
          OBVIOUS
        <4>2. missed = 0 /\ Len(line) # 0 /\ response' \in {line[1], NoAnswer}
          BY <1>4, <4>1 DEF FirstRead, OneMissed
        <4>3. ~Arrived(line[1]) /\ ~Arrived(NoAnswer)
          BY <1>9, <3>1, <4>2 DEF Arrived, NoAnswer
        <4>4. QED
          BY <4>2, <4>3 DEF Arrived
      <3>4. \A i \in DOMAIN line' : ~Arrived(line'[i])
        BY <1>4, <1>9, <3>1 DEF FirstRead, OneMissed
      <3>5. PollInv'
        BY <3>2, <3>3, <3>4 DEF PollInv, Arrived
      <3>6. QED
        BY <2>2, <2>3, <2>4, <2>6, <3>5 DEF RestInv, InPlace
    <2>7. CASE pc = "poll" /\ Arrived(answer) /\ pc' = "loop" /\ current' = answer.at
      <3>1. answer # NoAnswer
        BY <2>7 DEF Arrived, NoAnswer
      <3>2. state # "busy" /\ answer.at = at /\ Still
        <4>1. CASE FirstRead(answer)
          <5>1. line # <<>> /\ answer = line[1] /\ 1 \in DOMAIN line
            BY <1>9, <1>10, <3>1, <4>1 DEF FirstRead
          <5>2. QED
            BY <2>7, <5>1 DEF PollInv, Still
        <4>2. CASE OneMissed(answer)
          <5>1. missed = 0 /\ answer = response
            BY <3>1, <4>2 DEF OneMissed
          <5>2. QED
            BY <2>7, <5>1 DEF PollInv, Still
        <4>3. QED
          BY <1>4, <4>1, <4>2
      <3>3. Still'
        BY <1>3, <1>4, <3>2 DEF Still
      <3>4. RestInv' /\ PollInv'
        BY <1>3, <2>7, <3>2, <3>3 DEF RestInv, PollInv
      <3>5. QED
        BY <2>2, <2>3, <2>4, <3>4 DEF InPlace
    <2>8. CASE pc = "poll" /\ pc' = "poll"
      <3>1. PollInv'
        BY <1>1, <1>3, <1>4, <2>8, PollRead
      <3>2. QED
        BY <2>2, <2>3, <2>4, <2>8, <3>1 DEF RestInv, InPlace
    <2>9. QED
      BY <2>1, <2>5, <2>6, <2>7, <2>8
  <1>8. QED
    BY <1>2, <1>6, <1>7

\* A measurement is of where the carriage stands.
LEMMA RadioPlace ==
  ASSUME IInv, PlaceInv, Notify \/ Deliver
  PROVE  PlaceInv'
  <1>1. UNCHANGED <<machine, wire, line, reader, reading, faults, collector, notifying,
                    stragglers, files>>
    BY DEF Notify, Deliver
  <1>2. ReaderInv' /\ MissedInv'
    BY <1>1 DEF PlaceInv, ReaderInv, MissedInv
  <1> SUFFICES ASSUME x = at, missed < 2, missed' < 2, BeginInv, RestInv, MoveInv, PollInv,
                      AirInv, MeasuredInv, FiledInv
               PROVE  InPlace'
    BY <1>1, <1>2, PlaceKept DEF InPlace
  <1>3. BeginInv' /\ RestInv' /\ MoveInv' /\ PollInv' /\ FiledInv'
    BY <1>1 DEF BeginInv, RestInv, MoveInv, PollInv, FiledInv, Still, Arrived
  <1>4. CASE Notify
    <2>1. notifying /\ air' = <<IF state = "busy" THEN Blurred ELSE at>> /\ samples' = samples
      BY <1>4 DEF Notify
    <2>2. pc \in {"begin", "loop", "start", "wait", "stop"} => air' = <<at>>
      BY <2>1 DEF BeginInv, RestInv, Still
    <2>3. AirInv'
      BY <1>1, <2>1, <2>2 DEF AirInv
    <2>4. MeasuredInv'
      BY <1>1, <2>1 DEF MeasuredInv
    <2>5. QED
      BY <1>3, <2>3, <2>4 DEF InPlace
  <1>5. CASE Deliver
    <2>1. /\ air # <<>> /\ air' = <<>>
          /\ samples' = samples \/ (Subscribed /\ samples' = Append(samples, Head(air)))
      BY <1>5 DEF Deliver, Callback
    <2>2. AirInv'
      BY <1>1, <2>1 DEF AirInv
    <2>3. CASE samples' = samples
      BY <1>1, <1>3, <2>2, <2>3 DEF MeasuredInv, InPlace
    <2>4. CASE Subscribed /\ samples' = Append(samples, Head(air))
      <3>1. samples \in Seq(1 .. Blurred) /\ air \in Seq(1 .. Blurred)
        BY DEF IInv, TypeOK, RadioType
      <3>2. Head(air) \in 1 .. Blurred /\ Head(air) = air[1]
        BY <2>1, <3>1, Taken, TakenAt
      <3>3. /\ pc \in {"start", "wait", "stop", "stopped"}
            /\ Head(air) = at \/ (stragglers > 0 /\ samples = <<>>)
        BY <2>1, <2>4, <3>2 DEF Subscribed, AirInv
      <3>4. /\ DOMAIN samples' = 1 .. Len(samples) + 1 /\ Len(samples) \in Nat
            /\ DOMAIN samples = 1 .. Len(samples)
            /\ \A i \in 1 .. Len(samples) : samples'[i] = samples[i]
            /\ samples'[Len(samples) + 1] = Head(air)
        BY <2>4, <3>1, <3>2, PutAt, LenProperties
      <3>5. \A i \in DOMAIN samples : i > stragglers => samples[i] = at
        BY <3>3 DEF MeasuredInv
      <3>6. samples = <<>> => Len(samples) = 0
        OBVIOUS
      <3>7. stragglers \in Nat
        BY ConstantTypes DEF IInv, TypeOK, RadioType
      <3>8. \A i \in DOMAIN samples' : i > stragglers => samples'[i] = at
        BY <3>3, <3>4, <3>5, <3>6, <3>7
      <3>9. MeasuredInv'
        BY <1>1, <3>3, <3>8 DEF MeasuredInv
      <3>10. QED
        BY <1>3, <2>2, <3>9 DEF InPlace
    <2>5. QED
      BY <2>1, <2>3, <2>4
  <1>6. QED
    BY <1>4, <1>5

\* The next position is begun with no sample; notifying ends with nothing on its way.
LEMMA CollectPlace ==
  ASSUME IInv, PlaceInv, CollectData \/ getLineSensorData
  PROVE  PlaceInv'
  <1>1. UNCHANGED <<machine, wire, line, reader, reading, air, start, current, files>>
    BY DEF CollectData, getLineSensorData, Stay
  <1>2. \/ pc = "loop" /\ pc' \in {"done", "start"} /\ samples' = <<>> /\ stragglers' = stragglers
        \/ /\ pc \in {"start", "wait", "stop"} /\ samples' = samples
           /\ pc' \in {"start", "wait", "stop", "failed"} /\ stragglers' = stragglers
        \/ /\ pc = "stop" /\ pc' = "stopped" /\ samples' = samples /\ notifying' = FALSE
           /\ \/ air = <<>> /\ stragglers' = stragglers
              \/ stragglers' = stragglers + 1
        \/ /\ pc = "stopped" /\ pc' \in {"failed", "save"} /\ samples' = samples
           /\ UNCHANGED <<notifying, stragglers>> /\ (pc' = "save" => Enough)
    <2>1. CASE CollectData
      BY <2>1 DEF CollectData, Go, Stay
    <2>2. CASE pc = "start" /\ Written(TRUE, "wait") /\ samples' = samples
      BY <2>2 DEF Written, Go
    <2>3. CASE pc = "stop" /\ Written(FALSE, "stopped") /\ samples' = samples
      <3>1. CASE tries = Retries \/ cancelled
        BY <2>3, <3>1 DEF Written, Go
      <3>2. CASE ~(tries = Retries \/ cancelled)
        <4>1. \/ /\ pc' = "stopped" /\ notifying' = FALSE
                 /\ IF air = <<>> THEN UNCHANGED stragglers ELSE stragglers' = stragglers + 1
              \/ UNCHANGED <<pc, stragglers>>
          BY <2>3, <3>2, Zenon DEF Written, Go
        <4>2. QED
          BY <2>3, <4>1
      <3>3. QED
        BY <3>1, <3>2
    <2>4. CASE pc = "wait" /\ WaitOne /\ samples' = samples
      BY <2>4 DEF WaitOne, Go
    <2>5. CASE pc = "stopped" /\ CheckCount /\ samples' = samples
      <3>1. UNCHANGED <<notifying, stragglers>>
        BY <2>5 DEF CheckCount
      <3>2. pc' = "failed" \/ (pc' = "save" /\ Enough)
        BY <2>5, Zenon DEF CheckCount, Go
      <3>3. QED
        BY <2>5, <3>1, <3>2
    <2>6. QED
      <3>1. samples' = samples \/ CollectData
        BY DEF getLineSensorData
      <3>2. QED
        BY <2>1, <2>2, <2>3, <2>4, <2>5, <3>1 DEF getLineSensorData
  <1>3. ReaderInv' /\ MissedInv'
    BY <1>1, <1>2 DEF PlaceInv, ReaderInv, MissedInv
  <1> SUFFICES ASSUME x = at, missed < 2, missed' < 2, BeginInv, RestInv, MoveInv, PollInv,
                      AirInv, MeasuredInv, FiledInv
               PROVE  InPlace'
    BY <1>1, <1>3, PlaceKept DEF InPlace
  <1>4. BeginInv' /\ MoveInv' /\ PollInv'
    BY <1>2 DEF BeginInv, MoveInv, PollInv
  <1>10. stragglers \in Nat /\ stragglers' \in Nat /\ stragglers' >= stragglers
    <2>1. stragglers \in Nat
      BY ConstantTypes DEF IInv, TypeOK, RadioType
    <2>2. QED
      BY <1>2, <2>1
  <1>5. RestInv' /\ FiledInv'
    <2>1. RestInv'
      BY <1>1, <1>2 DEF RestInv, Still
    <2>2. FiledInv'
      BY <1>1, <1>2, <1>10 DEF FiledInv
    <2>3. QED
      BY <2>1, <2>2
  <1>6. AirInv'
    BY <1>1, <1>2, <1>10 DEF AirInv
  <1>7. Len(samples) \in Nat /\ Len(samples) <= NumberOfSamples /\ NumberOfSamples \in Nat
    BY ConstantTypes, Lengths DEF IInv, TypeOK, RadioType
  <1>8. MeasuredInv'
    BY <1>1, <1>2, <1>7, <1>10 DEF MeasuredInv, Enough
  <1>9. QED
    BY <1>4, <1>5, <1>6, <1>8 DEF InPlace

\* What is filed has been measured at the position of the name.
LEMMA SavePlace ==
  ASSUME IInv, PlaceInv, saveLineSensorDataToFile
  PROVE  PlaceInv'
  <1>1. /\ pc = "save" /\ pc' \in {"move", "failed"}
        /\ UNCHANGED <<start, current, wire, line, reader, reading, samples, machine, radio>>
        /\ \/ files' = [o \in DOMAIN files \cup {Offset} |-> IF o = Offset THEN samples ELSE files[o]]
           \/ files' = [o \in DOMAIN files \ {Offset} |-> files[o]]
    BY DEF saveLineSensorDataToFile, Go, Stay
  <1>2. reader # "collector" /\ ReaderInv' /\ MissedInv'
    BY <1>1 DEF PlaceInv, ReaderInv, MissedInv
  <1> SUFFICES ASSUME x = at, missed < 2, missed' < 2, BeginInv, RestInv, MoveInv, PollInv,
                      AirInv, MeasuredInv, FiledInv
               PROVE  InPlace'
    BY <1>1, <1>2, PlaceKept DEF InPlace
  <1>3. BeginInv' /\ MoveInv' /\ PollInv' /\ AirInv' /\ MeasuredInv'
    BY <1>1, <1>2 DEF BeginInv, MoveInv, PollInv, AirInv, MeasuredInv
  <1>4. RestInv'
    BY <1>1 DEF RestInv, Still
  <1>5. /\ Len(samples) = NumberOfSamples
        /\ \A i \in 1 .. NumberOfSamples : i > stragglers => samples[i] = at
    BY <1>1, LenProperties DEF MeasuredInv, IInv, TypeOK, RadioType
  <1>6. Start + Offset = at
    BY <1>1, ConstantTypes DEF RestInv, FiledInv, Offset, IInv, TypeOK, MachineType
  <1>7. FiledInv'
    <2>1. \A o \in DOMAIN files :
            /\ Len(files[o]) = NumberOfSamples
            /\ \A i \in 1 .. NumberOfSamples : i > stragglers => files[o][i] = Start + o
      BY DEF FiledInv
    <2>2. \A o \in DOMAIN files' :
            \/ o = Offset /\ files'[o] = samples
            \/ o \in DOMAIN files /\ files'[o] = files[o]
      BY <1>1
    <2>3. \A o \in DOMAIN files' :
            /\ Len(files'[o]) = NumberOfSamples
            /\ \A i \in 1 .. NumberOfSamples : i > stragglers => files'[o][i] = Start + o
      BY <1>5, <1>6, <2>1, <2>2
    <2>4. QED
      BY <1>1, <2>3 DEF FiledInv
  <1>8. QED
    BY <1>3, <1>4, <1>7 DEF InPlace

\* The user's end of the collection moves nothing.

LEMMA CancelPlace ==
  ASSUME PlaceInv, Cancel \/ UNCHANGED vars
  PROVE  PlaceInv'
  <1>1. UNCHANGED <<machine, wire, line, reader, reading, pc, start, current, notifying, air,
                    stragglers, samples, files>>
    BY DEF Cancel, vars
  <1>2. ReaderInv' /\ MissedInv'
    BY <1>1 DEF PlaceInv, ReaderInv, MissedInv
  <1> SUFFICES ASSUME x = at, missed < 2, missed' < 2, BeginInv, RestInv, MoveInv, PollInv,
                      AirInv, MeasuredInv, FiledInv
               PROVE  InPlace'
    BY <1>1, <1>2, PlaceKept DEF InPlace
  <1>3. BeginInv' /\ RestInv' /\ MoveInv' /\ PollInv'
    BY <1>1 DEF BeginInv, RestInv, MoveInv, PollInv, Still, Arrived
  <1>4. AirInv' /\ MeasuredInv' /\ FiledInv'
    BY <1>1 DEF AirInv, MeasuredInv, FiledInv
  <1>5. QED
    BY <1>3, <1>4 DEF InPlace

\* Nothing has been measured when it starts, and the carriage stands.
LEMMA InitPlace == Init => PlaceInv
  <1> SUFFICES ASSUME Init PROVE PlaceInv
    OBVIOUS
  <1>1. Len(wire) = 0 /\ Len(line) = 0
    BY DEF Init
  <1>2. ReaderInv /\ MissedInv
    BY <1>1 DEF Init, ReaderInv, MissedInv
  <1>3. BeginInv /\ RestInv /\ MoveInv /\ PollInv
    BY <1>1 DEF Init, BeginInv, RestInv, MoveInv, PollInv, Still
  <1>4. AirInv /\ MeasuredInv /\ FiledInv
    BY DEF Init, AirInv, MeasuredInv, FiledInv
  <1>5. QED
    BY <1>2, <1>3, <1>4 DEF PlaceInv, InPlace

\* Every step keeps the invariant of place.
LEMMA PlaceStep ==
  ASSUME IInv, PlaceInv, [Next]_vars
  PROVE  PlaceInv'
  <1>1. CASE Serve
    BY <1>1, ServePlace
  <1>2. CASE Travel \/ Button
    BY <1>2, TravelPlace
  <1>3. CASE Collector
    BY <1>3, CollectorAsksPlace, CollectorReadsPlace, CollectPlace, SavePlace DEF Collector
  <1>4. CASE Notify \/ Deliver
    BY <1>4, RadioPlace
  <1>5. CASE User
    BY <1>5, UserAsksPlace, UserReadsPlace DEF User
  <1>6. CASE Cancel \/ UNCHANGED vars
    BY <1>6, CancelPlace
  <1>7. QED
    BY <1>1, <1>2, <1>3, <1>4, <1>5, <1>6 DEF Next

\* However often anything goes wrong, what is filed under a position was measured there,
\* all of it, with the carriage at rest, but for one leading sample for each notification
\* that came after its stop, as long as the controller knows where the carriage is and at
\* most one exchange has gone unanswered, whatever the buffer held then
\* (DataCollector.cs:38-49, 205-227, PositionController.cs:346-355).
THEOREM FiledInPlace == Spec => []FiledWhereMeasured
  <1>1. IInv /\ PlaceInv /\ [Next]_vars => PlaceInv'
    BY PlaceStep
  <1>2. IInv /\ PlaceInv => FiledWhereMeasured
    <2> SUFFICES ASSUME IInv, PlaceInv, x = at, missed <= 1
                 PROVE  \A o \in DOMAIN files :
                          /\ Len(files[o]) = NumberOfSamples
                          /\ \A i \in 1 .. NumberOfSamples : i > stragglers => files[o][i] = Start + o
      BY DEF FiledWhereMeasured
    <2>1. missed < 2
      BY DEF IInv, TypeOK, LineType
    <2>2. QED
      BY <2>1 DEF PlaceInv, InPlace, FiledInv
  <1>3. QED
    BY <1>1, <1>2, InitPlace, Invariant, PTL DEF Spec

=============================================================================
