---------------------------- MODULE DataCollector ----------------------------
(***************************************************************************)
(* The collection of line sensor data on the PC: DataCollector.cs moves    *)
(* the carriage by steps and files, under each position, measurements sent *)
(* by the wireless line sensor; PositionController.cs is the client end of *)
(* the serial line; the emergency stop button of the user interface uses   *)
(* it too.  The controller and the radio are there for what they answer.   *)
(*                                                                         *)
(* A request has a second to be answered.  An answer that comes later, or  *)
(* the rest of one, is not thrown away: whoever asks next reads it.  At    *)
(* most Late requests are given up while no answer to them has come; at    *)
(* most Faults requests, answers, reads, Bluetooth writes, files or        *)
(* movements go wrong, none of them before the first position is known.    *)
(***************************************************************************)
EXTENDS Integers, Sequences

CONSTANTS
  Start, Delta, Length, Track,  \* where it begins, a step, how far, the end of the track
  NumberOfSamples,
  Retries,      \* of the Bluetooth writes: 10 in the code
  MaxAttempts,  \* of the emergency stop: 10 in the code
  Late, Faults,
  Stragglers    \* notifications still on their way when notifying has been stopped

\* The track is long enough: a movement off it is refused, and asked for again for ever.
ASSUME CollectorAssumption ==
  /\ {Start, Delta, NumberOfSamples, Retries, MaxAttempts} \subseteq Nat \ {0}
  /\ {Length, Late, Faults, Stragglers} \subseteq Nat
  /\ Track \in Nat /\ Start + Length + Delta < Track

VARIABLES
  state, at, x, to, error,                 \* controller: state, carriage, g_positionControllerX
  wire, line, reader, faults,        \* requests, unread answers, who waits for one
  response, shifted,                       \* its buffer; part of an answer is in front of line
  missed,                                  \* exchanges without an answer, counted to two
  pc, start, current, tries,               \* CollectData and what it calls
  notifying, air, stragglers,              \* the wireless line sensor
  samples, released,                       \* sensorValues, semaphore
  files,
  ui, attempt, cancelled                   \* StrongEmergencyStop, the token

machine == <<state, at, x, to, error>>
radio == <<notifying, air, stragglers>>
stopping == <<ui, attempt>>
collector == <<pc, start, current, tries>>
reading == <<response, shifted, missed>>
vars == <<machine, wire, line, reader, faults, reading, collector, radio, samples, released,
          files, stopping, cancelled>>

States == {"reset", "idle", "busy", "stopped"}
Answers == [state : States, at : 0 .. Track, ok : BOOLEAN]

\* CS_ERR_COMMUNICATION_TIMEOUT, CS_ERR_CRC: with PC_OK_MASK it reads PC_OK_RESET.
NoAnswer == [state |-> "reset", at |-> 0, ok |-> FALSE]

Blurred == Track + 1  \* measured while the carriage moved
Subscribed == pc \in {"start", "wait", "stop", "stopped"}
Ended == pc \in {"done", "failed"}

Init ==
  /\ state = "idle" /\ at = Start /\ x = Start /\ to = Start /\ error = FALSE
  /\ wire = <<>> /\ line = <<>> /\ reader = "none" /\ faults = 0
  /\ response = [state |-> "idle", at |-> Start, ok |-> TRUE] /\ shifted = FALSE /\ missed = 0
  /\ pc = "begin" /\ start = 0 /\ current = 0 /\ tries = 0
  /\ notifying \in BOOLEAN /\ air = <<>> /\ stragglers = 0
  /\ samples = <<>> /\ released = 0 /\ files = <<>>
  /\ ui = "none" /\ attempt = 0 /\ cancelled = FALSE

Fault == pc # "begin" /\ faults < Faults /\ faults' = faults + 1

-----------------------------------------------------------------------------
(* The position controller.                                                 *)

\* Answers are in the order of the requests.
Answer(s, ok) == line' = Append(line, [state |-> s, at |-> x, ok |-> ok /\ ~error])

Obey(request) ==
  \/ /\ request = "get" /\ Answer(state, TRUE)
     /\ UNCHANGED machine
  \/ /\ request = "move"
     /\ IF state = "idle" /\ x + Delta < Track
        THEN state' = "busy" /\ to' = at + Delta /\ Answer("busy", TRUE)
        ELSE UNCHANGED <<state, to>> /\ Answer(state, FALSE)
     /\ UNCHANGED <<at, x, error>>
  \/ /\ request = "stop" /\ state' = "stopped" /\ Answer("stopped", TRUE)
     /\ UNCHANGED <<at, x, to, error>>
  \/ /\ request = "reset" /\ state' = "reset" /\ x' = 0 /\ error' = FALSE
     /\ UNCHANGED <<at, to, line>>

Serve ==
  /\ wire # <<>> /\ wire' = Tail(wire)
  /\ \/ Obey(Head(wire)) /\ UNCHANGED faults
     \/ Fault /\ UNCHANGED machine /\ (Answer(state, FALSE) \/ UNCHANGED line)
  /\ UNCHANGED <<reader, reading, collector, radio, samples, released, files, stopping,
                 cancelled>>

\* A movement may end with an error of the position, which every answer then tells.
Travel ==
  /\ state = "busy"
  /\ IF at # to THEN at' = at + 1 /\ x' = x + 1 /\ UNCHANGED <<state, error, faults>>
     ELSE /\ state' = "idle" /\ UNCHANGED <<at, x>>
          /\ \/ UNCHANGED <<error, faults>>
             \/ Fault /\ error' = TRUE
  /\ UNCHANGED <<to, wire, line, reader, reading, collector, radio, samples, released,
                 files, stopping, cancelled>>

\* Its own button.
Button ==
  /\ state \in {"idle", "busy"} /\ state' = "stopped"
  /\ UNCHANGED <<at, x, to, error, wire, line, reader, faults, reading, collector, radio,
                 samples, released, files, stopping, cancelled>>

-----------------------------------------------------------------------------
(* ExecutePrebuiltCommand: whoever asks keeps the lock until it has read.    *)

Ask(who, request) ==
  /\ reader = "none" /\ reader' = who
  /\ wire' = Append(wire, request)
  /\ UNCHANGED <<line, faults, reading>>

Miss == missed' = IF missed = 2 THEN 2 ELSE missed + 1

\* As many bytes as an answer has are read: the answer that came first, perhaps an
\* earlier request's; if they are those of two answers, or garbled, no answer.  When
\* bytes are added or lost the next reads begin elsewhere.
ReadAnswer(answer) ==
  /\ \/ response' = (IF shifted THEN NoAnswer ELSE Head(line)) /\ UNCHANGED <<shifted, faults>>
     \/ response' = NoAnswer /\ shifted' \in BOOLEAN /\ Fault
  /\ answer = response' /\ UNCHANGED missed

\* The port's ReadTimeout ends a read without an error, and what was in the buffer is
\* decoded again, or spoiled when something has been read over it; the token, after the
\* same second, cancels the read, which may or may not have read that.
TimedOut(answer, buffer, rest) ==
  /\ Miss
  /\ \/ response' \in buffer /\ shifted' \in rest /\ answer \in {response', NoAnswer}
     \/ UNCHANGED <<response, shifted>> /\ answer = NoAnswer

\* A whole answer, a part of one, or nothing but what was left of another.
ExecutePrebuiltCommand(who, answer) ==
  /\ reader = who /\ reader' = "none" /\ UNCHANGED wire
  /\ \/ /\ line # <<>> /\ line' = Tail(line)
        /\ ReadAnswer(answer) \/ (Fault /\ TimedOut(answer, {response, NoAnswer}, BOOLEAN))
     \/ /\ line = <<>> /\ UNCHANGED <<line, faults>>
        /\ pc = "begin" => wire = <<>>
        /\ Len(wire) <= Late
        /\ TimedOut(answer, {IF shifted THEN NoAnswer ELSE response}, {FALSE})

-----------------------------------------------------------------------------
(* CollectData: positions.                                                  *)

Go(where) == pc' = where
Stay == UNCHANGED <<machine, radio, stopping, cancelled>>

\* StrongEmergencyStop keeps the lock from its first request to its last.
Unlocked == ui \in {"none", "returned", "gave up"}

CollectorAsks ==
  /\ Unlocked
  /\ \/ pc = "move" /\ Ask("collector", "move")
     \/ pc \in {"begin", "poll"} /\ Ask("collector", "get")
  /\ UNCHANGED <<collector, samples, released, files>> /\ Stay

\* The folder must be new or empty.
Begin(answer) ==
  /\ pc = "begin"
  /\ start' = answer.at /\ current' = answer.at
  /\ Go("loop") \/ Go("failed")
  /\ UNCHANGED <<tries, files>>

\* Deviations: any good answer ends a movement; an emergency stop is not looked for.
ArrivedAtOnce(answer) == answer.ok
EmergencyUnseen(answer) == FALSE

\* PC_OK_EMERGENCY_STOP has the bit of PC_OK_BUSY.
Arrived(answer) == answer.ok /\ answer.state \notin {"busy", "stopped"}
EmergencyStopped(answer) == answer.state = "stopped"

\* The answer to the movement is looked at for an emergency stop only; then positions
\* are asked for, without pause and without regard to the token.
moveToNextPosition(answer) ==
  /\ pc \in {"move", "poll"}
  /\ \/ EmergencyStopped(answer) /\ Go("failed") /\ UNCHANGED current
     \/ ~EmergencyStopped(answer) /\ pc = "move" /\ Go("poll") /\ UNCHANGED current
     \/ /\ ~EmergencyStopped(answer) /\ pc = "poll"
        /\ IF Arrived(answer)
           THEN Go("loop") /\ current' = answer.at
           ELSE UNCHANGED <<pc, current>>
  /\ UNCHANGED <<start, tries, files>>

CollectorReads ==
  /\ \E answer \in Answers :
       /\ ExecutePrebuiltCommand("collector", answer)
       /\ Begin(answer) \/ moveToNextPosition(answer)
  /\ UNCHANGED <<samples, released>> /\ Stay

Offset == current - start

CollectData ==
  /\ pc = "loop"
  /\ IF cancelled \/ Offset > Length THEN Go("done") ELSE Go("start")
  /\ tries' = 0 /\ samples' = <<>> /\ released' = 0
  /\ UNCHANGED <<start, current, wire, line, reader, faults, reading, files>> /\ Stay

-----------------------------------------------------------------------------
(* getLineSensorData: measurements.                                         *)

Notify ==
  /\ notifying /\ air = <<>>
  /\ air' = <<IF state = "busy" THEN Blurred ELSE at>>
  /\ UNCHANGED <<machine, wire, line, reader, faults, reading, collector, notifying,
                 stragglers, samples, released, files, stopping, cancelled>>

\* Deviation: the last sample is not waited for.
EnoughTooSoon == Len(samples) + 1 >= NumberOfSamples

Enough == Len(samples) >= NumberOfSamples

\* Deviation: the semaphore has no maximum.
ReleaseMore == released' = released + 1

\* A further Release throws, which whoever raised the event catches.
Release == released' = 1

\* Only new data without an error count.
Callback ==
  \/ UNCHANGED <<samples, released>>
  \/ (cancelled \/ Enough) /\ Release /\ UNCHANGED samples
  \/ ~cancelled /\ ~Enough /\ samples' = Append(samples, Head(air)) /\ UNCHANGED released

Deliver ==
  /\ air # <<>> /\ air' = <<>>
  /\ IF Subscribed THEN Callback ELSE UNCHANGED <<samples, released>>
  /\ UNCHANGED <<machine, wire, line, reader, faults, reading, collector, notifying,
                 stragglers, files, stopping, cancelled>>

\* What a write that is reported as failed has done is not known.
Written(want, next) ==
  IF tries = Retries \/ cancelled
  THEN Go("failed") /\ UNCHANGED <<tries, notifying, stragglers, faults>>
  ELSE \/ /\ Go(next) /\ notifying' = want /\ tries' = 0
          /\ IF want \/ air = <<>> THEN UNCHANGED stragglers
             ELSE stragglers < Stragglers /\ stragglers' = stragglers + 1
          /\ UNCHANGED faults
       \/ /\ Fault /\ notifying' \in {notifying, want} /\ tries' = tries + 1
          /\ UNCHANGED <<pc, stragglers>>

\* Ten minutes are more than the time in which the samples should come.
WaitOne ==
  /\ \/ released > 0 /\ Go("stop")
     \/ released = 0 /\ Go("failed")
  /\ UNCHANGED <<tries, notifying, stragglers, faults>>

CheckCount ==
  /\ IF cancelled \/ ~Enough THEN Go("failed") ELSE Go("save")
  /\ UNCHANGED <<tries, notifying, stragglers, faults>>

getLineSensorData ==
  /\ \/ pc = "start" /\ Written(TRUE, "wait")
     \/ pc = "wait" /\ WaitOne
     \/ pc = "stop" /\ Written(FALSE, "stopped")
     \/ pc = "stopped" /\ CheckCount
  /\ UNCHANGED <<machine, wire, line, reader, reading, start, current, air, samples,
                 released, files, stopping, cancelled>>

\* An older file of the name is overwritten; a failure deletes it.
saveLineSensorDataToFile ==
  /\ pc = "save"
  /\ \/ /\ files' = [o \in DOMAIN files \cup {Offset} |-> IF o = Offset THEN samples ELSE files[o]]
        /\ Go("move") /\ UNCHANGED faults
     \/ Fault /\ Go("failed") /\ files' = [o \in DOMAIN files \ {Offset} |-> files[o]]
  /\ UNCHANGED <<start, current, tries, wire, line, reader, reading, samples, released>>
  /\ Stay

-----------------------------------------------------------------------------
(* The user: StrongEmergencyStop, and the end of collecting.                *)

Request == [emergency |-> "stop", reset |-> "reset", status |-> "get"]

UserAsks ==
  /\ \/ ui = "none" /\ ui' = "emergency" /\ attempt' = 1 /\ Ask("user", "stop")
     \/ ui \in DOMAIN Request /\ Ask("user", Request[ui]) /\ UNCHANGED stopping
  /\ UNCHANGED <<machine, collector, radio, samples, released, files, cancelled>>

\* Statuses are compared under the mask.  An emergency stop that the user is told of
\* cancels the collection.
StrongEmergencyStop(answer) ==
  \/ /\ ui = "emergency"
     /\ IF answer.state = "stopped" THEN ui' = "returned" /\ cancelled' = TRUE
        ELSE ui' = "reset" /\ UNCHANGED cancelled
     /\ UNCHANGED attempt
  \/ ui = "reset" /\ ui' = "status" /\ UNCHANGED <<attempt, cancelled>>
  \/ /\ ui = "status"
     /\ IF answer.state = "reset" THEN ui' = "returned" /\ UNCHANGED attempt
        ELSE IF attempt = MaxAttempts THEN ui' = "gave up" /\ UNCHANGED attempt
        ELSE ui' = "emergency" /\ attempt' = attempt + 1
     /\ UNCHANGED cancelled

UserReads ==
  /\ \E answer \in Answers :
       ExecutePrebuiltCommand("user", answer) /\ StrongEmergencyStop(answer)
  /\ UNCHANGED <<machine, collector, radio, samples, released, files>>

Cancel ==
  /\ ~cancelled /\ cancelled' = TRUE
  /\ UNCHANGED <<machine, wire, line, reader, faults, reading, collector, radio, samples,
                 released, files, stopping>>

-----------------------------------------------------------------------------
Collector == CollectorAsks \/ CollectorReads \/ CollectData \/ getLineSensorData
             \/ saveLineSensorDataToFile
User == UserAsks \/ UserReads

Next == Serve \/ Travel \/ Button \/ Collector \/ Notify \/ Deliver \/ User \/ Cancel

\* Requests are answered, movements end, awaited tasks go on and the answer to a write
\* gets its turn among the notifications.
Spec == /\ Init /\ [][Next]_vars
        /\ WF_vars(Serve) /\ WF_vars(Travel) /\ WF_vars(Deliver)
        /\ WF_vars(Collector) /\ SF_vars(getLineSensorData)
        /\ WF_vars(ui # "none" /\ User)

-----------------------------------------------------------------------------
Requests == {"get", "move", "stop", "reset"}

MachineType == state \in States /\ at \in 0 .. Track /\ x \in 0 .. Track /\ to \in 0 .. Track
               /\ error \in BOOLEAN

LineType ==
  /\ wire \in Seq(Requests) /\ line \in Seq(Answers) /\ reader \in {"none", "collector", "user"}
  /\ Len(wire) + Len(line) <= Late + 1
  /\ response \in Answers /\ shifted \in BOOLEAN /\ missed \in 0 .. 2

CollectorType ==
  /\ pc \in {"begin", "loop", "start", "wait", "stop", "stopped", "save", "move", "poll",
             "done", "failed"}
  /\ start \in 0 .. Track /\ current \in 0 .. Track /\ tries \in 0 .. Retries

RadioType ==
  /\ notifying \in BOOLEAN /\ air \in Seq(1 .. Blurred) /\ stragglers \in 0 .. Stragglers
  /\ samples \in Seq(1 .. Blurred) /\ Len(samples) <= NumberOfSamples /\ released \in 0 .. 1

FilesType == \A o \in DOMAIN files : o \in Int /\ files[o] \in Seq(1 .. Blurred)

UserType ==
  /\ ui \in {"none", "emergency", "reset", "status", "returned", "gave up"}
  /\ attempt \in 0 .. MaxAttempts /\ cancelled \in BOOLEAN

TypeOK ==
  /\ MachineType /\ LineType /\ CollectorType /\ RadioType /\ FilesType /\ UserType
  /\ faults \in 0 .. Faults

\* What is filed under a position was measured there, all of it, with the carriage at
\* rest, but for a leading sample for each notification that came after its stop (the
\* loop that should purge it is not entered, DataCollector.cs:95-101), as long as the
\* controller knows where the carriage is and at most one exchange has gone unanswered.
\* After two, an answer from before the movement may be taken for one after it: a late
\* one, or the last one, decoded again (PositionController.cs:346-355).
FiledWhereMeasured ==
  x = at /\ missed <= 1 =>
    \A o \in DOMAIN files :
      /\ Len(files[o]) = NumberOfSamples
      /\ \A i \in 1 .. NumberOfSamples : i > stragglers => files[o][i] = Start + o

\* "for some reason we collected ... less than": a wait that was not cut short has
\* collected enough (DataCollector.cs:79-86, 136).
MeasurementComplete == pc = "stopped" /\ ~cancelled => Len(samples) = NumberOfSamples

\* The collection ends, however requests, answers, writes and files fail, in three cases
\* excepted, in which it asks for the position for ever: the controller is reset, or has
\* lost steps (DataCollector.cs:215-223), or the line is left out of step, as only a read
\* without an answer empties it (PositionController.cs:346).
CollectionEnds == <>[]~shifted /\ [](state # "reset" /\ ~error) => <>Ended

\* "attempts to perform emergency stop, if it fails it attempts to reset position
\* controller device, then try again": when it returns anything but that it has given
\* up, the carriage does not move (IPositionController.cs:31, PositionController.cs:212).
StopStops == ui = "returned" => state # "busy"
=============================================================================
