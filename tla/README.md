# Verification of the mazebot firmware

The mazebot repository holds the firmware of three boards and a desktop
application around a line sensor for a maze-solving robot:

* the **position controller** (`src/software/position-controller`, STM32L4) drives a
  carriage with a stepper motor along a track between two limit switches;
* the **line sensor** (`src/software/line-sensor`, STM32L1) samples its
  photo-transistors and answers an SPI master;
* the **wireless interface** (`src/software/line-sensor-wireless-interface`, STM32WB)
  is that master: it polls the line sensor and passes its data on over Bluetooth;
* the **data collector** (`src/software/line-sensor-data-collector`, C#) moves the
  carriage step by step and records the sensor at each step;
* `src/software/common` has utilities, and **DetOS**, a small task scheduler.

The firmware has no operating system: nearly all of it runs in interrupt handlers of
several priorities that preempt one another, share globals and peripherals, and are
given work by DMA channels and timers. What is hard about it is therefore the order in
which handlers run, what one finds half done by another, and counts that must be
exact to the pulse. Tests of these things do not exist in the repository (the only
unit test is of `rolling_values.c`), and could hardly be written.

## Inventory

| component | state | operations | what is hard |
|---|---|---|---|
| position controller: `position_controller.c`, `position_controller_atomic.h`, `button.c` | motion and calibration state, direction, position, length of the track, planned pulses, error count; TIM2, TIM5, DMA1 channel 2 | calibrate, set position, emergency stop, reset; limit switch, pulse counter, DMA and button interrupts | four interrupt levels; the start and end of a movement must fit the pulses exactly; emergency stop in the middle of anything |
| client protocol: `client_communication_uart*.c` | one response buffer, two halves of a circular receive buffer, transmitting flag | receive half/full, transmit complete, realign (`resetUart`) | requests during a response, completion flags of earlier transfers, waiting inside an interrupt |
| consumer/producer buffer: `consumer_producer_buffer.h` | one word with two slot numbers | reset, choose slot, publish, take | lock-free between two priorities |
| line sensor measurements: `adc.c` | ADC state, two ADC buffers, calibration minima and maxima, measurement slots | timer, end of bank, collect, calibrate | preempted by the SPI handlers while it fills a slot |
| line sensor SPI slave: `spi.c`, `simple_tasks.c`, `status.c`, `watchdog.c` | command state machine, fillers sent, slot being sent, task slot, error flags | select, receive command, fillers, end of response, deselect; CRC task in the main loop | every handler may come between any two of the CRC task's accesses; hard deadlines |
| wireless client: `line_sensor_client.c` | active, receiving, transmitting and restart flags, current command | start, stop, query timer, receive and transmit completions, restart | two completions in either order; stop in the middle of a transfer |
| notifications: `p2p_server_app.c` | queue of three entries with 8-bit counters | publish (interrupt), notify (main loop) | the consumer is preempted by the producer |
| DetOS scheduler: `schedule_tasks.c` | ready list ordered by priority, four pointers into it | schedule, yield, suspend, finish | the pointers must follow every change of the list |
| data collector: `DataCollector.cs`, `PositionController.cs` | position, samples, semaphore, serial stream and its buffer | measure, move, poll; request with two timeouts | late, cut off and stale answers, callbacks after the last sample, polling that may never end |

They interact through narrow interfaces: the data collector's requests reach the
position controller through the UART; line sensor data go from ADC to SPI slave through
one consumer/producer buffer, over SPI to the wireless client, through a second buffer to
the notification task, and over Bluetooth to the collector's callback.

What makes each correct, in a line: the controller stops when told, knows where the
carriage is, and finishes what it begins; the protocol answers every request it accepts
and finds its frames again after noise; a buffer never hands out a slot in use, nor old data
as new; the slave sends a response and its CRC that belong together; the client never
leaves the slave selected or the command forgotten; the scheduler never loses a task; the
collector's loop ends. The hazards are listed with their lines in `PROJECT.json`.

## Modules

| module | of | stands for |
|---|---|---|
| `MotionSpec` | abstract | the state diagram of `position-controller/doc/state-diagram.docx`: five modes, motor power only in two of them |
| `PositionController` | detailed | the controller's handlers with timers, DMA, switches and carriage |
| `MCPositionController` | instance | small tracks for TLC |
| `PositionController_proofs` | proofs | type correctness, inductive invariant, emergency stop, refinement of `MotionSpec` |
| `PositionTracking_proofs` | proofs | position, count and carriage agree; nothing stops the controller but a stop |
| `ClientUart` | detailed | the controller's UART handlers, the lines, and a client that asks and gives up |
| `ClientUart_proofs` | proofs | inductive invariant, the client reads the answer to its request, responses are not rewritten |
| `LineSensorSpi` | detailed | the line sensor's SPI handlers, CRC task and task slot |
| `LineSensorClient` | detailed | the wireless interface's timer, DMA handlers and start and stop |
| `LineSensorLink` | composition | both of them and the wires between, with faults |
| `LineSensorLink_proofs` | proofs | inductive invariant of both boards and the line, accepted responses are fresh, the task writes into its own response |
| `NotificationQueue` | detailed | the queue from the client's handlers to the notification task |
| `NotificationQueue_proofs` | proofs | inductive invariant, held entry untouched, calls conserved, no older values |
| `DataCollector` | detailed | the collecting loop on the PC, its serial client, emergency stop and cancellation |
| `DataCollector_proofs` | proofs | inductive invariant, measurements are complete and filed where they were made |
| `DetOsScheduler` | detailed | the ready list of DetOS |
| `ConsumerProducerBuffer` | operators | the index word of `consumer_producer_buffer.h` |
| `ConsumerProducerBuffer_proofs` | proofs | what those operators give, for both buffers |
| `LatestValue` | abstract | an atomic register of several words: publish, take |
| `SensorValueBuffers` | detailed | the ADC handler and the SPI handlers over the three slots |
| `MCSensorValueBuffers` | instance | three words |
| `SensorValueBuffers_proofs` | proofs | inductive invariant, new data are newer, refinement of `LatestValue` |

### PositionController

A variable is a global of the program, a peripheral register, a local that outlives a
preemption point, or a part of the machine; the declarations name it. `h2`, `h3` and `h4`
are the program counters of the three interruptible levels of `interrupt_priorities.h`;
the emergency button, level 1, is one step. An action runs from one point where a more
urgent handler could be seen to the next: sections with interrupts masked are one action,
each unprotected read or write of shared data one. Two pairs of accesses are taken
together: the state and the power of the motor, always written under one mask; and in
`finishedRepositioning` the end of calibration with the entry into idle, between which only
an emergency stop can come, which the second then obeys as it would before both.

The hardware is modelled by what the code relies on and is marked external. TIM2's
update event is one pulse: TIM5 counts it, its compare flag is set when the count
*becomes* the compare value, and the DMA is asked for the next item of the profile. The forced update at
the start of a movement counts as the first. The motor steps when the pulse falls, so that
the pulse under way when a movement is stopped makes no step; this is why the code
compares with `pulseCount + 1` and subtracts one. A limit switch gives an interrupt when
its contact closes, at the end position at the latest before the next step, and within
`Chatter` steps of it may open and close at will. `LatchRequests` says what an update event does
when the channel is disabled: the reference manual leaves it open whether the request is kept.
The program works either way, with movements wrong by one pulse in different cases, which
it counts as errors; the runs check both.

`Prompt` is TRUE in the runs: the handlers finish between two edges of the pulse. The
shortest pulse in `global_data_timer.c` is 0.67 ms, the handlers take microseconds. The
theorems about stopping and about the state diagram hold without it, those about the position assume it.

Data are abstracted to what matters: a profile is its length, positions are steps,
2^32 is `Modulus`. `ErrorCap` saturates the error count, `CntBound` bounds the pulses of
one movement; both are above what any run's track needs, so neither hides a behaviour.

### ClientUart

A frame is one half of the circular receive buffer; it has no delimiter, so that a byte too
few or too many shifts all later frames. A byte is known by the request it belongs to and its place
there: a frame is good if it holds one request's bytes in order, which is what header and
CRC establish. A response is known by the request it answers, or is `Failure`. `ByteTime` moves one
byte on both lines and through both DMA channels; a byte may be lost, garbled, or added.
`shift` and `tdr` are the two registers a byte of a response passes: `resetUart` looks at the second only.

The receive handler clears a flag, processes the frame, and, when that
calls `resetUart`, waits, disables and initialises. It preempts the transmit handler between
any two of its statements. `AtTx` lets the transmit handler go on when no receive
interrupt is active or pending. Emergency stops change nothing on the line, so they are
requests like others; `MCMD_RESET` reboots.

The client is `ExecutePrebuiltCommand` of the data collector. It has one request under way. Its timeout of a
second is more than a hundred times a response, so `GiveUp` comes when the controller has gone quiet, and the read takes
the bytes there are with it. What the client makes of them is in `DataCollector`. All of the collector's requests, the emergency stop's among them, are made under one lock.

Either DMA channel may fail, which disables it and makes its handler call `resetUart`; `resetUart` is shared by both
handlers, and an action of it says by which. It waits for the transmit channel to have counted down, and a channel that has
failed or been disabled never does: `Stuck`. A failed transmit channel always ends there, as the handler that is
to recover from the failure waits for the rest of the failed transfer. If it is the transmit handler that waits, requests are still
received, but none is answered and `MCMD_RESET` is not obeyed, since `g_clientUartIsTransmitting` stays set. `Recovers` excludes
a wait of this kind only after a DMA failure; without one it says that there is none. The overrun flag of the UART is not modelled.

### SensorValueBuffers

A measurement is identified by its number, and each word copied remembers the measurement it
comes from, so that a torn measurement is visible. The producer copies its words in any
order and is preempted between any two. Handlers of the SPI slave have the higher priorities
0 to 2 and are single steps. The compare-and-swap is the weak one and may fail for no
reason. A response may be completed, or abandoned when the master deselects the slave.
`reported` is history: the data last sent in full and marked as new. Other status bits and the
CRC word of a slot are left out. The calibration buffers have the same structure and are not
modelled twice.

### LineSensorSpi, LineSensorClient, LineSensorLink

`LineSensorSpi` has the slave's globals and registers in one record, the handlers as functions of it, and
an action for each interrupt; a more urgent handler that is pending disables the less urgent ones.
The main loop's `runTasks` and `computeCommandCrc` are a step from each access of shared data to
the next: the pointer to the response is read (`LoadPointer`), its length
(`LoadLength`), its words are summed into the CRC unit, the command in hand is read and last, for the store,
the pointer again; then the slot is cleared twice. A `spiStop` that comes between the two first reads makes a
length of minus two, which runs off the memory; a store through null faults or is lost: both are the `fault`
that the watchdog ends with a restart. After it the status has a flag (`restarted`, set in `watchdog.c:20`) that nothing clears
but a loss of power: every response is an error from then on, and the master asks for the detailed status
after each. That is what `Recovers` promises then; values arrive again only without such a restart.

A response is known by what the master looks at: the command answered, new data, an error. Its halfwords carry
the response they are a part of, and the CRC the response it was computed from, so that any mixture is
visible and a CRC is right only over the parts it was computed from. The buffers of the responses keep their content, as in the code, so
that an old response with its old CRC may be lying there.

`LineSensorClient` is the master: `sendLineSensorCommand` starts both channels, the handlers end them in
either order, and `checkIfSpiCommunicationWasFinished` checks, passes on and chooses the next command.
`startQueryingLineSensor` and `stopQueryingLineSensor` are preempted after each of their stores.
`LineSensorLink` puts the two on a line: `Tick` carries a halfword each way, the select line's edge interrupts the slave. In one time
unit of the line the slave is done with its handlers; `Late` says when it is not, and being late is a
fault like a garbled halfword, an error of a channel, or a loss of power. A deselected slave stays off the line.

What the model showed beside its properties: if the *transmit* channel of the client fails in the
middle of a transfer, the clock stops, the receive channel never completes, and `line_sensor_client.c:390` waits
for it for ever; stopping and starting the queries does not help. `Recovers` excludes it (`cut`).

### NotificationQueue

The producer is the end of a transfer, an interrupt and so one step; the consumer is `p2pSendNotification` in the
main loop, one step per access of shared data, which is the opposite of `SensorValueBuffers`. The load and the
store of the index word are separate: a publication that falls between them is undone, and the slot it went to keeps its
calls. `Modulus` is 2 instead of 256, so that the 8-bit counter wraps within two calls. The word is never reset in this program:
it starts as zero, which says that slot 0 is filled and held. An entry's values are
abstracted to whether they are those of a publication chosen at will (`probe`), or later ones; the sum of all calls not handed over is
counted beside (`owed`). `p2pAppUpdateChar`'s result is ignored by the code: the calls of an update that fails are
gone, and count as handed over.

A CRC error counted into a slot whose last publication was undone finds older values there and sends them again, beside newer
ones sent before; the entry says so by its counters, so `NoOlderValues` is about entries published with values.

### DataCollector

The collector is one task with program counter `pc`; `CollectData`, `getLineSensorData`, `saveLineSensorDataToFile` and
`moveToNextPosition` are its stages. The controller, the radio and the user are modelled by what they may answer
and when; `Blurred` is a measurement taken while the carriage moved. `StrongEmergencyStop` keeps the lock over its three requests,
and compares statuses under `PC_OK_MASK`, so that a failed exchange (`NoAnswer`) reads as RESET.

The serial line is a queue of requests and one of answers, because an answer that comes after the timeout of a
second is not discarded: the next request reads it. `Late` bounds the requests that are outstanding when one is given
up. An exchange has two timeouts of a second, and either may come first (`TimedOut`): the token cancels the read and gives
CS_ERR_COMMUNICATION_TIMEOUT; the port's ReadTimeout ends it without an error, its number of bytes is ignored, and `response`, which
is never cleared, is decoded as it is, with the answer of the exchange before it, whose CRC is right, or partly overwritten.
An answer of which only a part has been read, and bytes added or lost, leave the stream out of step (`shifted`): reads of twelve bytes
straddle two answers and none is good, until a read ends with nothing more coming and takes the rest. So an
unanswered request puts the line into step again; but as long as all are answered nothing does. `missed` counts, up to two, the exchanges
without an answer.

What the properties except are limits of the program, each found by a counterexample when it is left out:

* with two missed exchanges an IDLE answered before the movement is read after it, late or out of the buffer, and a measurement taken while the
  carriage moves is filed (`PositionController.cs:346-355`): `FiledWhereMeasured` says `missed <= 1`, a condition on the state and not on the run;
* a notification still under way when the stop of the measurement has been acknowledged (`stragglers`) is taken into
  the next measurement as its first: the loop that "should purge all old events" (`DataCollector.cs:95-101`) tests a flag that is false at
  first. `FiledWhereMeasured` allows that one sample for each such notification and no other; the run has one;
* while the stream stays out of step polling goes on, without seeing that the controller has been stopped: `CollectionEnds` supposes that it
  does not (`<>[]~shifted`);
* after a reset, by the emergency stop's second attempt, positions start from 0 again and the loop has no end; an error of
  position, which the controller keeps, makes the polling endless (`CollectionEnds` excepts both);
* the status of the first `GetPosition` is ignored, so no fault comes before it;
* a movement off the track is refused, and asked for again for ever (`CollectorAssumption`).

Polling does not look at the cancellation token; a cancelled wait ends with the next notification or after ten minutes.
Builds for debugging wait without a limit.

### DetOsScheduler

One action per supervisor call and one for the timer's tick; they have one interrupt level. `Dispatch` is what
the assembly code does with a result, `Corrupted` its endless loop for negative ones. A call that falls off its end without
a result (`schedule_tasks.c:291`) leaves what is in the register: `YieldToLowerPriority` allows the next task, the
old one, and the endless loop. A walk along a list that has become circular is an endless loop too.
A root task that yields to another of its priority always ends in the error loop, as the root is left unchanged and running.

## Runs

| run | asks | instance | answer |
|---|---|---|---|
| `pc_chatter` | does everything end well, with contacts that chatter? | profile 2, track 14, chatter 1, targets 4 steps from the ends | position right to the chatter's width, errors bounded, no overtravel, no emergency stop, MAX searched forwards; every movement ends and calibration succeeds once the contacts are calm |
| `pc_disturbed` | what may any sequence of events do? | track 7, all inputs | inductive invariant, stopped is off, state diagram implemented |
| `pc_rest_chatter` | may a contact's edge upset a calibration that is being started? | carriage at rest next to MIN | **violated**: the search for MAX runs towards MIN |
| `pc_end_targets` | do the range tests of `setPosition` keep movements off the switches? | targets up to the ends | **violated**: an accepted movement closes a switch |
| `cu` | does the protocol survive bad lines, DMA errors and late handlers? | frame 3, 2 requests, 2 faults, 6 byte times late | answers in step, responses not overwritten (with bytes added: within a frame of delay), the client answered again |
| `cu_truncated` | is a response sent whole before the UART is realigned? | the same | **violated**: the last byte is dropped |
| `svb` | do three slots and one word suffice? | 3 words, 6 measurements | atomic register implemented, new data are newer |
| `link` | may a response be taken for another, or the line get stuck? | 2 faults, bodies of 2 and 1 halfwords | what is accepted was sent in this transfer, the task does not write into another response, values arrive again, or after a watchdog reset its status |
| `notify` | does a consumer that its producer preempts lose or mix anything? | counters modulo 2, 4 mishaps | held entry untouched, each call handed over once, no older values, values get sent |
| `collect` | is what is filed right, and does collecting end? | 2 positions filed, 2 samples, 1 fault, 1 answer outstanding, 1 straggler | complete, measured where it is filed, ends |
| `stop_pretended` | is an emergency stop that is reported one? | 3 faults | **violated**: three failed exchanges count as a stop |
| `detos_lost` | does the idle task run only when no task is left? | 3 slots, 3 priorities | **violated**: a task of higher priority is dropped |

With profile 2 and a constant-speed limit of 2, track 14 has client movements of all three
kinds (constant speed to 2 pulses, triangular to 4, trapezoidal above), of even and odd length,
and calibrations that start on either side of the middle. `PulseErrorBounded` allows a movement one pulse and the return from a
calibration two chatters more. Requests are not latched in the run (`LatchRequests` FALSE); the properties also hold with TRUE. Track 7 keeps the run with all
inputs small: its middle is reached by a triangular movement, all others from there. Six measurements exceed the
number of slots twice, so every slot is reused while another is held.

Frames of three bytes have a first, a middle and a last byte; two requests tell a response
from the one before. A reset asked for counts as a fault. `Delays` bounds the byte times that handlers are held off
in all; in `cu` they are two frames, because the section that starts a movement (`position_controller_atomic.h:70`, `:114`), which a
limit switch may run in the middle of these handlers, masks interrupts for a millisecond, some 23 byte times. The bound
matters, because `resetUart` leaves the flag of the transfer it has waited for. If the
transmit handler is held off until the next request is being answered, it takes the flag for the
end of that answer, disables its channel and clears `g_clientUartIsTransmitting` too early. Two properties have conditions for it:

* `ResponseKept`: with no byte but the client's on the line nothing rewrites a response, however late the handlers are. With bytes
  added (`extra`) it is stated for the first frame of delay; with two byte times more and two faults a further request overwrites the
  answer that is being sent, which a masked millisecond is long enough for.
* `Recovers`: with two faults it holds for the two frames of the run. With a third fault it holds for a frame of delay; with one byte
  time more a bad frame finds the channel disabled and the answer unfinished, and the receive handler waits for ever though no channel
  has failed. It asks for a transmission
  under way of the answer to the current request, again and again: the numbers of requests repeat, so that an old answer alone shows nothing.

In `link` a fault is anything a board may do to the other, and stops of the queries count as well: two of them
meet in one transfer, or one hits the recovery from the other. A body of values has two halfwords, a first and a last; of the fillers there are two as in the
code. In `notify` publications that come before the last has been stored, and updates that fail, are mishaps; between
them the consumer has 5 ms, as the query timer gives it. Four of them refill all three slots behind the consumer's back.
In `collect` two positions are measured at, and arriving at a third ends the loop. An exchange that stays without an
answer is no fault there: any number of them may follow each other as long as one answer is outstanding at most. The one fault is a
request, an answer, a read, a write, a file or a movement that goes wrong. `stop_pretended` has
three faults, which is one for each exchange of an attempt, and no late answer; with two faults `StopStops` holds.

The violations are disagreements of the code with its own comments; `PROJECT.json` quotes
them. `pc_rest_chatter` needs a carriage at rest where the contact may chatter; without
(`pc_chatter`) the same property holds. For `pc_end_targets` the remedy is the client's:
`pc_chatter` shows that targets off the ends are safe.

Deadlock is not checked for the position controller, which may come to rest for good
(idle with no request, or stopped), for `link`, where a failed transmit channel stops the line, for `collect`, which
ends, and for `detos_lost`, whose system may halt; it is checked for the buffers, the queue and for `ClientUart`, whose clients can always ask again.

**Fairness** in `pc_chatter`: the timers run while the motor is on, a contact settles once the
carriage is on or clearly off it, pending and active interrupt handlers are served, and a request that has been accepted
is carried through. These are properties of the processor and the machine. Requests, buttons
and disturbances are under no fairness; the liveness properties start when no contact opens any more (`Calm`). `CalibrationSucceeds` starts
when a search is under way, so that it says something of a second calibration too, and asks for a carriage at rest in the
middle of the track (`RestsInTheMiddle`): as near as ends that were found with chatter allow. In `cu`: the client goes on asking, as the collector's
polling does, bytes under way arrive, and handlers are served; faults are under none. In `link`: handlers, main loops, the
clock of a transfer and the query timer go on, and a new measurement is there again and again when values are asked for (strongly fair,
as the ADC measures whether the master asks or not). In `notify`: the main loop goes on; that values are published
again and again is a hypothesis of `ValuesGetSent`. In `collect`: requests are served, movements end, the collector's
task and an emergency stop once begun go on, notifications are delivered; the task's stage that waits for the radio is strongly
fair because notifications keep disabling and enabling it. The user, the button and faults are under none.

## Proofs

TLC checks the instances above; the theorems hold for every value of the constants under the
named assumption of each module, and these are bounds of the code (a profile that is not empty, a constant-speed limit
below twice the profile, frames and counters of some size) or bounds of the model, natural
numbers without an upper limit: every number of faults, delays, late answers and mishaps. The theorems about
the carriage's position have a hypothesis besides, which is explained below.
Each proof module has one inductive invariant, whose first part is the type invariant. Except for the buffers' and the
controller's `IInv`, which a run checks as well, it is stated there beside the theorems.

**Position controller.** `StoppedIsOff` is not inductive: a start may
follow it only if nothing still to be done by a half-finished handler turns anything on. `IInv` says, in
five parts, what each handler may assume when it goes on after a preemption: the motor is on in
busy states only and the DMA never once stopped (`MotorInv`); a calibration stage belongs to a
search that is under way or about to start (`StageInv`); a request being served was accepted by a
standing controller (`RequestInv`); the compare interrupt belongs to the movement that armed
it (`CompareInv`); what a level 3 handler decided on is still so, or the controller has
been stopped (`HandlerInv`). `InvStep` proves it action by action over lemmas about the masked
sections. The refinement maps the seven states and the calibration stage to the five modes of the diagram.

**Position of the carriage.** The theorems of `PositionTracking_proofs` are about `Spec` like the others, for every track, profile, chatter and
number of movements, but under a hypothesis on the constants, `Undisturbed`, that says when the position can be right:

* the handlers keep up with the pulses (`Prompt`), no contact chatters at rest, no DMA transfer fails, and there is no reset, which loses
  the position by intention. Button and stop requests may come at any time;
* the carriage is not on the MIN switch at power-up: a contact that is closed already gives no edge, and the
  search for MIN would run on to the end of the track;
* targets are at least `Chatter` + 3 steps from the ends of the recorded track: the position may be one pulse off, the
  movement one pulse too long, and within `Chatter` the switch may close. With one step less TLC finds a movement that closes one;
* the track is longer than six times the chatter and eight steps, so that the middle is clear of both switches after every
  correction, and than the profile (151 steps, `global_data_timer.h:5`) with twice the chatter. Otherwise the search for MAX
  may end while the profile is still running; the flag of its end, left over, then ends the return to the middle
  early, as TLC shows for a track of 14 and a profile of 14. The bounds are sufficient, not the smallest possible.

The constants of `pc_chatter` satisfy it. The invariant says for each stage where the carriage is. `SwitchInv`: a contact that is
closed, or whose interrupt is pending, has the carriage near. `StandingInv`: at rest the position is right (`Exact`), or will be when the
movement just ended is added to it. `ToMinInv`, `ToMaxInv`: a search goes towards its switch and the
interrupt is pending as soon as the contact is closed; on the way to MAX the count is the distance from MIN. `MoveInv`: position, count and
carriage add up, and what is left of the movement stays clear of the ends. `ReturnInv` is the hard one. When
MAX chatters under the returning carriage, `LimitCorrected` takes the count so far off the track and restarts it, while
the length of the way and the items of the profile stay those of the full count. So the invariant keeps the full count
(`\E full : Back(full)`) and follows the profile with the pulses that the correction has lost, `full - x`, which the chatter bounds.

`Profile(lost)` is the arithmetic of the handlers: for each of the four busy states, how count, compare value, items left in
the DMA channel and pulses planned add up at each point of a handler, whether or not an update event was latched. From it follow
that compare or transfer-complete interrupts come only when there is something to do, that a movement ends within a pulse of its plan
(`PulsesAsPlanned`), and that no branch of the handlers that stops the controller is taken (`NothingStopsIt`). TLC
has checked the invariant on several tracks, profiles and chatters before it was proved.

**Buffers.** `FillingInv` says that the slot being filled is neither the published nor the held one
and that the producer's copy of the word is good if the word has not changed; `OrderInv` that measurements are published and
taken in order; `FreshInv` that the new-data mark of the held slot is of data not yet
reported. From these follow that every step of the handlers is a publication, a taking or
neither of the abstract register, for any number of words and measurements. `FreeSlot`, the pigeonhole argument for the
slots, is a lemma of `ConsumerProducerBuffer_proofs`, as the queue of notifications rests on it too.

**Notifications.** Here the consumer's load and store are apart, so that a publication between them is undone. `HeldInv`
says that from the store on the held slot is in the word, whatever has been published since,
so that the producer avoids it: that is all `HeldEntryUntouched` needs, and `CallsConserved` follows
because a call is added to an entry that is not being zeroed. `NoOlderValues` needs what may *become* the latest: `ProbeInv` says that once the probe
was sent neither the published entry nor the loaded one has values from before it. It is an action property, proved from
the invariant and the one step that hands an update over.

**Serial line.** `AnswerInStep` is about what the client reads, a frame's length after the handlers have
decided. `TurnInv` says that a request and its response take turns: while a frame is complete or will be, there is only one, the client
waits, and no byte of a response is in the queue, the two registers or the buffer; `FlightInv` bounds the bytes of
responses on their way by a frame; `OwnInv` says whose bytes a complete frame ends with; `ResponseInv` what is on
its way. The invariant leaves out two states: bytes have been added to the line (`extra`, as in the property), and
the receive handler waits for a transfer that was stopped (`Dead`), after which nothing is received. A garbled or lost byte needs no exception.

From the same invariant follows `OwnResponsesKept`: if nothing is received that the client did not send, no response is rewritten while
it is being sent, however long handlers are held off, as the client does not ask again before. With added bytes `ResponseKept`
depends on how long the handlers are held off, and is left to TLC.

**SPI line.** The two boards share nothing but the line, so that the argument is about positions in a transfer. `Consistent` is the
slave's part: where its channel is relative to the halfword in the transmit register. `ClientInv` is the client's: which flags belong
to a transfer under way, and that without an error one is over only when the last halfword has come.
`BegunInv` and `FirstInv` join them: if the first halfword received is the first part of a response, it
was begun in this transfer, and what comes next is its second part or CRC, or is visibly wrong; a response that a restarted slave
begins in the middle comes too late to be completed. `GotInv` carries that over to what is passed on. A
slave that is late, a garbled halfword, a watchdog reset or a loss of power are steps like others, so that it holds for any number of them.
`TaskInv` has the slot taken from the task's first access to its last, so that no handler changes what it points to, except
to nothing.

**Data collector.** `MeasurementComplete` rests on `SampleInv`: the semaphore is released, and the wait ends well, only
when there are enough samples, and none is added afterwards. `ExchangeInv` bounds requests and answers on the serial line by those
that may be outstanding and the one waited for; with `MachineInv` (the controller knows where the carriage is until it is reset, and a movement ends
at its target) the types are inductive.

`FiledInPlace` has no hypothesis on the constants: the limits of the property are in its statement. The second invariant, `PlaceInv`, holds
as long as the controller knows where the carriage is and fewer than two exchanges have been missed, and follows one movement. No
more is outstanding than has been missed (`MissedInv`). Between movements the carriage stands where the collector
thinks it does (`RestInv`). A request to move has an answer before it that is not its own only if one was missed (`MoveInv`), and
the code takes whatever comes next for its answer. When it then polls for the position, an answer that says idle was given after the
movement, with no request to move left on the wire; if nothing has been missed, the same is true of the one in the buffer, which a
read that is the first to be missed may decode again (`PollInv`). So
nothing is measured during a movement, and what is on the air is of this place, or a straggler that comes before the first sample
(`AirInv`); the samples of a position are from there from the stragglers' number on (`MeasuredInv`), and
the file has its name (`FiledInv`). Faults of the line, of any number, only take answers away or spoil them.

What an assumption of the model carries, and the theorems therefore do not state, is checked by TLC only, on the bounds of its run:

* `ResponseKept` when bytes have been added, for two faults and a frame of delay (run `cu`): false with some more of either;
* all liveness properties, which need fairness and ENABLED;
* `DetOsScheduler`, whose property is violated.

## Plan

Done: every component that keeps state of its own has a module; all but the scheduler have an inductive invariant
that is proved; `PositionController` refines `MotionSpec`, and `SensorValueBuffers` refines `LatestValue`.

All safety invariants and action properties that the passing runs check are theorems, but for `ResponseKept`, of which the
case without added bytes is one. Still to be done: its other case, and what the scheduler guarantees as long as no task of higher priority is dropped.

## Not modelled

* Boot, clocks, LEDs, fault handlers: register writes made once, or loops that never return.
* Calibration of the line sensor: its commands are sent by no program of the repository; the buffers
  have the structure of `SensorValueBuffers`.
* The values of the controller's answers (`OK_*`, `ERR_*`, position): the wire and the commands are modelled apart. The status that
  a request for zero steps reports (`client_communication_uart.c:67`) is uninitialised.
* `rolling_values.c`, `math_utils.h`, `decodeCommand`: sequential functions; the first has tests.
* The user interface beside cancellation and emergency stop, device discovery, `StrongReset`, which is
  `StrongEmergencyStop` without its first request.
* The Bluetooth stack and device libraries, which are vendored; board designs and sensor modelling.
  Of the repository's lines of code nearly all belong to these libraries, most to the register headers under
  `common/lib-stm32*`, which hold no state or algorithm; the models stand for the project's own code.
