-------------------------- MODULE PositionController --------------------------
(***************************************************************************)
(* The stepper-motor position controller (position_controller.c and        *)
(* position_controller_atomic.h) together with the hardware it drives: the *)
(* pulse timer TIM2, the pulse counter TIM5, the DMA channel that feeds    *)
(* TIM2 its acceleration profile, the two limit switches and the carriage. *)
(*                                                                         *)
(* The program is a set of interrupt handlers (interrupt_priorities.h):    *)
(*   level 1  emergency button            EXTI15_10_IRQHandler             *)
(*   level 2  limit switches              EXTI1/EXTI3_IRQHandler           *)
(*   level 3  pulse counter and DMA       TIM5/DMA1_Channel2_IRQHandler    *)
(*   level 4  client request              setPosition, calibrate..., stop  *)
(* A handler is preempted only by a lower level, between any two of its    *)
(* accesses to shared data; a section run with interrupts masked is one    *)
(* step.  h2, h3 and h4 say where each level's handler stands.             *)
(***************************************************************************)
EXTENDS Integers

CONSTANTS
  Steps,          \* DMA_TIMER_STEPS_COUNT: pulses in the acceleration profile
  MaxConst,       \* MAX_PULSES_AT_CONSTANT_SPEED
  Track,          \* steps between the points where the two switches close
  Starts,         \* carriage positions at power-up
  Chatter,        \* steps from a switch within which its contact may chatter
  Margin,         \* how far from the ends the client's targets stay
  Modulus,        \* stands for 2^32, the range of the unsigned counters
  CntBound,       \* bound on the pulses counted in one movement
  ErrorCap,       \* the pulse error count saturates here
  Prompt,         \* TRUE: handlers finish between two edges of the pulse signal
  LatchRequests,  \* TRUE: a timer update met by a disabled DMA channel stays requested
  Inputs          \* which of AllInputs the environment may produce

AllInputs == {"button", "stopCommand", "reset", "calibrate", "move",
              "transferError", "restChatter"}

ASSUME ConstantsAssumption ==
  /\ Steps \in Nat \ {0}
  /\ MaxConst \in Nat /\ MaxConst < 2 * Steps
  /\ Track \in Nat \ {0}
  /\ Starts \subseteq 0 .. Track
  /\ Chatter \in Nat /\ Margin \in Nat /\ ErrorCap \in Nat
  /\ CntBound \in Nat \ {0} /\ Modulus \in Nat /\ CntBound < Modulus
  /\ Prompt \in BOOLEAN /\ LatchRequests \in BOOLEAN
  /\ Inputs \subseteq AllInputs

VARIABLES
  \* global_data.c
  xState,      \* g_positionControllerXState
  calib,       \* g_positionControllerCalibratingState
  direction,   \* g_positionControllerXDirection, and the direction pin PA6
  x,           \* g_positionControllerX
  xMax,        \* g_positionControllerXMaxValue
  planned,     \* g_positionControllerXPlannedPulseCount
  errors,      \* g_positionControllerXPulseErrorCount, up to ErrorCap
  slowDown,    \* g_slowDownPulseCount
  \* peripherals
  motorOn,     \* driver enabled, TIM2 and TIM5 running: always written together
  phase,       \* level of the pulse signal; the motor steps as it falls
  tim5,        \* pulse counter: count, compare value, CC1 flag and its enable
  dma,         \* channel enable, items left, complete and error flags, latched request
  \* the machine
  pos,         \* where the carriage is; the switches close at 0 and Track
  closed,      \* the limit switches whose contact is closed
  exti,        \* the limit switches with a pending interrupt
  \* the processor
  h2, h3, h4,  \* where the handler of each level stands, "none" when not active
  caller,      \* which of the two level 3 handlers is active
  st,          \* its local copy of xState
  actual,      \* its local actualPulsesProduced
  cmd          \* the movement the level 4 handler is about to start

drive == <<xState, motorOn, phase, dma>>
figures == <<x, xMax, planned, errors, slowDown>>
machine == <<pos, closed>>
level3 == <<h3, caller, st, actual>>
level4 == <<h4, cmd>>
vars == <<xState, calib, direction, figures, motorOn, phase, tim5, dma,
          machine, exti, h2, level3, level4>>

Directions == {"FORWARD", "BACKWARD"}
Switches == {"MIN", "MAX"}
Busy == {"ACCELERATING", "ACCELERATING_AND_CONSTANT", "SLOWING_DOWN", "CONSTANT"}
States == Busy \cup {"RESET", "IDLE", "EMERGENCY_STOPPED"}

TimerStates == [cnt : 0 .. CntBound, ccr : Nat, cc1 : BOOLEAN, ie : BOOLEAN]
DmaStates == [on : BOOLEAN, left : Nat, tc : BOOLEAN, te : BOOLEAN, req : BOOLEAN]

TypeOK ==
  /\ xState \in States
  /\ calib \in {"NONE", "MIN", "MAX", "CORRECT_MAX"}
  /\ direction \in Directions \cup {"NONE"}
  /\ x \in 0 .. Modulus - 1 /\ xMax \in 0 .. Modulus - 1
  /\ planned \in Nat /\ slowDown \in Nat /\ errors \in 0 .. ErrorCap
  /\ motorOn \in BOOLEAN
  /\ phase \in {"low", "high"}
  /\ tim5 \in TimerStates
  /\ dma \in DmaStates
  /\ pos \in -1 .. Track + 1
  /\ closed \subseteq Switches /\ exti \subseteq Switches
  /\ h2 \in {"none", "toMax", "toMiddle"}
  /\ h3 \in {"none", "cc1", "cc1Again", "slow", "stop", "cc1End", "te", "tc", "tcState",
             "count", "halt", "state", "settle", "update"}
  /\ h4 \in {"none", "calibrate", "turn", "go", "move"}
  /\ caller \in {"TIM5", "DMA"}
  /\ st \in States
  /\ actual \in 0 .. Modulus - 1
  /\ cmd \in [dir : Directions, n : 0 .. Modulus - 1]

Wrap(n) == IF n < 0 THEN n + Modulus ELSE n     \* unsigned subtraction
Saturate(n) == IF n > ErrorCap THEN ErrorCap ELSE n
Distance(a, b) == IF a > b THEN a - b ELSE b - a

-----------------------------------------------------------------------------
(* Power-up: main.c and initializePositionController; PA7 is set, so the    *)
(* motor driver is disabled.                                                *)

TimerAtBoot == [cnt |-> 0, ccr |-> 0, cc1 |-> FALSE, ie |-> FALSE]
DmaAtBoot == [on |-> FALSE, left |-> 0, tc |-> FALSE, te |-> FALSE, req |-> FALSE]
NoCommand == [dir |-> "FORWARD", n |-> 0]

\* Contacts the carriage holds closed, and those it may close.
Held(p) == {s \in Switches : (s = "MIN" /\ p <= 0) \/ (s = "MAX" /\ p >= Track)}
Near(p) == {s \in Switches : (s = "MIN" /\ p <= Chatter)
                               \/ (s = "MAX" /\ p >= Track - Chatter)}

Init ==
  /\ xState = "RESET" /\ calib = "NONE" /\ direction = "NONE"
  /\ x = 0 /\ xMax = 0 /\ planned = 0 /\ errors = 0 /\ slowDown = 0
  /\ motorOn = FALSE /\ phase = "low"
  /\ tim5 = TimerAtBoot /\ dma = DmaAtBoot
  /\ exti = {} /\ h2 = "none"
  /\ h3 = "none" /\ caller = "DMA" /\ st = "RESET" /\ actual = 0
  /\ h4 = "none" /\ cmd = NoCommand
  /\ pos \in Starts /\ closed = Held(pos)

-----------------------------------------------------------------------------
(* What the peripherals do.                                                 *)

\* One DMA request: an item moved, or a request that waits for the channel.
Serve(d) ==
  IF d.on /\ d.left > 0
  THEN [d EXCEPT !.left = @ - 1, !.tc = @ \/ d.left = 1]
  ELSE [d EXCEPT !.req = LatchRequests]

\* SetDataLength and EnableChannel; the length of an enabled channel is read-only.
Arm(d, n) ==
  LET e == [d EXCEPT !.on = TRUE, !.left = n, !.req = FALSE]
  IN  IF d.on THEN d ELSE IF d.req THEN Serve(e) ELSE e

Channel(d, on) == [d EXCEPT !.on = on]

\* One update event of TIM2, counted by TIM5.
CountPulse(t) == [t EXCEPT !.cnt = @ + 1, !.cc1 = @ \/ t.cnt + 1 = t.ccr]

\* A deviation for the mutation runs: the pulse in progress allowed for twice.
ArmCompareLate(t, n) == [t EXCEPT !.cc1 = FALSE, !.ie = TRUE, !.ccr = n + 1]

\* ClearFlag_CC1, EnableIT_CC1 and SetCompareCH1.
ArmCompare(t, n) == [t EXCEPT !.cc1 = FALSE, !.ie = TRUE, !.ccr = n]

\* No handler of level 1 to 3 is running or about to run.
Quiet ==
  /\ h2 = "none" /\ h3 = "none" /\ exti = {}
  /\ ~(tim5.cc1 /\ tim5.ie) /\ ~dma.tc /\ ~dma.te

\* The pulse signal rises: TIM5 counts and TIM2 asks the DMA for the next step.
Rise ==
  /\ motorOn /\ phase = "low" /\ tim5.cnt < CntBound
  /\ Prompt => Quiet
  /\ phase' = "high"
  /\ tim5' = CountPulse(tim5)
  /\ \/ dma' = Serve(dma)
     \/ /\ "transferError" \in Inputs /\ dma.on /\ dma.left > 0
        /\ dma' = [dma EXCEPT !.on = FALSE, !.te = TRUE]
  /\ UNCHANGED <<xState, calib, direction, figures, motorOn, machine, exti, h2,
                 level3, level4>>

\* It falls: the motor makes its step, unless the carriage is against an end.
Fall ==
  /\ motorOn /\ phase = "high"
  /\ Prompt => Quiet
  /\ Held(pos) \subseteq closed /\ closed \subseteq Near(pos)
  /\ phase' = "low"
  /\ pos' = IF direction = "FORWARD" THEN (IF pos > Track THEN pos ELSE pos + 1)
            ELSE (IF pos < 0 THEN pos ELSE pos - 1)
  /\ UNCHANGED <<xState, calib, direction, figures, motorOn, tim5, dma, closed, exti,
                 h2, level3, level4>>

\* A contact closes (a falling edge, so an interrupt) or opens, some time after
\* the step that moved the carriage on or off it, or in its chatter.
SwitchCloses(s) ==
  /\ s \notin closed /\ s \in Near(pos)
  /\ s \in Held(pos) \/ motorOn \/ "restChatter" \in Inputs
  /\ closed' = closed \cup {s}
  /\ exti' = exti \cup {s}
  /\ UNCHANGED <<drive, calib, direction, figures, tim5, pos, h2, level3, level4>>

SwitchOpens(s) ==
  /\ s \in closed /\ s \notin Held(pos)
  /\ closed' = closed \ {s}
  /\ UNCHANGED <<drive, calib, direction, figures, tim5, pos, exti, h2, level3, level4>>

-----------------------------------------------------------------------------
(* Sections run with interrupts masked (position_controller_atomic.h).      *)
(* Each decides xState', motorOn', phase', dma' and, where named, tim5'.    *)

PowerOff ==
  /\ motorOn' = FALSE
  /\ phase' = "low"
  /\ dma' = Channel(dma, FALSE)

\* Deviations: an emergency stop that leaves the DMA channel enabled; a start that
\* does not look for an emergency stop.
EmergencyStopKeepsDma ==
  /\ xState' = "EMERGENCY_STOPPED" /\ motorOn' = FALSE /\ phase' = "low"
  /\ UNCHANGED dma

positionControllerEmergencyStop == PowerOff /\ xState' = "EMERGENCY_STOPPED"

Stop_Atomic ==
  IF xState = "EMERGENCY_STOPPED" THEN UNCHANGED drive ELSE PowerOff /\ UNCHANGED xState

StartUnchecked(desiredState, d, t) ==
  /\ xState' = desiredState /\ motorOn' = TRUE /\ phase' = "high"
  /\ dma' = Serve(d)
  /\ tim5' = CountPulse([t EXCEPT !.cnt = 0])

Start(desiredState, d, t) ==
  IF xState = "EMERGENCY_STOPPED" THEN UNCHANGED drive /\ tim5' = t
  ELSE /\ xState' = desiredState
       /\ motorOn' = TRUE
       /\ phase' = "high"
       /\ dma' = Serve(d)
       /\ tim5' = CountPulse([t EXCEPT !.cnt = 0])

MoveAtConstantSpeed_Atomic(desiredState, t) == Start(desiredState, dma, t)

MoveWithAcceleration_Atomic(desiredState, stepsCount, t) ==
  Start(desiredState, Arm(dma, stepsCount), t)

startSlowingDown_Atomic ==
  IF xState = "EMERGENCY_STOPPED" THEN UNCHANGED drive
  ELSE /\ xState' = "SLOWING_DOWN"
       /\ dma' = Arm(dma, slowDown + 1)
       /\ UNCHANGED <<motorOn, phase>>

MoveUntilLimitSwitchTriggers(t) ==
  MoveWithAcceleration_Atomic("ACCELERATING_AND_CONSTANT", Steps, t)

positionControllerMove(dir, n) ==
  /\ direction' = dir
  /\ planned' = n
  /\ \/ /\ n <= MaxConst
        /\ UNCHANGED slowDown
        /\ MoveAtConstantSpeed_Atomic("CONSTANT", ArmCompare(tim5, n + 1))
     \/ /\ n > MaxConst /\ n <= 2 * Steps
        /\ slowDown' = n - (n + 1) \div 2
        /\ MoveWithAcceleration_Atomic("ACCELERATING", (n + 1) \div 2, tim5)
     \/ /\ n > 2 * Steps
        /\ slowDown' = Steps
        /\ MoveWithAcceleration_Atomic("ACCELERATING_AND_CONSTANT", Steps,
                                       ArmCompare(tim5, n - Steps + 1))

-----------------------------------------------------------------------------
(* Level 1: the emergency button.                                           *)

EmergencyButton ==
  /\ "button" \in Inputs
  /\ positionControllerEmergencyStop
  /\ UNCHANGED <<calib, direction, figures, tim5, machine, exti, h2, level3, level4>>

-----------------------------------------------------------------------------
(* Level 2: positionControllerLimitStop.  Only the button preempts it, so   *)
(* the steps that matter are those on either side of a masked section.      *)

LimitEnter(s) ==
  /\ h2 = "none" /\ s \in exti
  /\ exti' = exti \ {s}

\* The switch being searched for: stop, then go on with the calibration.
LimitReached(s) ==
  /\ LimitEnter(s)
  /\ \/ calib = "MIN" /\ s = "MIN"
     \/ calib = "MAX" /\ s = "MAX"
  /\ xState # "EMERGENCY_STOPPED"
  /\ Stop_Atomic
  /\ h2' = IF s = "MIN" THEN "toMax" ELSE "toMiddle"
  /\ UNCHANGED <<calib, direction, figures, tim5, machine, level3, level4>>

\* A switch the carriage is moving away from; near MIN the count starts again.
LimitIgnored(s) ==
  /\ LimitEnter(s)
  /\ \/ calib = "MIN" /\ s = "MAX" /\ UNCHANGED tim5
     \/ calib = "MAX" /\ s = "MIN" /\ tim5' = [tim5 EXCEPT !.cnt = 0]
  /\ UNCHANGED <<drive, calib, direction, figures, machine, h2, level3, level4>>

\* MAX again while backing off it: the end of the track is nearer than recorded.
LimitCorrected(s) ==
  /\ LimitEnter(s)
  /\ calib = "CORRECT_MAX" /\ s = "MAX" /\ tim5.cnt <= xMax
  /\ xMax' = xMax - tim5.cnt
  /\ x' = Wrap(x - tim5.cnt)
  /\ tim5' = [tim5 EXCEPT !.cnt = 0]
  /\ UNCHANGED <<drive, calib, direction, planned, errors, slowDown, machine, h2,
                 level3, level4>>

\* Any other switch, or one that found the controller stopped already.
LimitUnexpected(s) ==
  /\ LimitEnter(s)
  /\ \/ /\ ~ \/ calib = "MIN"
             \/ calib = "MAX"
             \/ calib = "CORRECT_MAX" /\ s = "MAX"
        /\ UNCHANGED tim5
     \/ /\ (calib = "MIN" /\ s = "MIN") \/ (calib = "MAX" /\ s = "MAX")
        /\ xState = "EMERGENCY_STOPPED"
        /\ UNCHANGED tim5
     \/ /\ calib = "CORRECT_MAX" /\ s = "MAX" /\ tim5.cnt > xMax
        /\ tim5' = [tim5 EXCEPT !.cnt = 0]
  /\ positionControllerEmergencyStop
  /\ UNCHANGED <<calib, direction, figures, machine, h2, level3, level4>>

\* Deviation: the search for MAX starts before the direction is turned.
LimitToMaxSameWay ==
  /\ h2 = "toMax"
  /\ calib' = "MAX"
  /\ MoveUntilLimitSwitchTriggers([tim5 EXCEPT !.cnt = 0])
  /\ h2' = "none"
  /\ UNCHANGED <<direction, figures, machine, exti, level3, level4>>

\* Zero is here: search for the other switch.
LimitToMax ==
  /\ h2 = "toMax"
  /\ calib' = "MAX"
  /\ direction' = "FORWARD"
  /\ MoveUntilLimitSwitchTriggers([tim5 EXCEPT !.cnt = 0])
  /\ h2' = "none"
  /\ UNCHANGED <<figures, machine, exti, level3, level4>>

\* The length of the track is the count: back off to its middle.
LimitToMiddle ==
  /\ h2 = "toMiddle"
  /\ xMax' = tim5.cnt
  /\ x' = tim5.cnt
  /\ calib' = "CORRECT_MAX"
  /\ positionControllerMove("BACKWARD", tim5.cnt \div 2)
  /\ h2' = "none"
  /\ UNCHANGED <<errors, machine, exti, level3, level4>>

LimitSwitch ==
  \/ \E s \in Switches : \/ LimitReached(s) \/ LimitIgnored(s)
                         \/ LimitCorrected(s) \/ LimitUnexpected(s)
  \/ LimitToMax
  \/ LimitToMiddle

-----------------------------------------------------------------------------
(* Level 3: TIM5_IRQHandler and DMA1_Channel2_IRQHandler, which do not      *)
(* preempt each other, and finishedRepositioning, which both call.          *)

At3(here) == h3 = here /\ h2 = "none"

Goto3(there) == h3' = there /\ UNCHANGED <<caller, st, actual>>

\* Back from startSlowingDown_Atomic, finishedRepositioning or an emergency stop.
Return3 == IF caller = "TIM5" THEN "cc1End" ELSE "none"

Cc1Enter ==
  /\ At3("none")
  /\ tim5.cc1 /\ tim5.ie
  /\ h3' = "cc1" /\ caller' = "TIM5"
  /\ UNCHANGED <<drive, calib, direction, figures, tim5, machine, exti, h2, st, actual,
                 level4>>

\* The handler reads xState once or twice.
Cc1Dispatch ==
  /\ \/ /\ At3("cc1")
        /\ Goto3(IF xState = "ACCELERATING_AND_CONSTANT" THEN "slow" ELSE "cc1Again")
     \/ /\ At3("cc1Again")
        /\ Goto3(IF xState = "CONSTANT" THEN "count" ELSE "stop")
  /\ UNCHANGED <<drive, calib, direction, figures, tim5, machine, exti, h2, level4>>

\* Deviation: the compare interrupt stays enabled.
Cc1EndKeepsInterrupt ==
  /\ At3("cc1End")
  /\ tim5' = [tim5 EXCEPT !.cc1 = FALSE]
  /\ Goto3("none")
  /\ UNCHANGED <<drive, calib, direction, figures, machine, exti, h2, level4>>

Cc1End ==
  /\ At3("cc1End")
  /\ tim5' = [tim5 EXCEPT !.cc1 = FALSE, !.ie = FALSE]
  /\ Goto3("none")
  /\ UNCHANGED <<drive, calib, direction, figures, machine, exti, h2, level4>>

\* The flag is tested and cleared here, the channel disabled in the next step.
DmaEnter ==
  /\ At3("none")
  /\ \/ dma.te /\ dma' = [dma EXCEPT !.te = FALSE] /\ h3' = "te"
     \/ ~dma.te /\ dma.tc /\ dma' = [dma EXCEPT !.tc = FALSE] /\ h3' = "tc"
  /\ caller' = "DMA"
  /\ UNCHANGED <<xState, motorOn, phase, calib, direction, figures, tim5, machine, exti,
                 h2, st, actual, level4>>

DmaDisable ==
  /\ \/ At3("te") /\ Goto3("stop")
     \/ At3("tc") /\ Goto3("tcState")
  /\ dma' = Channel(dma, FALSE)
  /\ UNCHANGED <<xState, motorOn, phase, calib, direction, figures, tim5, machine, exti,
                 h2, level4>>

\* Deviation: the end of the acceleration of a long movement taken for an error.
DmaDispatchStrict ==
  /\ At3("tcState")
  /\ Goto3(CASE xState = "SLOWING_DOWN" -> "count"
             [] xState = "ACCELERATING" -> "slow"
             [] OTHER -> "stop")
  /\ UNCHANGED <<drive, calib, direction, figures, tim5, machine, exti, h2, level4>>

DmaDispatch ==
  /\ At3("tcState")
  /\ Goto3(CASE xState = "SLOWING_DOWN" -> "count"
             [] xState = "ACCELERATING" -> "slow"
             [] xState = "ACCELERATING_AND_CONSTANT" -> "none"
             [] OTHER -> "stop")
  /\ UNCHANGED <<drive, calib, direction, figures, tim5, machine, exti, h2, level4>>

SlowDown ==
  /\ At3("slow")
  /\ startSlowingDown_Atomic
  /\ Goto3(Return3)
  /\ UNCHANGED <<calib, direction, figures, tim5, machine, exti, h2, level4>>

Stop3 ==
  /\ At3("stop")
  /\ positionControllerEmergencyStop
  /\ Goto3(Return3)
  /\ UNCHANGED <<calib, direction, figures, tim5, machine, exti, h2, level4>>

\* Deviation: the pulse in progress counted as a step.
FinishCountAll ==
  /\ At3("count")
  /\ actual' = tim5.cnt
  /\ h3' = "halt"
  /\ UNCHANGED <<drive, calib, direction, figures, tim5, machine, exti, h2, caller, st,
                 level4>>

\* finishedRepositioning: the last pulse counted has not made its step.
FinishCount ==
  /\ At3("count")
  /\ actual' = Wrap(tim5.cnt - 1)
  /\ h3' = "halt"
  /\ UNCHANGED <<drive, calib, direction, figures, tim5, machine, exti, h2, caller, st,
                 level4>>

FinishHalt ==
  /\ At3("halt")
  /\ Stop_Atomic
  /\ Goto3(IF xState = "EMERGENCY_STOPPED" THEN Return3 ELSE "state")
  /\ UNCHANGED <<calib, direction, figures, tim5, machine, exti, h2, level4>>

FinishState ==
  /\ At3("state")
  /\ st' = xState
  /\ h3' = "settle"
  /\ UNCHANGED <<drive, calib, direction, figures, tim5, machine, exti, h2, caller,
                 actual, level4>>

\* Deviation: idle entered only if calibration was over beforehand.
FinishSettleLate ==
  /\ At3("settle")
  /\ calib' = IF calib = "CORRECT_MAX" THEN "NONE" ELSE calib
  /\ IF calib = "NONE" /\ xState # "EMERGENCY_STOPPED"
     THEN xState' = "IDLE" /\ UNCHANGED <<motorOn, phase, dma>>
     ELSE UNCHANGED drive
  /\ Goto3("update")
  /\ UNCHANGED <<direction, figures, tim5, machine, exti, h2, level4>>

\* Calibration ends, and with it the movement.  Between the two writes only an
\* emergency stop is possible, so they are one step.
FinishSettle ==
  /\ At3("settle")
  /\ calib' = IF calib = "CORRECT_MAX" THEN "NONE" ELSE calib
  /\ \/ /\ st \in {"SLOWING_DOWN", "CONSTANT"} /\ calib' = "NONE"
        /\ xState # "EMERGENCY_STOPPED"
        /\ xState' = "IDLE"
        /\ UNCHANGED <<motorOn, phase, dma>>
        /\ Goto3("update")
     \/ /\ st \in {"SLOWING_DOWN", "CONSTANT"} /\ calib' = "NONE"
        /\ xState = "EMERGENCY_STOPPED"
        /\ UNCHANGED drive
        /\ Goto3(Return3)
     \/ /\ st \in {"SLOWING_DOWN", "CONSTANT"} /\ calib' # "NONE"
        /\ UNCHANGED drive
        /\ Goto3("update")
     \/ /\ st \notin {"SLOWING_DOWN", "CONSTANT"}
        /\ positionControllerEmergencyStop
        /\ Goto3(Return3)
  /\ UNCHANGED <<direction, figures, tim5, machine, exti, h2, level4>>

FinishUpdate ==
  /\ At3("update")
  /\ errors' = IF direction = "NONE" THEN errors
               ELSE Saturate(errors + Distance(actual, planned))
  /\ \/ /\ direction = "FORWARD" /\ actual <= xMax /\ x <= xMax - actual
        /\ x' = x + actual
        /\ UNCHANGED drive
     \/ /\ direction = "BACKWARD" /\ actual <= x
        /\ x' = x - actual
        /\ UNCHANGED drive
     \/ /\ direction = "FORWARD" => ~(actual <= xMax /\ x <= xMax - actual)
        /\ direction = "BACKWARD" => actual > x
        /\ positionControllerEmergencyStop
        /\ UNCHANGED x
  /\ Goto3(Return3)
  /\ UNCHANGED <<calib, direction, xMax, planned, slowDown, tim5, machine, exti, h2,
                 level4>>

PulseHandlers ==
  \/ Cc1Enter \/ Cc1Dispatch \/ Cc1End
  \/ DmaEnter \/ DmaDisable \/ DmaDispatch
  \/ SlowDown \/ Stop3
  \/ FinishCount \/ FinishHalt \/ FinishState \/ FinishSettle \/ FinishUpdate

-----------------------------------------------------------------------------
(* Level 4: what a client request does to the controller.  A request that   *)
(* is refused changes nothing and is not a step.                            *)

At4(here) == h4 = here /\ h3 = "none" /\ h2 = "none"

Calibrate ==
  /\ "calibrate" \in Inputs
  /\ At4("none")
  /\ xState \in {"RESET", "IDLE"}
  /\ h4' = "calibrate"
  /\ UNCHANGED <<drive, calib, direction, figures, tim5, machine, exti, h2, level3, cmd>>

CalibrateMark ==
  /\ At4("calibrate")
  /\ calib' = "MIN"
  /\ h4' = "turn"
  /\ UNCHANGED <<drive, direction, figures, tim5, machine, exti, h2, level3, cmd>>

CalibrateTurn ==
  /\ At4("turn")
  /\ direction' = "BACKWARD"
  /\ h4' = "go"
  /\ UNCHANGED <<drive, calib, figures, tim5, machine, exti, h2, level3, cmd>>

CalibrateGo ==
  /\ At4("go")
  /\ MoveUntilLimitSwitchTriggers(tim5)
  /\ h4' = "none"
  /\ UNCHANGED <<calib, direction, figures, machine, exti, h2, level3, cmd>>

\* The test setPosition makes of a request.
InRange(dir, n) ==
  IF dir = "FORWARD" THEN n <= xMax /\ x <= xMax - n ELSE n <= x

\* Targets the client of this instance asks for: any, or those Margin from the ends.
Asked(dir, n) ==
  Margin > 0 => IF dir = "FORWARD" THEN x + n + Margin <= xMax ELSE n + Margin <= x

setPosition(dir, n) ==
  /\ "move" \in Inputs /\ Asked(dir, n)
  /\ At4("none")
  /\ xState = "IDLE"
  /\ n > 0 /\ InRange(dir, n)
  /\ h4' = "move"
  /\ cmd' = [dir |-> dir, n |-> n]
  /\ UNCHANGED <<drive, calib, direction, figures, tim5, machine, exti, h2, level3>>

SetPositionMove ==
  /\ At4("move")
  /\ positionControllerMove(cmd.dir, cmd.n)
  /\ h4' = "none"
  /\ UNCHANGED <<calib, x, xMax, errors, machine, exti, h2, level3, cmd>>

StopCommand ==
  /\ "stopCommand" \in Inputs
  /\ At4("none")
  /\ positionControllerEmergencyStop
  /\ UNCHANGED <<calib, direction, figures, tim5, machine, exti, h2, level3, level4>>

\* MCMD_RESET: NVIC_SystemReset; the carriage stays where it is.
Reset ==
  /\ "reset" \in Inputs
  /\ At4("none")
  /\ xState' = "RESET" /\ calib' = "NONE" /\ direction' = "NONE"
  /\ x' = 0 /\ xMax' = 0 /\ planned' = 0 /\ errors' = 0 /\ slowDown' = 0
  /\ motorOn' = FALSE /\ phase' = "low"
  /\ tim5' = TimerAtBoot /\ dma' = DmaAtBoot
  /\ exti' = {} /\ h2' = "none"
  /\ h3' = "none" /\ caller' = "DMA" /\ st' = "RESET" /\ actual' = 0
  /\ h4' = "none" /\ cmd' = NoCommand
  /\ UNCHANGED machine

ClientRequest ==
  \/ Calibrate \/ CalibrateMark \/ CalibrateTurn \/ CalibrateGo
  \/ \E dir \in Directions, n \in 1 .. CntBound : setPosition(dir, n)
  \/ SetPositionMove
  \/ StopCommand
  \/ Reset

Next ==
  \/ Rise \/ Fall
  \/ \E s \in Switches : SwitchCloses(s) \/ SwitchOpens(s)
  \/ EmergencyButton
  \/ LimitSwitch
  \/ PulseHandlers
  \/ ClientRequest

Spec == Init /\ [][Next]_vars

\* The timers run, contacts settle, and handlers and requests being served finish.
Fairness ==
  /\ WF_vars(Rise) /\ WF_vars(Fall)
  /\ \A s \in Switches : WF_vars(s \in Held(pos) /\ SwitchCloses(s))
                           /\ WF_vars(s \notin Near(pos) /\ SwitchOpens(s))
  /\ WF_vars(LimitSwitch) /\ WF_vars(PulseHandlers)
  /\ WF_vars(h4 # "none" /\ ClientRequest)

FairSpec == Spec /\ Fairness

-----------------------------------------------------------------------------
(* The inductive invariant behind the safety properties, part by part.      *)

Stopped == xState = "EMERGENCY_STOPPED"
Standing == xState \in {"RESET", "IDLE"}
Searching == calib \in {"MIN", "MAX"}
Finishing == h3 \in {"count", "halt", "state", "settle"}
TimerHandler == h3 # "none" /\ caller = "TIM5"

\* The motor runs in the busy states only, the DMA never once stopped.
MotorInv ==
  /\ motorOn => xState \in Busy
  /\ Stopped => ~dma.on

\* A calibration stage belongs to a limit handler's stage, and to a standing
\* controller only while calibratePositionController is about to start it.
StageInv ==
  /\ h2 = "toMax" => calib = "MIN"
  /\ h2 = "toMiddle" => calib = "MAX"
  /\ Standing /\ calib # "NONE" => calib = "MIN" /\ h4 \in {"turn", "go"}
  /\ Searching /\ xState \in Busy => xState = "ACCELERATING_AND_CONSTANT"
  /\ h2 # "none" => ~motorOn

\* The request being served was accepted by a standing controller.
RequestInv ==
  /\ h4 # "none" => ~(xState \in Busy /\ calib = "NONE")
  /\ h4 = "calibrate" => Standing \/ Stopped
  /\ h4 = "move" => xState = "IDLE" \/ Stopped
  /\ h4 \in {"turn", "go"} /\ xState = "RESET" => calib = "MIN"

\* The compare interrupt belongs to the movement that armed it: it is never
\* enabled in a search, nor once a movement has come to slow down or to rest.
CompareInv ==
  Stopped
  \/ /\ tim5.ie => ~Searching
     /\ tim5.ie => xState # "ACCELERATING"
     /\ tim5.ie /\ (Standing \/ xState = "SLOWING_DOWN") => TimerHandler

\* What a level 3 handler decided on still holds when it acts on it.
HandlerInv ==
  /\ h3 \in {"cc1", "cc1Again", "cc1End"} => caller = "TIM5"
  /\ h3 \in {"te", "tc", "tcState"} => caller = "DMA"
  /\ h3 = "slow" \/ Finishing => Stopped \/ xState \in Busy
  /\ h3 = "slow" \/ Finishing \/ h3 \in {"cc1", "cc1Again"} => Stopped \/ ~Searching
  /\ h3 = "slow" /\ caller = "DMA" => Stopped \/ xState = "ACCELERATING"
  /\ Finishing /\ caller = "DMA" => Stopped \/ xState = "SLOWING_DOWN"
  /\ h3 \in {"state", "settle"} => ~motorOn

IInv == TypeOK /\ MotorInv /\ StageInv /\ RequestInv /\ CompareInv /\ HandlerInv

-----------------------------------------------------------------------------
(* Properties.                                                              *)

\* The mode of the state diagram the variables stand for.
Mode ==
  CASE xState = "EMERGENCY_STOPPED" -> "stopped"
    [] xState = "RESET" -> "reset"
    [] xState = "IDLE" -> "idle"
    [] xState \in Busy /\ calib # "NONE" -> "calibrating"
    [] OTHER -> "moving"

Motion == INSTANCE MotionSpec WITH mode <- Mode, powered <- motorOn

\* However its handlers preempt one another, the controller goes through the
\* states of the diagram only: an emergency stop is left by a reset alone, and
\* idle is entered with the motor off.
MotionImplemented == Motion!Spec

\* No handler still under way when an emergency stop strikes gets the motor or
\* the profile DMA going again.
StoppedIsOff == xState = "EMERGENCY_STOPPED" => ~motorOn /\ ~dma.on

\* No movement has begun or is being closed at any level.
AtRest == xState = "IDLE" /\ h2 = "none" /\ h3 = "none" /\ exti = {}

\* Once calibrated, g_positionControllerX is where the carriage is, after any
\* number of movements, up to what the calibration itself cannot see: a pulse
\* begun as a switch closed, and the width of the switch's chatter.
CarriageTracked == AtRest => pos - x \in -1 .. Chatter + 1

\* The carriage is stopped within the step that closed a switch it ran on to.
NoOvertravel == pos \in 0 .. Track

\* A movement is within one pulse of what was asked for.  The return from MAX, whose
\* length is fixed before the switch has come to rest, is off by its chatter too.
PulseErrorBounded ==
  h3 = "settle" /\ xState # "EMERGENCY_STOPPED" =>
    Distance(actual, planned) <= IF calib = "NONE" THEN 1 ELSE 1 + 2 * Chatter

\* "ignore min limit switch as we are moving away from it": searching for MAX,
\* the carriage goes towards MAX.
MaxSearchGoesForward == calib = "MAX" /\ motorOn => direction = "FORWARD"

\* Nobody asked for a stop, so none happens: a calibration or a movement to a
\* target away from the ends trips neither a switch nor an error path.
NoSpuriousStop == xState # "EMERGENCY_STOPPED"

\* "make sure we don't trigger max limit-switch", "... min limit-switch": no switch
\* closes during a movement that setPosition accepted.
AcceptedMoveAvoidsSwitches == xState \in Busy /\ calib = "NONE" => exti = {}

\* No contact chatters for ever.
Calm == <>[][\A s \in Switches : ~SwitchOpens(s)]_vars

\* A movement or a calibration does not go on for ever.
MovementEnds == Calm => (xState \in Busy ~> xState \notin Busy)

\* The controller is idle and the carriage in the middle of the track, as near as
\* the switches' chatter lets it know the ends.
RestsInTheMiddle == AtRest /\ 2 * pos - Track \in -4 * Chatter - 2 .. 4 * Chatter + 2

\* A calibration under way, the first or a later one, succeeds: its three searches
\* end with the carriage at rest in the middle (position_controller.c:455-531).
CalibrationSucceeds == Calm => (xState \in Busy /\ calib # "NONE" ~> RestsInTheMiddle)
=============================================================================
