------------------------ MODULE PositionTracking_proofs ------------------------
(***************************************************************************)
(* Theorems about where the carriage is: the position is right, movements  *)
(* have the length asked for and no switch is run over, for every track    *)
(* and profile, as long as the handlers keep up with the pulse signal.     *)
(***************************************************************************)
EXTENDS PositionController_proofs

\* No reset, no contact that chatters at rest, no transfer error, and prompt handlers.
\* The track is long compared with the chatter and the profile, the client keeps clear
\* of its ends, and the carriage is not on the MIN switch at power-up.
Undisturbed ==
  /\ Prompt
  /\ Inputs \cap {"reset", "restChatter", "transferError"} = {}
  /\ Starts \subseteq 1 .. Track
  /\ Margin >= Chatter + 3
  /\ Track >= 6 * Chatter + 8 /\ Track >= 2 * Chatter + Steps

\* The last pulse counted has not made its step; if the motor is off it never will.
Unmade == IF motorOn /\ phase = "low" THEN 0 ELSE 1
Made == tim5.cnt - Unmade

\* Clear of both switches.
Clear == Chatter < pos /\ pos < Track - Chatter

\* A distance between position and carriage that a calibration may leave.
Exact(offset) == -1 <= offset /\ offset <= Chatter + 1 /\ xMax + offset <= Track

Allowed(dir, n) ==
  n > 0 /\ IF dir = "FORWARD" THEN x + n + Margin <= xMax ELSE n + Margin <= x

-----------------------------------------------------------------------------

\* Contacts, and the interrupts of those that have closed.
SwitchInv ==
  /\ 0 <= pos /\ pos <= Track
  /\ "MIN" \in closed => pos <= Chatter + 1
  /\ "MAX" \in closed => pos >= Track - Chatter - 1
  /\ "MIN" \in exti => pos <= Chatter /\ (pos = 0 => "MIN" \in closed)
  /\ "MAX" \in exti => pos >= Track - Chatter /\ (pos = Track => "MAX" \in closed)
  /\ ~motorOn =>
       /\ phase = "low" /\ exti = {}
       /\ pos = 0 => "MIN" \in closed
       /\ pos = Track => "MAX" \in closed

\* Nothing is under way when the controller stands; a position still to be updated is
\* off by the movement that has ended.
StandingInv ==
  /\ h4 # "none" => Standing /\ h3 = "none"
  /\ h4 \in {"turn", "go"} => calib = "MIN"
  /\ h4 = "go" => direction = "BACKWARD"
  /\ h4 = "move" => xState = "IDLE" /\ Allowed(cmd.dir, cmd.n)
  /\ Standing => ~motorOn /\ h2 = "none" /\ ~dma.tc /\ ~dma.on
  /\ xState = "RESET" => h3 = "none" /\ pos > 0 /\ "MIN" \notin closed
  /\ xState = "IDLE" =>
       /\ Clear /\ closed = {}
       /\ h3 \in {"none", "cc1End"} => Exact(pos - x)
       /\ h3 \notin {"none", "cc1End"} =>
            /\ h3 = "update"
            /\ \/ direction = "FORWARD" /\ Exact(pos - x - actual) /\ x + actual <= xMax
               \/ direction = "BACKWARD" /\ Exact(pos - x + actual) /\ actual <= x

\* Only the profile's end may still be handled during a search.
SearchHandlers == h3 \in {"none", "tc", "tcState"}

\* On its way to MIN the carriage is in front of the switch until it closes.
ToMinInv ==
  /\ SearchHandlers
  /\ h2 = "none" => motorOn /\ direction = "BACKWARD" /\ ("MIN" \in closed => "MIN" \in exti)
  /\ h2 # "none" => h2 = "toMax" /\ ~motorOn /\ ~dma.on /\ pos <= Chatter

\* On its way to MAX the count is the distance from where MIN closed last; the profile
\* ends before MAX is near.
ToMaxInv ==
  /\ SearchHandlers
  /\ h2 = "none" =>
       /\ motorOn /\ direction = "FORWARD" /\ ("MAX" \in closed => "MAX" \in exti)
       /\ 0 <= pos - Made /\ pos - Made <= Chatter + 1
       /\ dma.on /\ dma.left > 0 => pos + dma.left + Unmade <= Chatter + Steps
       /\ dma.tc \/ h3 # "none" => pos < Chatter + Steps
  /\ h2 # "none" =>
       /\ h2 = "toMiddle" /\ ~motorOn /\ pos >= Track - Chatter
       /\ h3 = "none" /\ ~dma.tc /\ ~dma.on
       /\ -1 <= pos - tim5.cnt /\ pos - tim5.cnt <= Chatter + 1

-----------------------------------------------------------------------------
(* A movement of the planned number of pulses, when the count has lost some *)
(* to the chatter of a switch.                                              *)

AtConstantSpeed ==
  /\ ~dma.on /\ ~dma.tc
  /\ tim5.ie /\ tim5.ccr = planned + 1 /\ tim5.cnt <= tim5.ccr
  /\ h3 = "none" => (tim5.cc1 <=> tim5.cnt = tim5.ccr)
  /\ h3 # "none" => h3 \in {"cc1", "cc1Again"} \cup {"count", "halt", "state", "settle"}
                    /\ tim5.cnt = tim5.ccr

Accelerating(lost) ==
  /\ planned <= 2 * Steps
  /\ h3 \in {"none", "tc", "tcState", "slow"} /\ (h3 = "slow" => caller = "DMA")
  /\ planned <= tim5.cnt + dma.left + slowDown + 1 + lost
  /\ dma.req => planned < tim5.cnt + dma.left + slowDown + 1 + lost
  /\ tim5.cnt + dma.left + slowDown <= planned
  /\ h3 = "none" => dma.on /\ (dma.tc <=> dma.left = 0)
  /\ h3 # "none" => ~dma.tc /\ dma.left = 0
  /\ h3 \in {"tcState", "slow"} => ~dma.on

AcceleratingAndConstant ==
  /\ planned > 2 * Steps /\ slowDown = Steps
  /\ tim5.ie /\ tim5.ccr = planned - Steps + 1 /\ tim5.cnt <= tim5.ccr
  /\ h3 \in {"none", "tc", "tcState", "cc1", "slow"}
  /\ h3 \in {"none", "tc", "tcState"} => (tim5.cc1 <=> tim5.cnt = tim5.ccr)
  /\ h3 \in {"tc", "tcState"} => ~dma.tc
  /\ h3 \in {"cc1", "slow"} => tim5.cnt = tim5.ccr /\ ~dma.on /\ ~dma.tc /\ caller = "TIM5"
  /\ dma.on /\ dma.left > 0 => tim5.cnt + dma.left <= Steps /\ ~dma.tc
  /\ dma.tc \/ h3 \in {"tc", "tcState"} => tim5.cnt <= Steps
  /\ dma.on => dma.left > 0 \/ dma.tc \/ h3 = "tc"

SlowingDown(lost) ==
  /\ planned <= 2 * Steps =>
       planned <= tim5.cnt + dma.left + lost /\ tim5.cnt + dma.left <= planned + 1
  /\ planned > 2 * Steps =>
       /\ planned + 1 <= tim5.cnt + dma.left /\ tim5.cnt + dma.left <= planned + 2
       /\ pos < Track - Chatter
  /\ h3 \in {"none", "cc1End", "tc", "tcState"} \cup {"count", "halt", "state", "settle"}
  /\ h3 = "none" => dma.on /\ (dma.tc <=> dma.left = 0)
  /\ h3 = "cc1End" => dma.on /\ ~dma.tc /\ dma.left > 0
  /\ h3 \notin {"none", "cc1End"} => ~dma.tc /\ dma.left = 0

\* The handler at the end has seen the pulse that makes no step.
Ending ==
  /\ motorOn <=> h3 \notin {"state", "settle"}
  /\ ~motorOn => ~dma.on
  /\ h3 \in {"halt", "state", "settle"} => actual = tim5.cnt - 1
  /\ h3 = "settle" => st = xState
  /\ motorOn /\ (h3 # "none" \/ dma.tc \/ (tim5.cc1 /\ tim5.ie)) => phase = "high"

Profile(lost) ==
  /\ h2 = "none" /\ planned > 0
  /\ xState = "CONSTANT" => AtConstantSpeed
  /\ xState = "ACCELERATING" => Accelerating(lost)
  /\ xState = "ACCELERATING_AND_CONSTANT" => AcceleratingAndConstant
  /\ xState = "SLOWING_DOWN" => SlowingDown(lost)
  /\ Ending

\* Back from MAX, over half of the full count; each time MAX closes again the count so
\* far is lost, which can only happen in its chatter.
Back(full) ==
  /\ 2 * planned <= full /\ full <= 2 * planned + 1
  /\ x <= full /\ full <= x + Chatter + 1 /\ full <= x + 2 * Chatter
  /\ -1 <= pos - x + Made /\ pos - x + Made <= Chatter + 1
  /\ Track - Chatter <= full + pos - x + Made /\ full + pos - x + Made <= Track
  /\ Profile(full - x)

ReturnInv ==
  /\ direction = "BACKWARD" /\ xMax = x
  /\ pos = Track => "MAX" \in closed
  /\ "MAX" \in exti => pos < Track
  /\ pos > Chatter /\ "MIN" \notin closed
  /\ \E full \in Nat : Back(full)

\* A movement that was asked for stays clear of the switches.
MoveInv ==
  /\ Clear /\ closed = {}
  /\ direction \in Directions /\ Allowed(direction, planned)
  /\ direction = "FORWARD" => Exact(pos - x - Made)
  /\ direction = "BACKWARD" => Exact(pos - x + Made)
  /\ Profile(0)

Under(c) == xState \in Busy /\ calib = c

TrackingInv ==
  /\ ~Stopped /\ ~dma.te
  /\ SwitchInv
  /\ StandingInv
  /\ Under("MIN") => ToMinInv
  /\ Under("MAX") => ToMaxInv
  /\ Under("CORRECT_MAX") => ReturnInv
  /\ Under("NONE") => MoveInv

TInv == pos \in 0 .. Track /\ (Stopped \/ TrackingInv)

-----------------------------------------------------------------------------
(* What everything below is reckoned with.                                  *)

USE DEF drive, figures, machine, level3, level4, Directions, Switches, Busy, States

\* What the constants are.
Limits ==
  /\ Chatter \in Nat /\ Track \in Nat /\ Steps \in Nat /\ Margin \in Nat /\ MaxConst \in Nat
  /\ Steps > 0 /\ MaxConst < 2 * Steps /\ Margin >= Chatter + 3
  /\ Track >= 6 * Chatter + 8 /\ Track >= 2 * Chatter + Steps
  /\ LatchRequests \in BOOLEAN

\* What the variables are.
Sorted ==
  /\ xState \in States /\ calib \in {"NONE", "MIN", "MAX", "CORRECT_MAX"}
  /\ direction \in Directions \cup {"NONE"}
  /\ x \in Nat /\ xMax \in Nat /\ planned \in Nat /\ slowDown \in Nat /\ actual \in Nat
  /\ motorOn \in BOOLEAN /\ phase \in {"low", "high"}
  /\ tim5.cnt \in Nat /\ tim5.ccr \in Nat /\ tim5.cc1 \in BOOLEAN /\ tim5.ie \in BOOLEAN
  /\ dma.left \in Nat
  /\ dma.on \in BOOLEAN /\ dma.tc \in BOOLEAN /\ dma.te \in BOOLEAN /\ dma.req \in BOOLEAN
  /\ pos \in Int /\ closed \subseteq Switches /\ exti \subseteq Switches
  /\ h2 \in {"none", "toMax", "toMiddle"}
  /\ h3 \in {"none", "cc1", "cc1Again", "slow", "stop", "cc1End", "te", "tc", "tcState",
             "count", "halt", "state", "settle", "update"}
  /\ h4 \in {"none", "calibrate", "turn", "go", "move"}
  /\ caller \in {"TIM5", "DMA"} /\ st \in States
  /\ cmd.dir \in Directions /\ cmd.n \in Nat

\* The constants are so in undisturbed operation.
LEMMA LimitsHold ==
  ASSUME Undisturbed
  PROVE  Limits
  BY ConstantsAssumption DEF Undisturbed, Limits

\* The variables are so when every variable has its type.
LEMMA SortedHold == TypeOK => Sorted
  <1> SUFFICES ASSUME TypeOK PROVE Sorted
    OBVIOUS
  <1>1. /\ tim5.cnt \in Nat /\ tim5.ccr \in Nat /\ tim5.cc1 \in BOOLEAN /\ tim5.ie \in BOOLEAN
    BY ConstantsAssumption DEF TypeOK, TimerStates
  <1>2. /\ dma.left \in Nat
        /\ dma.on \in BOOLEAN /\ dma.tc \in BOOLEAN /\ dma.te \in BOOLEAN /\ dma.req \in BOOLEAN
    BY DEF TypeOK, DmaStates
  <1>3. cmd.dir \in Directions /\ cmd.n \in Nat
    BY ConstantsAssumption DEF TypeOK
  <1>4. x \in Nat /\ xMax \in Nat /\ actual \in Nat /\ pos \in Int
    BY ConstantsAssumption DEF TypeOK
  <1>5. QED
    BY <1>1, <1>2, <1>3, <1>4 DEF TypeOK, Sorted

\* A step is reckoned with the types of the state before and of that after.
Typed == Limits /\ Sorted /\ Sorted'

\* A pulse is counted.
LEMMA CountPulseEffect ==
  ASSUME NEW t \in TimerStates
  PROVE  /\ CountPulse(t).cnt = t.cnt + 1 /\ CountPulse(t).ccr = t.ccr
         /\ CountPulse(t).ie = t.ie
         /\ CountPulse(t).cc1 <=> t.cc1 \/ t.cnt + 1 = t.ccr
  BY DEF CountPulse, TimerStates

\* A request is served when the channel is on and has items left.
LEMMA ServeEffect ==
  ASSUME NEW d \in DmaStates
  PROVE  /\ Serve(d).on = d.on /\ Serve(d).te = d.te
         /\ d.on /\ d.left > 0 => /\ Serve(d).left = d.left - 1 /\ Serve(d).req = d.req
                                  /\ Serve(d).tc <=> d.tc \/ d.left = 1
         /\ ~(d.on /\ d.left > 0) => Serve(d).left = d.left /\ (Serve(d).tc <=> d.tc)
  BY DEF Serve, DmaStates

\* A channel just armed has as many items left as asked for, or one fewer when a request
\* was waiting.
LEMMA ArmEffect ==
  ASSUME NEW d \in DmaStates, NEW n \in Nat, n > 0, ~d.on
  PROVE  /\ Arm(d, n) \in DmaStates
         /\ Arm(d, n).on /\ Arm(d, n).te = d.te /\ ~Arm(d, n).req
         /\ Arm(d, n).left = IF d.req THEN n - 1 ELSE n
         /\ Arm(d, n).tc <=> d.tc \/ Arm(d, n).left = 0
  <1> DEFINE e == [d EXCEPT !.on = TRUE, !.left = n, !.req = FALSE]
  <1>1. e \in DmaStates /\ e.on /\ e.left = n /\ ~e.req /\ e.tc = d.tc /\ e.te = d.te
    BY DEF DmaStates
  <1>2. Arm(d, n) = IF d.req THEN Serve(e) ELSE e
    BY DEF Arm
  <1> HIDE DEF e
  <1>3. Serve(e) \in DmaStates
    BY <1>1, ServeType
  <1>4. QED
    BY <1>1, <1>2, <1>3, ServeEffect

\* Every step of the invariant is reckoned with these types.
LEMMA TypedHold ==
  ASSUME Undisturbed, IInv, IInv'
  PROVE  Typed
  <1>1. Sorted'
    <2>1. TypeOK'
      BY DEF IInv
    <2>2. TypeOK' => Sorted'
      BY SortedHold, PTL
    <2>3. QED
      BY <2>1, <2>2
  <1>2. QED
    BY <1>1, LimitsHold, SortedHold DEF Typed, IInv

-----------------------------------------------------------------------------
(* The pulse signal.                                                        *)

\* What a rising edge finds and changes.
Rises ==
  /\ motorOn /\ phase = "low" /\ h2 = "none" /\ h3 = "none" /\ exti = {}
  /\ ~dma.tc /\ ~(tim5.cc1 /\ tim5.ie)
  /\ phase' = "high"
  /\ tim5'.cnt = tim5.cnt + 1 /\ tim5'.ccr = tim5.ccr /\ tim5'.ie = tim5.ie
  /\ tim5'.cc1 <=> tim5.cc1 \/ tim5.cnt + 1 = tim5.ccr
  /\ dma'.on = dma.on /\ dma'.te = dma.te
  /\ dma.on /\ dma.left > 0 => /\ dma'.left = dma.left - 1 /\ dma'.req = dma.req
                               /\ dma'.tc <=> dma.tc \/ dma.left = 1
  /\ ~(dma.on /\ dma.left > 0) => dma'.left = dma.left /\ (dma'.tc <=> dma.tc)
  /\ UNCHANGED <<xState, calib, direction, x, xMax, planned, slowDown, motorOn, pos, closed,
                 exti, h2, h3, h4, caller, st, actual, cmd>>

LEMMA RiseEffect ==
  ASSUME Undisturbed, IInv, Rise
  PROVE  Rises
  <1>1. tim5 \in TimerStates /\ dma \in DmaStates
    BY DEF IInv, TypeOK
  <1>2. tim5' = CountPulse(tim5) /\ dma' = Serve(dma)
    BY DEF Rise, Undisturbed
  <1>3. QED
    BY <1>1, <1>2, CountPulseEffect, ServeEffect DEF Rise, Rises, Undisturbed, Quiet

\* A movement goes on with the next pulse.
LEMMA RiseProfile ==
  ASSUME Typed, IInv, Rises, xState \in Busy, NEW lost \in Nat, Profile(lost)
  PROVE  Profile(lost)'
  <1>1. Ending'
    BY DEF Rises, Profile, Ending, Typed, Sorted
  <1>2. xState = "CONSTANT" => AtConstantSpeed'
    BY DEF Rises, Profile, AtConstantSpeed, Typed, Sorted
  <1>3. xState = "ACCELERATING" => Accelerating(lost)'
    BY DEF Rises, Profile, Accelerating, Typed, Sorted
  <1>4. xState = "ACCELERATING_AND_CONSTANT" => AcceleratingAndConstant'
    BY DEF Rises, Profile, AcceleratingAndConstant, Typed, Sorted, Limits
  <1>5. xState = "SLOWING_DOWN" => SlowingDown(lost)'
    BY DEF Rises, Profile, SlowingDown, Typed, Sorted
  <1>6. QED
    BY <1>1, <1>2, <1>3, <1>4, <1>5 DEF Profile, Rises

\* A rising edge leaves the carriage where it is, with a step to make.
LEMMA RiseStep ==
  ASSUME Undisturbed, IInv, IInv', TrackingInv, Rise
  PROVE  TrackingInv'
  <1>1. Typed /\ Rises
    BY TypedHold, RiseEffect
  <1>2. ~Standing /\ xState \in Busy /\ h4 = "none"
    BY <1>1 DEF Rises, TrackingInv, StandingInv, Standing, Stopped, Typed, Sorted
  <1>3. SwitchInv' /\ StandingInv' /\ ~Stopped' /\ ~dma'.te
    BY <1>1, <1>2 DEF Rises, TrackingInv, StandingInv, SwitchInv, Standing, Stopped
  <1>4. Under("MIN") => ToMinInv'
    BY <1>1 DEF Rises, TrackingInv, ToMinInv, SearchHandlers
  <1>5. Under("MAX") => ToMaxInv'
    BY <1>1 DEF Rises, TrackingInv, ToMaxInv, SearchHandlers, Made, Unmade, Typed, Sorted, Limits
  <1>6. Under("CORRECT_MAX") => ReturnInv'
    <2> SUFFICES ASSUME Under("CORRECT_MAX") PROVE ReturnInv'
      OBVIOUS
    <2>1. PICK full \in Nat : Back(full)
      BY DEF TrackingInv, ReturnInv
    <2>2. full - x \in Nat
      BY <1>1, <2>1 DEF Back, Typed, Sorted
    <2>3. Profile(full - x)'
      BY <1>1, <1>2, <2>1, <2>2, RiseProfile DEF Back, Rises
    <2>4. Back(full)'
      BY <1>1, <2>1, <2>3 DEF Back, Rises, Made, Unmade, Typed, Sorted, Limits
    <2>5. QED
      BY <1>1, <2>4 DEF TrackingInv, ReturnInv, Rises
  <1>7. Under("NONE") => MoveInv'
    <2> SUFFICES ASSUME Under("NONE") PROVE MoveInv'
      OBVIOUS
    <2>1. MoveInv
      BY DEF TrackingInv
    <2>2. Profile(0)'
      BY <1>1, <1>2, <2>1, RiseProfile DEF MoveInv
    <2>3. QED
      BY <1>1, <2>1, <2>2 DEF MoveInv, Rises, Made, Unmade, Clear, Allowed, Exact, Typed, Sorted, Limits
  <1>8. QED
    BY <1>1, <1>3, <1>4, <1>5, <1>6, <1>7 DEF TrackingInv, Under, Rises

\* What a falling edge finds and changes.
Falls ==
  /\ motorOn /\ phase = "high" /\ h2 = "none" /\ h3 = "none" /\ exti = {}
  /\ ~dma.tc /\ ~(tim5.cc1 /\ tim5.ie)
  /\ (pos <= 0 => "MIN" \in closed) /\ (pos >= Track => "MAX" \in closed)
  /\ ("MIN" \in closed => pos <= Chatter) /\ ("MAX" \in closed => pos >= Track - Chatter)
  /\ phase' = "low"
  /\ direction = "FORWARD" => pos' = pos + 1
  /\ direction # "FORWARD" => pos' = pos - 1
  /\ UNCHANGED <<xState, calib, direction, x, xMax, planned, slowDown, motorOn, tim5, dma,
                 closed, exti, h2, h3, h4, caller, st, actual, cmd>>

LEMMA FallEffect ==
  ASSUME Undisturbed, IInv, SwitchInv, Fall
  PROVE  Falls
  <1>1. Limits /\ Sorted
    BY LimitsHold, SortedHold DEF IInv
  <1>2. Quiet /\ Held(pos) \subseteq closed /\ closed \subseteq Near(pos)
    BY DEF Fall, Undisturbed
  <1>3. (pos <= 0 => "MIN" \in closed) /\ (pos >= Track => "MAX" \in closed)
    BY <1>2 DEF Held
  <1>4. ("MIN" \in closed => pos <= Chatter) /\ ("MAX" \in closed => pos >= Track - Chatter)
    BY <1>2 DEF Near
  <1>5. (direction = "FORWARD" => pos' = pos + 1) /\ (direction # "FORWARD" => pos' = pos - 1)
    BY <1>1 DEF Fall, SwitchInv, Limits, Sorted
  <1>6. QED
    BY <1>2, <1>3, <1>4, <1>5 DEF Fall, Falls, Quiet

\* A movement goes on after each step.
LEMMA FallProfile ==
  ASSUME Typed, Falls, xState \in Busy, NEW lost \in Nat, Profile(lost),
         pos' <= pos \/ pos' < Track - Chatter
  PROVE  Profile(lost)'
  <1>1. Ending'
    BY DEF Falls, Profile, Ending
  <1>2. xState = "CONSTANT" => AtConstantSpeed'
    BY DEF Falls, Profile, AtConstantSpeed
  <1>3. xState = "ACCELERATING" => Accelerating(lost)'
    BY DEF Falls, Profile, Accelerating
  <1>4. xState = "ACCELERATING_AND_CONSTANT" => AcceleratingAndConstant'
    BY DEF Falls, Profile, AcceleratingAndConstant
  <1>5. xState = "SLOWING_DOWN" => SlowingDown(lost)'
    BY DEF Falls, Profile, SlowingDown, Typed, Sorted, Limits
  <1>6. QED
    BY <1>1, <1>2, <1>3, <1>4, <1>5 DEF Profile, Falls

\* Until the end of a movement is flagged, it has not gone further than planned, and one.
LEMMA ProfileBound ==
  ASSUME Limits, Sorted, xState \in Busy, NEW lost \in Nat, Profile(lost)
  PROVE  /\ tim5.cnt <= planned + 2
         /\ Made <= planned + 1
         /\ h3 = "none" /\ ~dma.tc /\ ~(tim5.cc1 /\ tim5.ie) => tim5.cnt <= planned + 1
  <1>1. CASE xState = "CONSTANT"
    BY <1>1 DEF Limits, Sorted, Profile, AtConstantSpeed, Made, Unmade, Ending
  <1>2. CASE xState = "ACCELERATING"
    BY <1>2 DEF Limits, Sorted, Profile, Accelerating, Made, Unmade, Ending
  <1>3. CASE xState = "ACCELERATING_AND_CONSTANT"
    BY <1>3 DEF Limits, Sorted, Profile, AcceleratingAndConstant, Made, Unmade, Ending
  <1>4. CASE xState = "SLOWING_DOWN"
    BY <1>4 DEF Limits, Sorted, Profile, SlowingDown, Made, Unmade, Ending
  <1>5. QED
    BY <1>1, <1>2, <1>3, <1>4

\* A falling edge moves the carriage, and the count then agrees with it.
LEMMA FallStep ==
  ASSUME Undisturbed, IInv, IInv', TrackingInv, Fall
  PROVE  TrackingInv'
  <1>1. Typed /\ Falls
    BY TypedHold, FallEffect DEF TrackingInv
  <1>2. ~Standing /\ xState \in Busy /\ h4 = "none"
    BY <1>1 DEF Falls, TrackingInv, StandingInv, Standing, Stopped, Typed, Sorted
  <1>3. StandingInv' /\ ~Stopped' /\ ~dma'.te
    BY <1>1, <1>2 DEF Falls, TrackingInv, StandingInv, Standing, Stopped
  <1>4. Under("MIN") => ToMinInv' /\ SwitchInv'
    BY <1>1 DEF Falls, TrackingInv, ToMinInv, SearchHandlers, SwitchInv, Typed, Sorted, Limits
  <1>5. Under("MAX") => ToMaxInv' /\ SwitchInv'
    <2> SUFFICES ASSUME Under("MAX") PROVE ToMaxInv' /\ SwitchInv'
      OBVIOUS
    <2>1. ToMaxInv /\ direction = "FORWARD" /\ "MAX" \notin closed
      BY <1>1 DEF Falls, TrackingInv, ToMaxInv
    <2>2. SwitchInv'
      BY <1>1, <2>1 DEF Falls, TrackingInv, SwitchInv, Typed, Sorted, Limits
    <2>3. ToMaxInv'
      BY <1>1, <2>1 DEF Falls, ToMaxInv, SearchHandlers, Made, Unmade, Typed, Sorted, Limits
    <2>4. QED
      BY <2>2, <2>3
  <1>6. Under("CORRECT_MAX") => ReturnInv' /\ SwitchInv'
    <2> SUFFICES ASSUME Under("CORRECT_MAX") PROVE ReturnInv' /\ SwitchInv'
      OBVIOUS
    <2>1. ReturnInv /\ SwitchInv
      BY DEF TrackingInv
    <2>2. PICK full \in Nat : Back(full)
      BY <2>1 DEF ReturnInv
    <2>3. pos' = pos - 1
      BY <1>1, <2>1 DEF Falls, ReturnInv
    <2>4. full - x \in Nat /\ Profile(full - x) /\ tim5.cnt <= planned + 1
      <3>1. full - x \in Nat /\ Profile(full - x)
        BY <1>1, <2>2 DEF Back, Typed, Sorted
      <3>2. QED
        BY <1>1, <1>2, <3>1, ProfileBound DEF Falls, Typed
    <2>5. Profile(full - x)'
      BY <1>1, <1>2, <2>3, <2>4, FallProfile DEF Typed, Sorted, Falls
    <2>6. Made = tim5.cnt - 1 /\ Made' = tim5.cnt
      BY <1>1 DEF Falls, Made, Unmade, Typed, Sorted
    <2>7. Back(full)'
      BY <1>1, <2>2, <2>3, <2>5, <2>6 DEF Back, Falls, Typed, Sorted, Limits
    <2>8. pos' > Chatter
      BY <1>1, <2>2, <2>3, <2>4, <2>6 DEF Back, Typed, Sorted, Limits
    <2>9. ReturnInv' /\ SwitchInv'
      BY <1>1, <2>1, <2>3, <2>7, <2>8 DEF ReturnInv, SwitchInv, Falls, Typed, Sorted, Limits
    <2>10. QED
      BY <2>9
  <1>7. Under("NONE") => MoveInv' /\ SwitchInv'
    <2> SUFFICES ASSUME Under("NONE") PROVE MoveInv' /\ SwitchInv'
      OBVIOUS
    <2>1. MoveInv /\ SwitchInv
      BY DEF TrackingInv
    <2>2. tim5.cnt <= planned + 1
      BY <1>1, <1>2, <2>1, ProfileBound DEF Falls, Typed, MoveInv
    <2>3. Made = tim5.cnt - 1 /\ Made' = tim5.cnt
      BY <1>1 DEF Falls, Made, Unmade, Typed, Sorted
    <2>4. Allowed(direction, planned)' /\ (direction = "FORWARD" => Exact(pos - x - Made)')
          /\ (direction = "BACKWARD" => Exact(pos - x + Made)')
      BY <1>1, <2>1, <2>3 DEF MoveInv, Falls, Allowed, Exact, Typed, Sorted, Limits
    <2>5. CASE direction = "FORWARD"
      <3>1. Clear'
        BY <1>1, <2>1, <2>2, <2>3, <2>5
           DEF MoveInv, Falls, Clear, Allowed, Exact, Typed, Sorted, Limits
      <3>2. QED
        BY <1>1, <1>2, <2>1, <2>4, <3>1, FallProfile DEF MoveInv, Falls, Clear, SwitchInv, Typed, Sorted, Limits
    <2>6. CASE direction = "BACKWARD"
      <3>1. Clear'
        BY <1>1, <2>1, <2>2, <2>3, <2>6
           DEF MoveInv, Falls, Clear, Allowed, Exact, Typed, Sorted, Limits
      <3>2. QED
        BY <1>1, <1>2, <2>1, <2>4, <3>1, FallProfile DEF MoveInv, Falls, Clear, SwitchInv, Typed, Sorted, Limits
    <2>7. QED
      BY <2>1, <2>5, <2>6 DEF MoveInv
  <1>8. Under("MIN") \/ Under("MAX") \/ Under("CORRECT_MAX") \/ Under("NONE")
    BY <1>1, <1>2 DEF Under, Typed, Sorted
  <1>9. QED
    BY <1>1, <1>3, <1>4, <1>5, <1>6, <1>7, <1>8 DEF TrackingInv, Under, Falls

-----------------------------------------------------------------------------
(* The limit switches.                                                      *)

\* No contact closes at rest.
LEMMA ClosesInMotion ==
  ASSUME Undisturbed, Typed, SwitchInv, NEW s \in Switches, SwitchCloses(s)
  PROVE  /\ motorOn
         /\ s = "MIN" => pos <= Chatter
         /\ s = "MAX" => pos >= Track - Chatter
  <1>1. s = "MIN" => pos <= Chatter
    BY DEF SwitchCloses, Near
  <1>2. s = "MAX" => pos >= Track - Chatter
    BY DEF SwitchCloses, Near
  <1>3. ASSUME ~motorOn
        PROVE  FALSE
    <2>1. s \in Held(pos) /\ s \notin closed
      BY <1>3 DEF SwitchCloses, Undisturbed
    <2>2. s = "MIN" => pos = 0
      BY <2>1 DEF Held, SwitchInv, Typed, Sorted
    <2>3. s = "MAX" => pos = Track
      BY <2>1 DEF Held, SwitchInv, Typed, Sorted, Limits
    <2>4. QED
      BY <1>3, <2>1, <2>2, <2>3 DEF SwitchInv
  <1>4. QED
    BY <1>1, <1>2, <1>3

\* A contact's edge is no matter of a movement's profile.
LEMMA SwitchProfile ==
  ASSUME NEW lost \in Nat, Profile(lost),
         UNCHANGED <<xState, planned, slowDown, motorOn, phase, tim5, dma, pos, h2, h3,
                     caller, st, actual>>
  PROVE  Profile(lost)'
  <1>1. Ending'
    BY DEF Profile, Ending
  <1>2. xState = "CONSTANT" => AtConstantSpeed'
    BY DEF Profile, AtConstantSpeed
  <1>3. xState = "ACCELERATING" => Accelerating(lost)'
    BY DEF Profile, Accelerating
  <1>4. xState = "ACCELERATING_AND_CONSTANT" => AcceleratingAndConstant'
    BY DEF Profile, AcceleratingAndConstant
  <1>5. xState = "SLOWING_DOWN" => SlowingDown(lost)'
    BY DEF Profile, SlowingDown
  <1>6. QED
    BY <1>1, <1>2, <1>3, <1>4, <1>5 DEF Profile

\* Nor is it one of the way back, except that MAX may close again in its chatter.
LEMMA SwitchBack ==
  ASSUME Typed, NEW full \in Nat, Back(full),
         UNCHANGED <<xState, x, planned, slowDown, motorOn, phase, tim5, dma, pos, h2, h3,
                     caller, st, actual>>
  PROVE  Back(full)'
  <1>1. full - x \in Nat
    BY DEF Back, Typed, Sorted
  <1>2. Profile(full - x)'
    BY <1>1, SwitchProfile DEF Back
  <1>3. QED
    BY <1>2 DEF Back, Made, Unmade

\* A contact that closes is one that the carriage is near.
LEMMA SwitchClosesStep ==
  ASSUME Undisturbed, IInv, IInv', TrackingInv, NEW s \in Switches, SwitchCloses(s)
  PROVE  TrackingInv'
  <1>1. Typed
    BY TypedHold
  <1>2. motorOn /\ (s = "MIN" => pos <= Chatter) /\ (s = "MAX" => pos >= Track - Chatter)
    BY <1>1, ClosesInMotion DEF TrackingInv
  <1>3. /\ closed' = closed \cup {s} /\ exti' = exti \cup {s} /\ s \notin closed
        /\ UNCHANGED <<xState, motorOn, phase, dma, calib, direction, figures, tim5, pos, h2,
                       level3, level4>>
    BY DEF SwitchCloses
  <1>4. ~Standing /\ xState \in Busy /\ h4 = "none"
    BY <1>1, <1>2 DEF TrackingInv, StandingInv, Standing, Stopped, Typed, Sorted
  <1>5. SwitchInv'
    BY <1>1, <1>2, <1>3 DEF TrackingInv, SwitchInv, Typed, Sorted, Limits
  <1>6. StandingInv' /\ ~Stopped' /\ ~dma'.te
    BY <1>3, <1>4 DEF TrackingInv, StandingInv, Standing, Stopped
  <1>7. Under("MIN") => ToMinInv'
    BY <1>2, <1>3 DEF TrackingInv, ToMinInv, SearchHandlers
  <1>8. Under("MAX") => ToMaxInv'
    BY <1>2, <1>3 DEF TrackingInv, ToMaxInv, SearchHandlers, Made, Unmade
  <1>9. Under("CORRECT_MAX") => ReturnInv'
    <2> SUFFICES ASSUME Under("CORRECT_MAX") PROVE ReturnInv'
      OBVIOUS
    <2>1. ReturnInv /\ SwitchInv
      BY DEF TrackingInv
    <2>2. PICK full \in Nat : Back(full)
      BY <2>1 DEF ReturnInv
    <2>3. Back(full)'
      BY <1>1, <1>3, <2>2, SwitchBack
    <2>4. s = "MAX"
      BY <1>1, <1>2, <2>1 DEF ReturnInv, Typed, Sorted, Limits
    <2>5. QED
      BY <1>1, <1>3, <2>1, <2>3, <2>4 DEF ReturnInv, SwitchInv, Typed, Sorted, Limits
  <1>10. ~Under("NONE")
    BY <1>1, <1>2 DEF TrackingInv, MoveInv, Clear, Typed, Sorted, Limits
  <1>11. QED
    BY <1>3, <1>5, <1>6, <1>7, <1>8, <1>9, <1>10 DEF TrackingInv, Under

\* A contact that opens is one that the carriage does not hold.
LEMMA SwitchOpensStep ==
  ASSUME Undisturbed, IInv, IInv', TrackingInv, NEW s \in Switches, SwitchOpens(s)
  PROVE  TrackingInv'
  <1>1. Typed
    BY TypedHold
  <1>2. /\ closed' = closed \ {s} /\ s \in closed
        /\ UNCHANGED <<xState, motorOn, phase, dma, calib, direction, figures, tim5, pos, exti,
                       h2, level3, level4>>
    BY DEF SwitchOpens
  <1>3. (s = "MIN" => pos > 0) /\ (s = "MAX" => pos < Track)
    BY <1>1 DEF SwitchOpens, Held, Typed, Sorted, Limits
  <1>4. SwitchInv'
    BY <1>1, <1>2, <1>3 DEF TrackingInv, SwitchInv, Typed, Sorted, Limits
  <1>5. StandingInv' /\ ~Stopped' /\ ~dma'.te
    <2>1. xState = "IDLE" => closed' = {}
      BY <1>2 DEF TrackingInv, StandingInv
    <2>2. QED
      BY <1>2, <2>1 DEF TrackingInv, StandingInv, Standing, Stopped, Allowed, Exact, Clear
  <1>6. Under("MIN") => ToMinInv'
    BY <1>2 DEF TrackingInv, ToMinInv, SearchHandlers
  <1>7. Under("MAX") => ToMaxInv'
    BY <1>2 DEF TrackingInv, ToMaxInv, SearchHandlers, Made, Unmade
  <1>8. Under("CORRECT_MAX") => ReturnInv'
    <2> SUFFICES ASSUME Under("CORRECT_MAX") PROVE ReturnInv'
      OBVIOUS
    <2>1. ReturnInv
      BY DEF TrackingInv
    <2>2. PICK full \in Nat : Back(full)
      BY <2>1 DEF ReturnInv
    <2>3. Back(full)'
      BY <1>1, <1>2, <2>2, SwitchBack
    <2>4. pos = Track => s # "MAX"
      BY <1>1, <1>3 DEF Typed, Sorted, Limits
    <2>5. QED
      BY <1>2, <2>1, <2>3, <2>4 DEF ReturnInv
  <1>9. ~Under("NONE")
    BY <1>2 DEF TrackingInv, MoveInv
  <1>10. QED
    BY <1>2, <1>4, <1>5, <1>6, <1>7, <1>8, <1>9 DEF TrackingInv, Under

-----------------------------------------------------------------------------
(* The beginning of a movement.                                             *)

\* What a start does: one pulse is counted and one item of the profile is taken.
Started(s, d, t) ==
  /\ xState' = s /\ motorOn' = TRUE /\ phase' = "high"
  /\ tim5'.cnt = 1 /\ tim5'.ccr = t.ccr /\ tim5'.ie = t.ie
  /\ tim5'.cc1 <=> t.cc1 \/ t.ccr = 1
  /\ dma'.on = d.on /\ dma'.te = d.te
  /\ d.on /\ d.left > 0 => /\ dma'.left = d.left - 1 /\ dma'.req = d.req
                           /\ dma'.tc <=> d.tc \/ d.left = 1
  /\ ~(d.on /\ d.left > 0) => dma'.left = d.left /\ (dma'.tc <=> d.tc)

\* Whatever is started, unless the controller has been stopped.
LEMMA StartEffect ==
  ASSUME xState # "EMERGENCY_STOPPED", NEW s \in States, NEW d \in DmaStates,
         NEW t \in TimerStates, Start(s, d, t)
  PROVE  Started(s, d, t)
  <1> DEFINE u == [t EXCEPT !.cnt = 0]
  <1>1. u \in TimerStates /\ u.cnt = 0 /\ u.ccr = t.ccr /\ u.ie = t.ie /\ u.cc1 = t.cc1
    BY ConstantsAssumption DEF TimerStates
  <1>2. tim5' = CountPulse(u) /\ dma' = Serve(d)
    BY DEF Start
  <1> HIDE DEF u
  <1>3. t.ccr \in Nat
    BY DEF TimerStates
  <1>4. QED
    BY <1>1, <1>2, <1>3, CountPulseEffect, ServeEffect DEF Start, Started

\* A search starts on the whole profile, whatever its channel has still flagged.
LEMMA SearchEffect ==
  ASSUME Limits, dma \in DmaStates, xState # "EMERGENCY_STOPPED", ~dma.on,
         NEW t \in TimerStates, MoveUntilLimitSwitchTriggers(t)
  PROVE  /\ xState' = "ACCELERATING_AND_CONSTANT" /\ motorOn' = TRUE /\ phase' = "high"
         /\ tim5'.cnt = 1 /\ dma'.te = dma.te /\ dma'.left < Steps
  <1> DEFINE d == Arm(dma, Steps)
  <1>1. /\ d \in DmaStates /\ d.on /\ d.te = dma.te
        /\ d.left = IF dma.req THEN Steps - 1 ELSE Steps
    BY ArmEffect DEF Limits
  <1>2. Start("ACCELERATING_AND_CONSTANT", d, t)
    BY DEF MoveUntilLimitSwitchTriggers, MoveWithAcceleration_Atomic
  <1> HIDE DEF d
  <1>3. d.left \in Nat
    BY <1>1 DEF DmaStates
  <1>4. Started("ACCELERATING_AND_CONSTANT", d, t)
    BY <1>1, <1>2, StartEffect
  <1>5. QED
    BY <1>1, <1>3, <1>4 DEF Started, Limits

\* A movement starts with the profile for the number of pulses asked for.
MoveBegun(dir, n) ==
  /\ motorOn' = TRUE /\ phase' = "high" /\ tim5'.cnt = 1 /\ dma'.te = FALSE
  /\ xState' \in Busy /\ direction' = dir /\ planned' = n
  /\ Profile(0)'

\* That is what comes of it.
LEMMA MoveEffect ==
  ASSUME Limits, dma \in DmaStates, tim5 \in TimerStates, xState # "EMERGENCY_STOPPED",
         ~dma.on, ~dma.tc, ~dma.te, h2' = "none", h3' = "none",
         NEW dir \in Directions, NEW n \in Nat, n > 0, positionControllerMove(dir, n)
  PROVE  MoveBegun(dir, n)
  <1>1. direction' = dir /\ planned' = n
    BY DEF positionControllerMove
  <1>2. ASSUME NEW k \in Nat
        PROVE  /\ ArmCompare(tim5, k) \in TimerStates /\ ArmCompare(tim5, k).ccr = k
               /\ ArmCompare(tim5, k).ie /\ ~ArmCompare(tim5, k).cc1
    BY DEF ArmCompare, TimerStates
  <1>3. CASE /\ n <= MaxConst
             /\ UNCHANGED slowDown
             /\ MoveAtConstantSpeed_Atomic("CONSTANT", ArmCompare(tim5, n + 1))
    <2> DEFINE t == ArmCompare(tim5, n + 1)
    <2>1. t \in TimerStates /\ t.ccr = n + 1 /\ t.ie /\ ~t.cc1
      BY <1>2
    <2>2. Start("CONSTANT", dma, t)
      BY <1>3 DEF MoveAtConstantSpeed_Atomic
    <2> HIDE DEF t
    <2>3. /\ xState' = "CONSTANT" /\ motorOn' = TRUE /\ phase' = "high"
          /\ tim5'.cnt = 1 /\ tim5'.ccr = n + 1 /\ tim5'.ie /\ ~tim5'.cc1
          /\ ~dma'.on /\ ~dma'.te /\ ~dma'.tc
      <3>1. Started("CONSTANT", dma, t)
        BY <2>1, <2>2, StartEffect
      <3>2. QED
        BY <2>1, <3>1 DEF Started
    <2>4. AtConstantSpeed'
      BY <1>1, <2>3 DEF AtConstantSpeed
    <2>5. Ending'
      BY <2>3 DEF Ending
    <2>6. QED
      BY <1>1, <2>3, <2>4, <2>5 DEF Profile, MoveBegun
  <1>4. CASE /\ n > MaxConst /\ n <= 2 * Steps
             /\ slowDown' = n - (n + 1) \div 2
             /\ MoveWithAcceleration_Atomic("ACCELERATING", (n + 1) \div 2, tim5)
    <2> DEFINE h == (n + 1) \div 2
               d == Arm(dma, h)
    <2>1. h \in Nat /\ h > 0 /\ n - h \in Nat
      OBVIOUS
    <2>2. slowDown' = n - h /\ Start("ACCELERATING", d, tim5)
      BY <1>4 DEF MoveWithAcceleration_Atomic
    <2> HIDE DEF h
    <2>3. /\ d \in DmaStates /\ d.on /\ ~d.te /\ ~d.req
          /\ d.left = IF dma.req THEN h - 1 ELSE h
          /\ d.tc <=> d.left = 0
      BY <2>1, ArmEffect
    <2> HIDE DEF d
    <2>4. d.left \in Nat
      BY <2>3 DEF DmaStates
    <2>5. /\ xState' = "ACCELERATING" /\ motorOn' = TRUE /\ phase' = "high" /\ tim5'.cnt = 1
          /\ dma'.on /\ dma'.te = FALSE
          /\ d.left > 0 => dma'.left = d.left - 1 /\ ~dma'.req /\ (dma'.tc <=> d.left = 1)
          /\ d.left = 0 => dma'.left = 0 /\ dma'.tc
      <3>1. Started("ACCELERATING", d, tim5)
        BY <2>2, <2>3, StartEffect
      <3>2. QED
        BY <2>3, <2>4, <3>1 DEF Started
    <2>6. Accelerating(0)'
      BY <1>1, <1>4, <2>1, <2>2, <2>3, <2>4, <2>5 DEF Accelerating, Limits
    <2>7. Ending'
      BY <2>5 DEF Ending
    <2>8. QED
      BY <1>1, <2>5, <2>6, <2>7 DEF Profile, MoveBegun
  <1>5. CASE /\ n > 2 * Steps
             /\ slowDown' = Steps
             /\ MoveWithAcceleration_Atomic("ACCELERATING_AND_CONSTANT", Steps,
                                            ArmCompare(tim5, n - Steps + 1))
    <2> DEFINE t == ArmCompare(tim5, n - Steps + 1)
               d == Arm(dma, Steps)
    <2>1. n - Steps + 1 \in Nat /\ n - Steps + 1 > 1
      BY <1>5 DEF Limits
    <2>2. t \in TimerStates /\ t.ccr = n - Steps + 1 /\ t.ie /\ ~t.cc1
      BY <1>2, <2>1
    <2>3. /\ d \in DmaStates /\ d.on /\ ~d.te /\ (d.tc <=> d.left = 0)
          /\ d.left = IF dma.req THEN Steps - 1 ELSE Steps
      BY ArmEffect DEF Limits
    <2>4. Start("ACCELERATING_AND_CONSTANT", d, t)
      BY <1>5 DEF MoveWithAcceleration_Atomic
    <2> HIDE DEF t, d
    <2>5. d.left \in Nat
      BY <2>3 DEF DmaStates
    <2>6. /\ xState' = "ACCELERATING_AND_CONSTANT" /\ motorOn' = TRUE /\ phase' = "high"
          /\ tim5'.cnt = 1 /\ tim5'.ccr = n - Steps + 1 /\ tim5'.ie /\ ~tim5'.cc1
          /\ dma'.on /\ dma'.te = FALSE
          /\ d.left > 0 => dma'.left = d.left - 1 /\ (dma'.tc <=> d.left = 1)
          /\ d.left = 0 => dma'.left = 0 /\ dma'.tc
      <3>1. Started("ACCELERATING_AND_CONSTANT", d, t)
        BY <2>2, <2>3, <2>4, StartEffect
      <3>2. QED
        BY <2>1, <2>2, <2>3, <2>5, <3>1 DEF Started
    <2>7. AcceleratingAndConstant'
      BY <1>1, <1>5, <2>1, <2>3, <2>5, <2>6 DEF AcceleratingAndConstant, Limits
    <2>8. Ending'
      BY <2>6 DEF Ending
    <2>9. QED
      BY <1>1, <2>6, <2>7, <2>8 DEF Profile, MoveBegun
  <1>6. QED
    BY <1>3, <1>4, <1>5 DEF positionControllerMove

-----------------------------------------------------------------------------
(* The handler of the limit switches.                                       *)

\* An interrupt of a switch comes in motion, and of one switch at a time.
LEMMA LimitContext ==
  ASSUME Undisturbed, IInv, IInv', TrackingInv, NEW s \in Switches, LimitEnter(s)
  PROVE  /\ Typed /\ motorOn /\ ~Standing /\ xState \in Busy /\ h4 = "none"
         /\ s = "MIN" => pos <= Chatter /\ exti = {"MIN"} /\ (pos = 0 => "MIN" \in closed)
         /\ s = "MAX" => pos >= Track - Chatter /\ exti = {"MAX"} /\ (pos = Track => "MAX" \in closed)
  <1>1. Typed
    BY TypedHold
  <1>2. s \in exti
    BY DEF LimitEnter
  <1>3. motorOn
    BY <1>2 DEF TrackingInv, SwitchInv
  <1>4. ~Standing /\ xState \in Busy /\ h4 = "none"
    BY <1>1, <1>3 DEF TrackingInv, StandingInv, Standing, Stopped, Typed, Sorted
  <1>5. exti \subseteq Switches /\ ("MIN" \notin exti \/ "MAX" \notin exti)
    BY <1>1 DEF TrackingInv, SwitchInv, Typed, Sorted, Limits
  <1>6. s = "MIN" => pos <= Chatter /\ exti = {"MIN"} /\ (pos = 0 => "MIN" \in closed)
    <2>1. s = "MIN" => exti = {"MIN"}
      BY <1>2, <1>5
    <2>2. QED
      BY <1>2, <2>1 DEF TrackingInv, SwitchInv
  <1>7. s = "MAX" => pos >= Track - Chatter /\ exti = {"MAX"} /\ (pos = Track => "MAX" \in closed)
    <2>1. s = "MAX" => exti = {"MAX"}
      BY <1>2, <1>5
    <2>2. QED
      BY <1>2, <2>1 DEF TrackingInv, SwitchInv
  <1>8. QED
    BY <1>1, <1>3, <1>4, <1>6, <1>7

\* The carriage is stopped where the switch has closed.
LEMMA LimitReachedStep ==
  ASSUME Undisturbed, IInv, IInv', TrackingInv, NEW s \in Switches, LimitReached(s)
  PROVE  TrackingInv'
  <1>1. LimitEnter(s)
    BY DEF LimitReached
  <1>2. /\ Typed /\ motorOn /\ ~Standing /\ xState \in Busy /\ h4 = "none"
        /\ s = "MIN" => pos <= Chatter /\ exti = {"MIN"} /\ (pos = 0 => "MIN" \in closed)
        /\ s = "MAX" => pos >= Track - Chatter /\ exti = {"MAX"} /\ (pos = Track => "MAX" \in closed)
    BY <1>1, LimitContext
  <1>3. /\ motorOn' = FALSE /\ phase' = "low" /\ dma'.on = FALSE /\ dma'.te = dma.te
        /\ dma'.tc = dma.tc /\ exti' = {}
        /\ h2 = "none" /\ h2' = IF s = "MIN" THEN "toMax" ELSE "toMiddle"
        /\ UNCHANGED <<xState, calib, direction, figures, tim5, machine, level3, level4>>
    <2>1. dma \in DmaStates
      BY DEF IInv, TypeOK
    <2>2. Channel(dma, FALSE).on = FALSE /\ Channel(dma, FALSE).te = dma.te
          /\ Channel(dma, FALSE).tc = dma.tc
      BY <2>1 DEF Channel, DmaStates
    <2>3. exti' = {}
      BY <1>1, <1>2 DEF LimitEnter
    <2>4. QED
      BY <2>2, <2>3 DEF LimitReached, LimitEnter, Stop_Atomic, PowerOff
  <1>4. (calib = "MIN" /\ s = "MIN") \/ (calib = "MAX" /\ s = "MAX")
    BY DEF LimitReached
  <1>5. SwitchInv'
    BY <1>2, <1>3 DEF TrackingInv, SwitchInv, Typed, Sorted, Limits
  <1>6. StandingInv' /\ ~Stopped' /\ ~dma'.te
    BY <1>2, <1>3 DEF TrackingInv, StandingInv, Standing, Stopped
  <1>7. CASE calib = "MIN" /\ s = "MIN"
    <2>1. ToMinInv'
      BY <1>2, <1>3, <1>7 DEF TrackingInv, Under, ToMinInv, SearchHandlers
    <2>2. QED
      BY <1>3, <1>5, <1>6, <1>7, <2>1 DEF TrackingInv, Under
  <1>8. CASE calib = "MAX" /\ s = "MAX"
    <2>1. ToMaxInv'
      BY <1>2, <1>3, <1>8
         DEF TrackingInv, Under, ToMaxInv, SearchHandlers, Made, Unmade, Typed, Sorted, Limits
    <2>2. QED
      BY <1>3, <1>5, <1>6, <1>8, <2>1 DEF TrackingInv, Under
  <1>9. QED
    BY <1>4, <1>7, <1>8

\* Near MIN the count starts again with the carriage.
LEMMA LimitIgnoredStep ==
  ASSUME Undisturbed, IInv, IInv', TrackingInv, NEW s \in Switches, LimitIgnored(s)
  PROVE  TrackingInv'
  <1>1. LimitEnter(s)
    BY DEF LimitIgnored
  <1>2. /\ Typed /\ motorOn /\ ~Standing /\ xState \in Busy /\ h4 = "none"
        /\ s = "MIN" => pos <= Chatter /\ exti = {"MIN"} /\ (pos = 0 => "MIN" \in closed)
        /\ s = "MAX" => pos >= Track - Chatter /\ exti = {"MAX"} /\ (pos = Track => "MAX" \in closed)
    BY <1>1, LimitContext
  <1>3. /\ exti' = {} /\ h2 = "none"
        /\ UNCHANGED <<drive, calib, direction, figures, machine, h2, level3, level4>>
    BY <1>1, <1>2 DEF LimitIgnored, LimitEnter
  <1>4. SwitchInv' /\ StandingInv' /\ ~Stopped' /\ ~dma'.te
    BY <1>2, <1>3 DEF TrackingInv, SwitchInv, StandingInv, Standing, Stopped
  <1>5. CASE calib = "MIN" /\ s = "MAX" /\ UNCHANGED tim5
    <2>1. ToMinInv'
      BY <1>2, <1>3, <1>5 DEF TrackingInv, Under, ToMinInv, SearchHandlers
    <2>2. QED
      BY <1>3, <1>4, <1>5, <2>1 DEF TrackingInv, Under
  <1>6. CASE calib = "MAX" /\ s = "MIN" /\ tim5' = [tim5 EXCEPT !.cnt = 0]
    <2>1. tim5'.cnt = 0
      BY <1>6 DEF IInv, TypeOK, TimerStates
    <2>2. ToMaxInv /\ "MAX" \notin exti
      BY <1>2, <1>6 DEF TrackingInv, Under
    <2>3. 0 <= pos' - Made' /\ pos' - Made' <= Chatter + 1
      BY <1>2, <1>3, <1>6, <2>1 DEF TrackingInv, SwitchInv, Made, Unmade, Typed, Sorted, Limits
    <2>4. ToMaxInv'
      BY <1>2, <1>3, <2>2, <2>3 DEF ToMaxInv, SearchHandlers, Unmade
    <2>5. QED
      BY <1>3, <1>4, <1>6, <2>4 DEF TrackingInv, Under
  <1>7. QED
    BY <1>5, <1>6 DEF LimitIgnored

\* When MAX closes again in its chatter, the movement is at its beginning and only its
\* count is touched.
LEMMA CorrectProfile ==
  ASSUME Typed, xState \in Busy, NEW lost \in Nat, NEW more \in Nat, Profile(lost),
         more = lost + tim5.cnt, more <= Chatter + 1, planned >= 2 * Chatter + 3,
         pos >= Track - Chatter,
         tim5'.cnt = 0, tim5'.ccr = tim5.ccr, tim5'.cc1 = tim5.cc1, tim5'.ie = tim5.ie,
         UNCHANGED <<xState, planned, slowDown, motorOn, phase, dma, pos, h2, h3, caller,
                     st, actual>>
  PROVE  Profile(more)' /\ motorOn
  <1>1. xState = "CONSTANT" => AtConstantSpeed' /\ h3 = "none"
    BY DEF Profile, AtConstantSpeed, Typed, Sorted, Limits
  <1>2. xState = "ACCELERATING" => Accelerating(more)' /\ h3 \in {"none", "tc", "tcState", "slow"}
    BY DEF Profile, Accelerating, Typed, Sorted, Limits
  <1>3. xState = "ACCELERATING_AND_CONSTANT" =>
          AcceleratingAndConstant' /\ h3 \in {"none", "tc", "tcState"}
    BY DEF Profile, AcceleratingAndConstant, Typed, Sorted, Limits
  <1>4. xState = "SLOWING_DOWN" => SlowingDown(more)' /\ h3 \in {"none", "cc1End", "tc", "tcState"}
    BY DEF Profile, SlowingDown, Typed, Sorted, Limits
  <1>5. h3 \notin {"halt", "state", "settle"}
    BY <1>1, <1>2, <1>3, <1>4
  <1>6. Ending' /\ motorOn
    BY <1>5 DEF Profile, Ending
  <1>7. QED
    BY <1>1, <1>2, <1>3, <1>4, <1>6 DEF Profile

\* The length of the track and the position change alike, by what the count then loses.
LEMMA LimitCorrectedStep ==
  ASSUME Undisturbed, IInv, IInv', TrackingInv, NEW s \in Switches, LimitCorrected(s)
  PROVE  TrackingInv'
  <1>1. LimitEnter(s) /\ s = "MAX" /\ calib = "CORRECT_MAX"
    BY DEF LimitCorrected
  <1>2. /\ Typed /\ motorOn /\ ~Standing /\ xState \in Busy /\ h4 = "none"
        /\ pos >= Track - Chatter /\ exti = {"MAX"}
    BY <1>1, LimitContext
  <1>3. ReturnInv
    BY <1>1, <1>2 DEF TrackingInv, Under
  <1>4. PICK full \in Nat : Back(full)
    BY <1>3 DEF ReturnInv
  <1>5. /\ tim5'.cnt = 0 /\ tim5'.ccr = tim5.ccr /\ tim5'.cc1 = tim5.cc1 /\ tim5'.ie = tim5.ie
    BY DEF LimitCorrected, IInv, TypeOK, TimerStates
  <1>6. /\ exti' = {} /\ h2 = "none"
        /\ UNCHANGED <<drive, calib, direction, planned, errors, slowDown, machine, h2, level3,
                       level4>>
    BY <1>1, <1>2 DEF LimitCorrected, LimitEnter
  <1>7. x' = x - tim5.cnt /\ xMax' = x - tim5.cnt
    BY <1>2, <1>3 DEF LimitCorrected, Wrap, ReturnInv, Typed, Sorted
  <1>8. pos < Track
    BY <1>2, <1>3 DEF ReturnInv
  <1>9. full - x \in Nat /\ full - x + tim5.cnt \in Nat
    BY <1>2, <1>4 DEF Back, Typed, Sorted
  <1>10. full - x + tim5.cnt <= Chatter + 1 /\ full - x + tim5.cnt <= 2 * Chatter
    BY <1>2, <1>4, <1>8 DEF Back, Made, Unmade, Typed, Sorted, Limits
  <1>11. planned >= 2 * Chatter + 3
    BY <1>2, <1>4 DEF Back, Made, Unmade, Typed, Sorted, Limits
  <1>12. Profile(full - x)
    BY <1>4 DEF Back
  <1>13. Profile(full - x)'
    <2>1. PICK lost \in Nat : lost = full - x
      BY <1>9
    <2>2. PICK more \in Nat : more = full - x + tim5.cnt
      BY <1>9
    <2>3. Profile(lost)
      BY <1>12, <2>1
    <2>4. more = lost + tim5.cnt
      BY <1>2, <2>1, <2>2 DEF Typed, Sorted
    <2>5. Profile(more)'
      BY <1>2, <1>5, <1>6, <1>10, <1>11, <2>2, <2>3, <2>4, CorrectProfile
    <2>6. more = full - x'
      BY <1>2, <1>7, <2>2 DEF Typed, Sorted
    <2>7. QED
      BY <2>5, <2>6
  <1>14. Back(full)'
    BY <1>2, <1>4, <1>5, <1>6, <1>7, <1>10, <1>13
       DEF Back, Made, Unmade, Typed, Sorted, Limits
  <1>15. ReturnInv'
    BY <1>3, <1>6, <1>7, <1>14 DEF ReturnInv
  <1>16. SwitchInv' /\ StandingInv' /\ ~Stopped' /\ ~dma'.te
    BY <1>2, <1>6 DEF TrackingInv, SwitchInv, StandingInv, Standing, Stopped
  <1>17. QED
    BY <1>1, <1>6, <1>15, <1>16 DEF TrackingInv, Under

\* No switch is unexpected.
LEMMA LimitUnexpectedStep ==
  ASSUME Undisturbed, IInv, IInv', TrackingInv, NEW s \in Switches, LimitUnexpected(s)
  PROVE  FALSE
  <1>1. LimitEnter(s)
    BY DEF LimitUnexpected
  <1>2. /\ Typed /\ motorOn /\ ~Standing /\ xState \in Busy /\ h4 = "none"
        /\ s = "MIN" => pos <= Chatter
        /\ s = "MAX" => pos >= Track - Chatter /\ exti = {"MAX"}
    BY <1>1, LimitContext
  <1>3. ~Under("NONE")
    BY <1>2 DEF TrackingInv, MoveInv, Clear, Typed, Sorted, Limits
  <1>4. calib = "CORRECT_MAX" => s = "MAX"
    BY <1>2 DEF TrackingInv, Under, ReturnInv, Typed, Sorted, Limits
  <1>5. calib = "CORRECT_MAX" => tim5.cnt <= xMax
    <2> SUFFICES ASSUME calib = "CORRECT_MAX" PROVE tim5.cnt <= xMax
      OBVIOUS
    <2>1. ReturnInv /\ pos >= Track - Chatter
      BY <1>2, <1>4 DEF TrackingInv, Under
    <2>2. PICK full \in Nat : Back(full)
      BY <2>1 DEF ReturnInv
    <2>3. QED
      BY <1>2, <2>1, <2>2 DEF ReturnInv, Back, Made, Unmade, Typed, Sorted, Limits
  <1>6. xState # "EMERGENCY_STOPPED"
    BY <1>2
  <1>7. calib # "NONE"
    BY <1>2, <1>3 DEF Under
  <1>8. QED
    BY <1>2, <1>4, <1>5, <1>6, <1>7 DEF LimitUnexpected, Typed, Sorted

\* The search for MAX starts near MIN, forwards.
LEMMA LimitToMaxStep ==
  ASSUME Undisturbed, IInv, IInv', TrackingInv, LimitToMax
  PROVE  TrackingInv'
  <1>1. Typed /\ tim5 \in TimerStates /\ dma \in DmaStates
    BY TypedHold DEF IInv, TypeOK
  <1>2. h2 = "toMax" /\ calib = "MIN" /\ ~Standing /\ xState \in Busy /\ h4 = "none"
    BY <1>1 DEF LimitToMax, IInv, StageInv, TrackingInv, StandingInv, Standing, Stopped,
                Typed, Sorted
  <1>3. ToMinInv
    BY <1>2 DEF TrackingInv, Under
  <1>4. [tim5 EXCEPT !.cnt = 0] \in TimerStates
    BY <1>1, TimerType
  <1>5. /\ xState' = "ACCELERATING_AND_CONSTANT" /\ motorOn' = TRUE /\ phase' = "high"
        /\ tim5'.cnt = 1 /\ dma'.te = dma.te /\ dma'.left < Steps
    <2>1. MoveUntilLimitSwitchTriggers([tim5 EXCEPT !.cnt = 0])
      BY DEF LimitToMax
    <2>2. QED
      BY <1>1, <1>2, <1>3, <1>4, <2>1, SearchEffect DEF ToMinInv, Typed
  <1>6. /\ calib' = "MAX" /\ direction' = "FORWARD" /\ h2' = "none"
        /\ UNCHANGED <<figures, machine, exti, level3, level4>>
    BY DEF LimitToMax
  <1>7. exti = {} /\ pos <= Chatter /\ "MAX" \notin closed
    BY <1>1, <1>2, <1>3 DEF ToMinInv, TrackingInv, SwitchInv, Typed, Sorted, Limits
  <1>8. SwitchInv' /\ StandingInv' /\ ~Stopped' /\ ~dma'.te
    BY <1>1, <1>2, <1>5, <1>6, <1>7
       DEF TrackingInv, SwitchInv, StandingInv, Standing, Stopped
  <1>9. ToMaxInv'
    BY <1>1, <1>3, <1>5, <1>6, <1>7
       DEF ToMinInv, ToMaxInv, SearchHandlers, Made, Unmade, TrackingInv, SwitchInv, Typed, Sorted, Limits
  <1>10. QED
    BY <1>5, <1>6, <1>8, <1>9 DEF TrackingInv, Under

\* The return starts from MAX, over half of what has been counted.
LEMMA LimitToMiddleStep ==
  ASSUME Undisturbed, IInv, IInv', TrackingInv, LimitToMiddle
  PROVE  TrackingInv'
  <1>1. Typed /\ tim5 \in TimerStates /\ dma \in DmaStates
    BY TypedHold DEF IInv, TypeOK
  <1>2. h2 = "toMiddle" /\ calib = "MAX" /\ ~Standing /\ xState \in Busy /\ h4 = "none"
    BY <1>1 DEF LimitToMiddle, IInv, StageInv, TrackingInv, StandingInv, Standing, Stopped,
                Typed, Sorted
  <1>3. ToMaxInv
    BY <1>2 DEF TrackingInv, Under
  <1>4. /\ ~motorOn /\ pos >= Track - Chatter /\ h3 = "none" /\ ~dma.tc /\ ~dma.on
        /\ -1 <= pos - tim5.cnt /\ pos - tim5.cnt <= Chatter + 1
    BY <1>2, <1>3 DEF ToMaxInv
  <1>5. /\ calib' = "CORRECT_MAX" /\ xMax' = tim5.cnt /\ x' = tim5.cnt /\ h2' = "none"
        /\ positionControllerMove("BACKWARD", tim5.cnt \div 2)
        /\ UNCHANGED <<errors, machine, exti, level3, level4>>
    BY DEF LimitToMiddle
  <1>6. tim5.cnt \div 2 \in Nat /\ tim5.cnt \div 2 > 0
    BY <1>1, <1>4 DEF Typed, Sorted, Limits
  <1>7. MoveBegun("BACKWARD", tim5.cnt \div 2)
    BY <1>1, <1>2, <1>4, <1>5, <1>6, MoveEffect DEF Typed, TrackingInv
  <1>8. /\ exti = {} /\ "MIN" \notin closed /\ (pos = Track => "MAX" \in closed)
        /\ pos <= Track /\ pos > Chatter
    BY <1>1, <1>4 DEF TrackingInv, SwitchInv, Typed, Sorted, Limits
  <1>9. SwitchInv' /\ StandingInv' /\ ~Stopped' /\ ~dma'.te
    BY <1>1, <1>2, <1>5, <1>7, <1>8
       DEF TrackingInv, SwitchInv, StandingInv, Standing, Stopped, MoveBegun
  <1>10. ReturnInv'
    <2>1. PICK full \in Nat : full = tim5.cnt
      BY <1>1 DEF Typed, Sorted
    <2>2. Made' = 0
      BY <1>7 DEF MoveBegun, Made, Unmade
    <2>3. Profile(full - x)'
      BY <1>5, <1>7, <2>1 DEF MoveBegun
    <2>4. Back(full)'
      BY <1>1, <1>4, <1>5, <1>7, <1>8, <2>1, <2>2, <2>3
         DEF Back, MoveBegun, Typed, Sorted, Limits
    <2>5. QED
      BY <1>1, <1>5, <1>7, <1>8, <2>4 DEF ReturnInv, MoveBegun, Typed, Sorted
  <1>11. QED
    BY <1>5, <1>7, <1>9, <1>10 DEF TrackingInv, Under, MoveBegun

-----------------------------------------------------------------------------
(* The handlers of pulse counter and DMA during a movement.                 *)

\* The count lost to the chatter of MAX is a small part of the way back.
LEMMA LossBound ==
  ASSUME Limits, Sorted, NEW full \in Nat, Back(full)
  PROVE  full - x \in Nat /\ full - x < planned /\ Profile(full - x)
  <1>1. full - x \in Nat /\ full - x <= Chatter + 1 /\ Profile(full - x)
    BY DEF Back, Limits, Sorted
  <1>2. Made \in Int
    BY DEF Made, Unmade, Sorted
  <1>3. full >= Track - 2 * Chatter - 1
    BY <1>2 DEF Back, Limits, Sorted
  <1>4. full - x < planned
    BY <1>1, <1>3 DEF Back, Limits, Sorted
  <1>5. QED
    BY <1>1, <1>4

\* A movement under way is half of a calibration, or one that was asked for.
LEMMA LegContext ==
  ASSUME Typed, TrackingInv, h2 = "none", h3 \notin {"none", "tc", "tcState"}, xState # "IDLE"
  PROVE  /\ xState \in Busy /\ calib \in {"CORRECT_MAX", "NONE"} /\ h4 = "none"
         /\ \E lost \in Nat : Profile(lost) /\ lost < planned
  <1>1. xState \in Busy /\ h4 = "none"
    BY DEF TrackingInv, StandingInv, Standing, Stopped, Typed, Sorted
  <1>2. calib \in {"CORRECT_MAX", "NONE"}
    BY <1>1 DEF TrackingInv, Under, ToMinInv, ToMaxInv, SearchHandlers, Typed, Sorted
  <1>3. CASE calib = "NONE"
    <2>1. Profile(0) /\ planned > 0
      BY <1>1, <1>3 DEF TrackingInv, Under, MoveInv, Profile
    <2>2. QED
      BY <1>1, <1>3, <2>1
  <1>4. CASE calib = "CORRECT_MAX"
    <2>1. PICK full \in Nat : Back(full)
      BY <1>1, <1>4 DEF TrackingInv, Under, ReturnInv
    <2>2. full - x \in Nat /\ full - x < planned /\ Profile(full - x)
      BY <2>1, LossBound DEF Typed
    <2>3. QED
      BY <1>1, <1>4, <2>2
  <1>5. QED
    BY <1>2, <1>3, <1>4

\* Where the carriage is follows from the count, while neither of them changes.
LEMMA PlaceKept ==
  ASSUME Typed, xState \in Busy, Made' = Made,
         UNCHANGED <<x, xMax, planned, direction, pos, closed, exti>>,
         \A lost \in Nat : lost < planned /\ Profile(lost) => Profile(lost)'
  PROVE  (ReturnInv => ReturnInv') /\ (MoveInv => MoveInv')
  <1>1. ASSUME MoveInv
        PROVE  MoveInv'
    <2>1. Profile(0)'
      BY <1>1 DEF MoveInv, Profile
    <2>2. QED
      BY <1>1, <2>1 DEF MoveInv, Clear, Allowed, Exact
  <1>2. ASSUME ReturnInv
        PROVE  ReturnInv'
    <2>1. PICK full \in Nat : Back(full)
      BY <1>2 DEF ReturnInv
    <2>2. full - x \in Nat /\ full - x < planned /\ Profile(full - x)
      BY <2>1, LossBound DEF Typed
    <2>3. Profile(full - x)'
      BY <2>2
    <2>4. Back(full)'
      BY <2>1, <2>3 DEF Back
    <2>5. QED
      BY <1>2, <2>4 DEF ReturnInv
  <1>3. QED
    BY <1>1, <1>2

\* So the handlers have to keep the profile only, as long as the motor is on.
LEMMA LegKept ==
  ASSUME Typed, TrackingInv, xState \in Busy, xState' \in Busy,
         calib \in {"CORRECT_MAX", "NONE"}, h4 = "none",
         tim5'.cnt = tim5.cnt, ~dma'.te,
         UNCHANGED <<calib, x, xMax, planned, direction, pos, closed, exti, motorOn, phase, h4>>,
         \A lost \in Nat : lost < planned /\ Profile(lost) => Profile(lost)'
  PROVE  TrackingInv'
  <1>1. Made' = Made
    BY DEF Made, Unmade
  <1>2. (ReturnInv => ReturnInv') /\ (MoveInv => MoveInv')
    BY <1>1, PlaceKept
  <1>3. SwitchInv' /\ StandingInv' /\ ~Stopped'
    BY DEF TrackingInv, SwitchInv, StandingInv, Standing, Stopped
  <1>4. QED
    BY <1>2, <1>3 DEF TrackingInv, Under

\* The compare interrupt comes when the movement has to slow down or to end.
LEMMA Cc1EnterStep ==
  ASSUME Undisturbed, IInv, IInv', TrackingInv, Cc1Enter
  PROVE  TrackingInv'
  <1>1. Typed
    BY TypedHold
  <1>2. /\ h2 = "none" /\ h3 = "none" /\ tim5.cc1 /\ tim5.ie /\ h3' = "cc1" /\ caller' = "TIM5"
        /\ UNCHANGED <<drive, calib, direction, figures, tim5, machine, exti, h2, st, actual,
                       level4>>
    BY DEF Cc1Enter, At3
  <1>3. xState \in {"CONSTANT", "ACCELERATING_AND_CONSTANT"} /\ calib \in {"CORRECT_MAX", "NONE"}
    BY <1>1, <1>2 DEF IInv, CompareInv, TrackingInv, Stopped, Searching, Standing, TimerHandler,
                      Typed, Sorted
  <1>4. h4 = "none"
    BY <1>3 DEF TrackingInv, StandingInv, Standing
  <1>5. ASSUME NEW lost \in Nat, Profile(lost)
        PROVE  Profile(lost)'
    <2>1. Ending'
      BY <1>2, <1>5 DEF Profile, Ending
    <2>2. xState = "CONSTANT" => AtConstantSpeed'
      BY <1>2, <1>5 DEF Profile, AtConstantSpeed
    <2>3. xState = "ACCELERATING_AND_CONSTANT" => AcceleratingAndConstant'
      BY <1>1, <1>2, <1>5 DEF Profile, AcceleratingAndConstant, Typed, Sorted, Limits
    <2>4. QED
      BY <1>2, <1>3, <1>5, <2>1, <2>2, <2>3 DEF Profile
  <1>6. QED
    BY <1>1, <1>2, <1>3, <1>4, <1>5, LegKept DEF TrackingInv

\* Its handler finds the state it has come in.
LEMMA Cc1DispatchStep ==
  ASSUME Undisturbed, IInv, IInv', TrackingInv, Cc1Dispatch
  PROVE  TrackingInv'
  <1>1. Typed
    BY TypedHold
  <1>2. /\ h2 = "none" /\ h3 \in {"cc1", "cc1Again"}
        /\ h3 = "cc1" => h3' = IF xState = "ACCELERATING_AND_CONSTANT" THEN "slow" ELSE "cc1Again"
        /\ h3 = "cc1Again" => h3' = IF xState = "CONSTANT" THEN "count" ELSE "stop"
        /\ UNCHANGED <<drive, calib, direction, figures, tim5, machine, exti, h2, level4,
                       caller, st, actual>>
    BY DEF Cc1Dispatch, At3, Goto3
  <1>3. xState # "IDLE"
    BY <1>2 DEF TrackingInv, StandingInv
  <1>4. xState \in Busy /\ calib \in {"CORRECT_MAX", "NONE"} /\ h4 = "none"
    BY <1>1, <1>2, <1>3, LegContext
  <1>5. ASSUME NEW lost \in Nat, Profile(lost)
        PROVE  Profile(lost)'
    <2>1. Ending'
      BY <1>2, <1>5 DEF Profile, Ending
    <2>2. xState = "CONSTANT" => AtConstantSpeed'
      BY <1>2, <1>5 DEF Profile, AtConstantSpeed
    <2>3. xState = "ACCELERATING_AND_CONSTANT" => AcceleratingAndConstant'
      BY <1>2, <1>5 DEF Profile, AcceleratingAndConstant
    <2>4. xState \notin {"ACCELERATING", "SLOWING_DOWN"}
      BY <1>2, <1>5 DEF Profile, Accelerating, SlowingDown
    <2>5. QED
      BY <1>2, <1>5, <2>1, <2>2, <2>3, <2>4 DEF Profile
  <1>6. QED
    BY <1>1, <1>2, <1>4, <1>5, LegKept DEF TrackingInv

\* Its end leaves a movement that slows down, or one that is over.
LEMMA Cc1EndStep ==
  ASSUME Undisturbed, IInv, IInv', TrackingInv, Cc1End
  PROVE  TrackingInv'
  <1>1. Typed
    BY TypedHold
  <1>2. /\ h2 = "none" /\ h3 = "cc1End" /\ h3' = "none"
        /\ tim5'.cnt = tim5.cnt /\ tim5'.ccr = tim5.ccr /\ ~tim5'.cc1 /\ ~tim5'.ie
        /\ UNCHANGED <<drive, calib, direction, figures, machine, exti, h2, level4, caller, st,
                       actual>>
    BY DEF Cc1End, At3, Goto3, IInv, TypeOK, TimerStates
  <1>3. CASE xState = "IDLE"
    <2>1. SwitchInv' /\ StandingInv' /\ ~Stopped' /\ ~dma'.te
      BY <1>2, <1>3 DEF TrackingInv, SwitchInv, StandingInv, Standing, Stopped, Clear, Exact
    <2>2. QED
      BY <1>2, <1>3, <2>1 DEF TrackingInv, Under
  <1>4. CASE xState # "IDLE"
    <2>1. xState \in Busy /\ calib \in {"CORRECT_MAX", "NONE"} /\ h4 = "none"
      BY <1>1, <1>2, <1>4, LegContext
    <2>2. ASSUME NEW lost \in Nat, Profile(lost)
          PROVE  Profile(lost)'
      <3>1. xState = "SLOWING_DOWN"
        BY <1>2, <2>1, <2>2
           DEF Profile, AtConstantSpeed, Accelerating, AcceleratingAndConstant
      <3>2. SlowingDown(lost)'
        BY <1>2, <2>2, <3>1 DEF Profile, SlowingDown
      <3>3. Ending'
        BY <1>2, <2>2, <3>1 DEF Profile, Ending, SlowingDown
      <3>4. QED
        BY <1>2, <2>2, <3>1, <3>2, <3>3 DEF Profile
    <2>3. QED
      BY <1>1, <1>2, <2>1, <2>2, LegKept DEF TrackingInv
  <1>5. QED
    BY <1>3, <1>4

\* The end of the profile is flagged in a busy state; in a search for MAX, before MAX is near.
LEMMA DmaEnterStep ==
  ASSUME Undisturbed, IInv, IInv', TrackingInv, DmaEnter
  PROVE  TrackingInv'
  <1>1. Typed
    BY TypedHold
  <1>2. /\ h2 = "none" /\ h3 = "none" /\ dma.tc /\ h3' = "tc" /\ caller' = "DMA"
        /\ dma'.on = dma.on /\ dma'.left = dma.left /\ ~dma'.tc /\ ~dma'.te /\ dma'.req = dma.req
        /\ UNCHANGED <<xState, motorOn, phase, calib, direction, figures, tim5, machine, exti,
                       h2, st, actual, level4>>
    BY DEF DmaEnter, At3, TrackingInv, IInv, TypeOK, DmaStates
  <1>3. ~Standing /\ xState \in Busy /\ h4 = "none"
    BY <1>1, <1>2 DEF TrackingInv, StandingInv, Standing, Stopped, Typed, Sorted
  <1>4. CASE calib \in {"MIN", "MAX"}
    <2>1. SwitchInv' /\ StandingInv' /\ ~Stopped'
      BY <1>2, <1>3 DEF TrackingInv, SwitchInv, StandingInv, Standing, Stopped
    <2>2. (Under("MIN") => ToMinInv') /\ (Under("MAX") => ToMaxInv')
      BY <1>2, <1>3 DEF TrackingInv, ToMinInv, ToMaxInv, SearchHandlers, Made, Unmade
    <2>3. QED
      BY <1>2, <1>4, <2>1, <2>2 DEF TrackingInv, Under
  <1>5. CASE calib \in {"CORRECT_MAX", "NONE"}
    <2>1. ASSUME NEW lost \in Nat, Profile(lost)
          PROVE  Profile(lost)'
      <3>1. Ending'
        BY <1>2, <2>1 DEF Profile, Ending
      <3>2. xState # "CONSTANT"
        BY <1>2, <2>1 DEF Profile, AtConstantSpeed
      <3>3. xState = "ACCELERATING" => Accelerating(lost)'
        BY <1>2, <2>1 DEF Profile, Accelerating
      <3>4. xState = "ACCELERATING_AND_CONSTANT" => AcceleratingAndConstant'
        BY <1>2, <2>1 DEF Profile, AcceleratingAndConstant
      <3>5. xState = "SLOWING_DOWN" => SlowingDown(lost)'
        BY <1>2, <2>1 DEF Profile, SlowingDown
      <3>6. QED
        BY <1>2, <2>1, <3>1, <3>2, <3>3, <3>4, <3>5 DEF Profile
    <2>2. QED
      BY <1>1, <1>2, <1>3, <1>5, <2>1, LegKept
  <1>6. QED
    BY <1>1, <1>4, <1>5 DEF Typed, Sorted

\* No transfer fails, so the channel is disabled because its profile has ended.
LEMMA DmaDisableStep ==
  ASSUME Undisturbed, IInv, IInv', TrackingInv, DmaDisable
  PROVE  TrackingInv'
  <1>1. Typed
    BY TypedHold
  <1>2. /\ h2 = "none" /\ h3 \in {"te", "tc"} /\ (h3 = "tc" => h3' = "tcState")
        /\ dma'.on = FALSE /\ dma'.left = dma.left /\ dma'.tc = dma.tc /\ dma'.te = dma.te
        /\ dma'.req = dma.req
        /\ UNCHANGED <<xState, motorOn, phase, calib, direction, figures, tim5, machine, exti,
                       h2, caller, st, actual, level4>>
    BY DEF DmaDisable, At3, Goto3, Channel, IInv, TypeOK, DmaStates
  <1>3. xState \in Busy /\ h4 = "none"
    BY <1>1, <1>2 DEF TrackingInv, StandingInv, Standing, Stopped, Typed, Sorted
  <1>4. CASE calib \in {"MIN", "MAX"}
    <2>1. h3 = "tc"
      BY <1>2, <1>3, <1>4 DEF TrackingInv, Under, ToMinInv, ToMaxInv, SearchHandlers
    <2>2. SwitchInv' /\ StandingInv' /\ ~Stopped' /\ ~dma'.te
      BY <1>2, <1>3 DEF TrackingInv, SwitchInv, StandingInv, Standing, Stopped
    <2>3. (Under("MIN") => ToMinInv') /\ (Under("MAX") => ToMaxInv')
      BY <1>2, <1>3, <2>1 DEF TrackingInv, ToMinInv, ToMaxInv, SearchHandlers, Made, Unmade
    <2>4. QED
      BY <1>2, <1>4, <2>2, <2>3 DEF TrackingInv, Under
  <1>5. CASE calib \in {"CORRECT_MAX", "NONE"}
    <2>1. ASSUME NEW lost \in Nat, Profile(lost)
          PROVE  Profile(lost)'
      <3>1. h3 = "tc" /\ h3' = "tcState"
        BY <1>2, <1>3, <2>1
           DEF Profile, AtConstantSpeed, Accelerating, AcceleratingAndConstant, SlowingDown
      <3>2. Ending'
        BY <1>2, <2>1, <3>1 DEF Profile, Ending
      <3>3. xState # "CONSTANT"
        BY <2>1, <3>1 DEF Profile, AtConstantSpeed
      <3>4. xState = "ACCELERATING" => Accelerating(lost)'
        BY <1>2, <2>1, <3>1 DEF Profile, Accelerating
      <3>5. xState = "ACCELERATING_AND_CONSTANT" => AcceleratingAndConstant'
        BY <1>2, <2>1, <3>1 DEF Profile, AcceleratingAndConstant
      <3>6. xState = "SLOWING_DOWN" => SlowingDown(lost)'
        BY <1>2, <2>1, <3>1 DEF Profile, SlowingDown
      <3>7. QED
        BY <1>2, <2>1, <3>2, <3>3, <3>4, <3>5, <3>6 DEF Profile
    <2>2. QED
      BY <1>1, <1>2, <1>3, <1>5, <2>1, LegKept DEF TrackingInv
  <1>6. QED
    BY <1>1, <1>4, <1>5 DEF Typed, Sorted

\* What the end of the profile means depends on the state, which is the one it was for.
LEMMA DmaDispatchStep ==
  ASSUME Undisturbed, IInv, IInv', TrackingInv, DmaDispatch
  PROVE  TrackingInv'
  <1>1. Typed
    BY TypedHold
  <1>2. /\ h2 = "none" /\ h3 = "tcState" /\ caller = "DMA"
        /\ xState = "SLOWING_DOWN" => h3' = "count"
        /\ xState = "ACCELERATING" => h3' = "slow"
        /\ xState = "ACCELERATING_AND_CONSTANT" => h3' = "none"
        /\ UNCHANGED <<drive, calib, direction, figures, tim5, machine, exti, h2, caller, st,
                       actual, level4>>
    <2>1. xState = "SLOWING_DOWN" => h3' = "count"
      BY DEF DmaDispatch, Goto3
    <2>2. xState = "ACCELERATING" => h3' = "slow"
      BY DEF DmaDispatch, Goto3
    <2>3. xState = "ACCELERATING_AND_CONSTANT" => h3' = "none"
      BY DEF DmaDispatch, Goto3
    <2>4. QED
      BY <2>1, <2>2, <2>3 DEF DmaDispatch, At3, Goto3, IInv, HandlerInv
  <1>3. xState \in Busy /\ h4 = "none"
    BY <1>1, <1>2 DEF TrackingInv, StandingInv, Standing, Stopped, Typed, Sorted
  <1>4. CASE calib \in {"MIN", "MAX"}
    <2>1. h3' = "none"
      BY <1>2, <1>3, <1>4 DEF IInv, StageInv, Searching
    <2>2. SwitchInv' /\ StandingInv' /\ ~Stopped' /\ ~dma'.te
      BY <1>2, <1>3 DEF TrackingInv, SwitchInv, StandingInv, Standing, Stopped
    <2>3. (Under("MIN") => ToMinInv') /\ (Under("MAX") => ToMaxInv')
      BY <1>2, <1>3, <2>1 DEF TrackingInv, ToMinInv, ToMaxInv, SearchHandlers, Made, Unmade
    <2>4. QED
      BY <1>2, <1>4, <2>2, <2>3 DEF TrackingInv, Under
  <1>5. CASE calib \in {"CORRECT_MAX", "NONE"}
    <2>1. ASSUME NEW lost \in Nat, Profile(lost)
          PROVE  Profile(lost)'
      <3>1. Ending'
        BY <1>2, <1>3, <2>1 DEF Profile, Ending, AtConstantSpeed
      <3>2. xState # "CONSTANT"
        BY <1>2, <2>1 DEF Profile, AtConstantSpeed
      <3>3. xState = "ACCELERATING" => Accelerating(lost)'
        BY <1>2, <2>1 DEF Profile, Accelerating
      <3>4. xState = "ACCELERATING_AND_CONSTANT" => AcceleratingAndConstant'
        BY <1>2, <2>1 DEF Profile, AcceleratingAndConstant
      <3>5. xState = "SLOWING_DOWN" => SlowingDown(lost)'
        BY <1>2, <2>1 DEF Profile, SlowingDown
      <3>6. QED
        BY <1>2, <2>1, <3>1, <3>2, <3>3, <3>4, <3>5 DEF Profile
    <2>2. QED
      BY <1>1, <1>2, <1>3, <1>5, <2>1, LegKept DEF TrackingInv
  <1>6. QED
    BY <1>1, <1>4, <1>5 DEF Typed, Sorted

\* By the time a movement that keeps its speed slows down, MAX is behind it.
LEMMA FastIsClear ==
  ASSUME Typed, TrackingInv, h3 = "slow", xState = "ACCELERATING_AND_CONSTANT",
         calib \in {"CORRECT_MAX", "NONE"}
  PROVE  pos < Track - Chatter
  <1>1. CASE calib = "NONE"
    BY <1>1 DEF TrackingInv, Under, MoveInv, Clear
  <1>2. CASE calib = "CORRECT_MAX"
    <2>1. PICK full \in Nat : Back(full)
      BY <1>2 DEF TrackingInv, Under, ReturnInv
    <2>2. Made \in Int /\ Made >= tim5.cnt - 1
      BY DEF Made, Unmade, Typed, Sorted
    <2>3. full - x \in Nat /\ Profile(full - x)
      BY <2>1, LossBound DEF Typed
    <2>4. AcceleratingAndConstant
      BY <2>3 DEF Profile
    <2>5. planned > 2 * Steps /\ tim5.cnt = planned - Steps + 1
      BY <2>4 DEF AcceleratingAndConstant
    <2>6. full >= Track - 2 * Chatter - 1 /\ 2 * planned + 1 >= full
      BY <2>1, <2>2 DEF Back, Typed, Sorted, Limits
    <2>7. pos <= Track - Made
      BY <2>1, <2>2, <2>3 DEF Back, Typed, Sorted, Limits
    <2>8. Made >= Chatter + 1
      BY <2>2, <2>5, <2>6 DEF Typed, Sorted, Limits
    <2>9. QED
      BY <2>2, <2>7, <2>8 DEF Typed, Sorted, Limits
  <1>3. QED
    BY <1>1, <1>2

\* Slowing down starts with as many items as there are pulses left to make.
LEMMA SlowDownStep ==
  ASSUME Undisturbed, IInv, IInv', TrackingInv, SlowDown
  PROVE  TrackingInv'
  <1>1. Typed /\ dma \in DmaStates
    BY TypedHold DEF IInv, TypeOK
  <1>2. h2 = "none" /\ h3 = "slow"
    BY DEF SlowDown, At3
  <1>3. xState \in Busy /\ calib \in {"CORRECT_MAX", "NONE"} /\ h4 = "none"
        /\ \E lost \in Nat : Profile(lost) /\ lost < planned
    <2>1. xState # "IDLE"
      BY <1>2 DEF TrackingInv, StandingInv
    <2>2. QED
      BY <1>1, <1>2, <2>1, LegContext
  <1>4. ~dma.on /\ ~dma.tc /\ xState \in {"ACCELERATING", "ACCELERATING_AND_CONSTANT"}
    BY <1>2, <1>3
       DEF Profile, AtConstantSpeed, Accelerating, AcceleratingAndConstant, SlowingDown
  <1>5. /\ xState' = "SLOWING_DOWN"
        /\ h3' = IF caller = "TIM5" THEN "cc1End" ELSE "none"
        /\ UNCHANGED <<motorOn, phase, calib, direction, figures, tim5, machine, exti, h2,
                       caller, st, actual, level4>>
    BY <1>3, <1>4 DEF SlowDown, startSlowingDown_Atomic, Goto3, Return3
  <1>6. /\ dma'.on /\ dma'.te = dma.te
        /\ dma'.left = (IF dma.req THEN slowDown ELSE slowDown + 1)
        /\ dma'.tc <=> dma'.left = 0
    <2>1. slowDown \in Nat /\ slowDown + 1 \in Nat /\ slowDown + 1 > 0
      BY <1>1 DEF Typed, Sorted
    <2>2. dma' = Arm(dma, slowDown + 1)
      BY <1>4 DEF SlowDown, startSlowingDown_Atomic
    <2>3. QED
      BY <1>1, <1>4, <2>1, <2>2, ArmEffect
  <1>7. xState = "ACCELERATING_AND_CONSTANT" => pos < Track - Chatter
    BY <1>1, <1>2, <1>3, FastIsClear
  <1>8. ASSUME NEW lost \in Nat, Profile(lost)
        PROVE  Profile(lost)'
    <2>1. CASE xState = "ACCELERATING"
      <3>1. Accelerating(lost) /\ caller = "DMA"
        BY <1>2, <1>8, <2>1 DEF Profile, Accelerating
      <3>2. SlowingDown(lost)'
        BY <1>1, <1>2, <1>5, <1>6, <3>1 DEF Accelerating, SlowingDown, Typed, Sorted, Limits
      <3>3. Ending'
        BY <1>2, <1>5, <1>8, <3>1 DEF Profile, Ending
      <3>4. QED
        BY <1>5, <1>8, <3>2, <3>3 DEF Profile
    <2>2. CASE xState = "ACCELERATING_AND_CONSTANT"
      <3>1. AcceleratingAndConstant /\ caller = "TIM5"
        BY <1>2, <1>8, <2>2 DEF Profile, AcceleratingAndConstant
      <3>2. SlowingDown(lost)'
        BY <1>1, <1>2, <1>5, <1>6, <1>7, <2>2, <3>1
           DEF AcceleratingAndConstant, SlowingDown, Typed, Sorted, Limits
      <3>3. Ending'
        BY <1>2, <1>5, <1>8, <3>1 DEF Profile, Ending
      <3>4. QED
        BY <1>5, <1>8, <3>2, <3>3 DEF Profile
    <2>3. QED
      BY <1>4, <2>1, <2>2
  <1>9. QED
    BY <1>1, <1>3, <1>5, <1>6, <1>8, LegKept DEF TrackingInv

-----------------------------------------------------------------------------
(* finishedRepositioning.                                                   *)

\* A movement that is being closed is clear of the switches, it has made all but the last
\* of the pulses counted, and the carriage is where they have taken it.
Arrived ==
  /\ Clear /\ closed = {} /\ exti = {}
  /\ xState \in {"CONSTANT", "SLOWING_DOWN"} /\ calib \in {"CORRECT_MAX", "NONE"}
  /\ h4 = "none" /\ ~dma.tc
  /\ tim5.cnt >= 1 /\ Made = tim5.cnt - 1
  /\ direction \in Directions
  /\ direction = "FORWARD" => Exact(pos - x - Made) /\ x + Made <= xMax
  /\ direction = "BACKWARD" => Exact(pos - x + Made) /\ Made <= x

\* What the profile says of a movement that is being closed.
LEMMA ProfileEnd ==
  ASSUME Limits, Sorted, xState \in Busy, Finishing,
         NEW lost \in Nat, Profile(lost), lost < planned
  PROVE  /\ xState \in {"CONSTANT", "SLOWING_DOWN"} /\ ~dma.tc
         /\ Made = tim5.cnt - 1 /\ tim5.cnt >= 1
         /\ planned - lost <= tim5.cnt /\ Made <= planned + 1
  <1>1. xState \in {"CONSTANT", "SLOWING_DOWN"}
    BY DEF Profile, Accelerating, AcceleratingAndConstant, Finishing
  <1>2. Made = tim5.cnt - 1
    BY DEF Profile, Ending, Made, Unmade, Finishing
  <1>3. CASE xState = "CONSTANT"
    BY <1>2, <1>3 DEF Profile, AtConstantSpeed, Finishing, Limits, Sorted
  <1>4. CASE xState = "SLOWING_DOWN"
    BY <1>2, <1>4 DEF Profile, SlowingDown, Finishing, Limits, Sorted
  <1>5. QED
    BY <1>1, <1>2, <1>3, <1>4

\* So it is, whether it was asked for or ends a calibration.
LEMMA ArrivedHolds ==
  ASSUME Typed, TrackingInv, h2 = "none", Finishing
  PROVE  Arrived
  <1>1. xState # "IDLE"
    BY DEF TrackingInv, StandingInv, Finishing
  <1>2. xState \in Busy /\ calib \in {"CORRECT_MAX", "NONE"} /\ h4 = "none"
    BY <1>1, LegContext DEF Finishing
  <1>3. CASE calib = "NONE"
    <2>1. MoveInv
      BY <1>2, <1>3 DEF TrackingInv, Under
    <2>2. Profile(0) /\ 0 < planned
      BY <2>1 DEF MoveInv, Profile
    <2>3. /\ xState \in {"CONSTANT", "SLOWING_DOWN"} /\ ~dma.tc
          /\ Made = tim5.cnt - 1 /\ tim5.cnt >= 1 /\ Made <= planned + 1
      BY <1>2, <2>2, ProfileEnd DEF Typed
    <2>4. exti = {}
      BY <2>1 DEF MoveInv, Clear, TrackingInv, SwitchInv, Typed, Sorted, Limits
    <2>5. /\ direction = "FORWARD" => x + Made <= xMax
          /\ direction = "BACKWARD" => Made <= x
      BY <2>1, <2>3 DEF MoveInv, Allowed, Typed, Sorted, Limits
    <2>6. QED
      BY <1>2, <2>1, <2>3, <2>4, <2>5 DEF Arrived, MoveInv
  <1>4. CASE calib = "CORRECT_MAX"
    <2>1. ReturnInv
      BY <1>2, <1>4 DEF TrackingInv, Under
    <2>2. PICK full \in Nat : Back(full)
      BY <2>1 DEF ReturnInv
    <2>3. full - x \in Nat /\ full - x < planned /\ Profile(full - x)
      BY <2>2, LossBound DEF Typed
    <2>4. /\ xState \in {"CONSTANT", "SLOWING_DOWN"} /\ ~dma.tc
          /\ Made = tim5.cnt - 1 /\ tim5.cnt >= 1 /\ Made <= planned + 1
          /\ planned - (full - x) <= tim5.cnt
      BY <1>2, <2>3, ProfileEnd DEF Typed
    <2>5. full >= Track - 2 * Chatter - 1 /\ 2 * planned + 1 >= full /\ full >= 2 * planned
          /\ x + Chatter + 1 >= full /\ full >= x
      BY <2>2, <2>4 DEF Back, Typed, Sorted, Limits
    <2>6. Made <= x
      BY <2>4, <2>5 DEF Typed, Sorted, Limits
    <2>7. pos <= Track - (full - x) - Made
      BY <2>2, <2>4 DEF Back, Typed, Sorted, Limits
    <2>8. pos < Track - Chatter - 1
      BY <2>4, <2>5, <2>7 DEF Typed, Sorted, Limits
    <2>9. Clear /\ exti = {} /\ closed = {}
      BY <2>1, <2>8 DEF Clear, ReturnInv, TrackingInv, SwitchInv, Typed, Sorted, Limits
    <2>10. Exact(pos - x + Made)
      BY <2>1, <2>2, <2>4, <2>5 DEF Back, Exact, ReturnInv, Typed, Sorted, Limits
    <2>11. QED
      BY <1>2, <1>4, <2>1, <2>4, <2>6, <2>9, <2>10 DEF Arrived, ReturnInv
  <1>5. QED
    BY <1>2, <1>3, <1>4

\* The number of steps made is one less than the count.
LEMMA FinishCountStep ==
  ASSUME Undisturbed, IInv, IInv', TrackingInv, FinishCount
  PROVE  TrackingInv'
  <1>1. Typed
    BY TypedHold
  <1>2. /\ h2 = "none" /\ h3 = "count" /\ actual' = Wrap(tim5.cnt - 1) /\ h3' = "halt"
        /\ UNCHANGED <<drive, calib, direction, figures, tim5, machine, exti, h2, caller, st,
                       level4>>
    BY DEF FinishCount, At3
  <1>3. Arrived
    BY <1>1, <1>2, ArrivedHolds DEF Finishing
  <1>4. actual' = tim5.cnt - 1
    BY <1>1, <1>2, <1>3 DEF Arrived, Wrap, Typed, Sorted
  <1>5. ASSUME NEW lost \in Nat, Profile(lost)
        PROVE  Profile(lost)'
    <2>1. Ending'
      BY <1>2, <1>4, <1>5 DEF Profile, Ending
    <2>2. xState = "CONSTANT" => AtConstantSpeed'
      BY <1>2, <1>5 DEF Profile, AtConstantSpeed
    <2>3. xState = "SLOWING_DOWN" => SlowingDown(lost)'
      BY <1>2, <1>5 DEF Profile, SlowingDown
    <2>4. QED
      BY <1>2, <1>3, <1>5, <2>1, <2>2, <2>3 DEF Profile, Arrived
  <1>6. QED
    BY <1>1, <1>2, <1>3, <1>5, LegKept DEF TrackingInv, Arrived

\* The last pulse never makes its step: the motor is switched off, away from the switches.
LEMMA FinishHaltStep ==
  ASSUME Undisturbed, IInv, IInv', TrackingInv, FinishHalt
  PROVE  TrackingInv'
  <1>1. Typed
    BY TypedHold
  <1>2. h2 = "none" /\ h3 = "halt"
    BY DEF FinishHalt, At3
  <1>3. Arrived
    BY <1>1, <1>2, ArrivedHolds DEF Finishing
  <1>4. /\ h3' = "state" /\ motorOn' = FALSE /\ phase' = "low"
        /\ dma'.on = FALSE /\ dma'.left = dma.left /\ dma'.tc = dma.tc /\ dma'.te = dma.te
        /\ UNCHANGED <<xState, calib, direction, figures, tim5, machine, exti, h2, caller, st,
                       actual, level4>>
    <2>1. dma' = Channel(dma, FALSE) /\ motorOn' = FALSE /\ phase' = "low" /\ h3' = "state"
          /\ xState' = xState
      BY <1>3 DEF FinishHalt, Stop_Atomic, PowerOff, Goto3, Arrived
    <2>2. QED
      BY <2>1 DEF FinishHalt, Goto3, Channel, IInv, TypeOK, DmaStates
  <1>5. Made' = Made
    BY <1>3, <1>4 DEF Arrived, Made, Unmade
  <1>6. ASSUME NEW lost \in Nat, Profile(lost)
        PROVE  Profile(lost)'
    <2>1. Ending'
      BY <1>2, <1>4, <1>6 DEF Profile, Ending
    <2>2. xState = "CONSTANT" => AtConstantSpeed'
      BY <1>2, <1>4, <1>6 DEF Profile, AtConstantSpeed
    <2>3. xState = "SLOWING_DOWN" => SlowingDown(lost)'
      BY <1>2, <1>4, <1>6 DEF Profile, SlowingDown
    <2>4. QED
      BY <1>3, <1>4, <1>6, <2>1, <2>2, <2>3 DEF Profile, Arrived
  <1>7. (ReturnInv => ReturnInv') /\ (MoveInv => MoveInv')
    BY <1>1, <1>3, <1>4, <1>5, <1>6, PlaceKept DEF Arrived
  <1>8. SwitchInv'
    BY <1>1, <1>3, <1>4 DEF TrackingInv, SwitchInv, Arrived, Clear, Typed, Sorted, Limits
  <1>9. StandingInv' /\ ~Stopped' /\ ~dma'.te
    BY <1>3, <1>4 DEF TrackingInv, StandingInv, Standing, Stopped, Arrived
  <1>10. QED
    BY <1>3, <1>4, <1>7, <1>8, <1>9 DEF TrackingInv, Under, Arrived

\* The state is read once more; nothing can have changed it.
LEMMA FinishStateStep ==
  ASSUME Undisturbed, IInv, IInv', TrackingInv, FinishState
  PROVE  TrackingInv'
  <1>1. Typed
    BY TypedHold
  <1>2. /\ h2 = "none" /\ h3 = "state" /\ st' = xState /\ h3' = "settle"
        /\ UNCHANGED <<drive, calib, direction, figures, tim5, machine, exti, h2, caller, actual,
                       level4>>
    BY DEF FinishState, At3
  <1>3. Arrived
    BY <1>1, <1>2, ArrivedHolds DEF Finishing
  <1>4. ASSUME NEW lost \in Nat, Profile(lost)
        PROVE  Profile(lost)'
    <2>1. Ending'
      BY <1>2, <1>4 DEF Profile, Ending
    <2>2. xState = "CONSTANT" => AtConstantSpeed'
      BY <1>2, <1>4 DEF Profile, AtConstantSpeed
    <2>3. xState = "SLOWING_DOWN" => SlowingDown(lost)'
      BY <1>2, <1>4 DEF Profile, SlowingDown
    <2>4. QED
      BY <1>2, <1>3, <1>4, <2>1, <2>2, <2>3 DEF Profile, Arrived
  <1>5. QED
    BY <1>1, <1>2, <1>3, <1>4, LegKept DEF TrackingInv, Arrived

\* Idle is entered clear of the switches, with the position still to be updated.
LEMMA FinishSettleStep ==
  ASSUME Undisturbed, IInv, IInv', TrackingInv, FinishSettle
  PROVE  TrackingInv'
  <1>1. Typed
    BY TypedHold
  <1>2. h2 = "none" /\ h3 = "settle"
    BY DEF FinishSettle, At3
  <1>3. Arrived
    BY <1>1, <1>2, ArrivedHolds DEF Finishing
  <1>4. \E lost \in Nat : Profile(lost) /\ lost < planned
    <2>1. xState # "IDLE"
      BY <1>3 DEF Arrived
    <2>2. QED
      BY <1>1, <1>2, <2>1, LegContext
  <1>5. st = xState /\ actual = Made /\ ~motorOn /\ ~dma.on
    BY <1>2, <1>3, <1>4 DEF Profile, Ending, Arrived
  <1>6. /\ xState' = "IDLE" /\ calib' = "NONE" /\ h3' = "update"
        /\ UNCHANGED <<motorOn, phase, dma, direction, figures, tim5, machine, exti, h2, caller,
                       st, actual, level4>>
    BY <1>3, <1>5 DEF FinishSettle, Goto3, Arrived
  <1>7. SwitchInv' /\ ~Stopped' /\ ~dma'.te
    BY <1>6 DEF TrackingInv, SwitchInv, Stopped
  <1>8. StandingInv'
    BY <1>1, <1>2, <1>3, <1>5, <1>6 DEF StandingInv, Standing, Arrived, Clear, Exact
  <1>9. QED
    BY <1>6, <1>7, <1>8 DEF TrackingInv, Under

\* The position is brought up to date: it stays in its range.
LEMMA FinishUpdateStep ==
  ASSUME Undisturbed, IInv, IInv', TrackingInv, FinishUpdate
  PROVE  TrackingInv'
  <1>1. Typed
    BY TypedHold
  <1>2. h2 = "none" /\ h3 = "update"
    BY DEF FinishUpdate, At3
  <1>3. xState = "IDLE" /\ h4 = "none"
    <2>1. xState \notin Busy
      BY <1>1, <1>2
         DEF TrackingInv, Under, ToMinInv, ToMaxInv, SearchHandlers, ReturnInv, MoveInv, Back,
             Profile, AtConstantSpeed, Accelerating, AcceleratingAndConstant, SlowingDown,
             Typed, Sorted
    <2>2. QED
      BY <1>1, <1>2, <2>1 DEF TrackingInv, StandingInv, Stopped, Typed, Sorted
  <1>4. StandingInv
    BY DEF TrackingInv
  <1>5. \/ direction = "FORWARD" /\ Exact(pos - x - actual) /\ x + actual <= xMax
        \/ direction = "BACKWARD" /\ Exact(pos - x + actual) /\ actual <= x
    BY <1>2, <1>3, <1>4 DEF StandingInv
  <1>6. /\ direction = "FORWARD" => x' = x + actual /\ UNCHANGED drive
        /\ direction = "BACKWARD" => x' = x - actual /\ UNCHANGED drive
    BY <1>1, <1>5 DEF FinishUpdate, Typed, Sorted
  <1>7. /\ h3' \in {"cc1End", "none"}
        /\ UNCHANGED <<drive, calib, direction, xMax, planned, slowDown, tim5, machine, exti, h2,
                       caller, st, actual, level4>>
    BY <1>5, <1>6 DEF FinishUpdate, Goto3, Return3
  <1>8. Exact(pos - x)'
    <2>1. pos' = pos /\ xMax' = xMax
      BY <1>7
    <2>2. CASE direction = "FORWARD"
      <3>1. pos' - x' = pos - x - actual
        BY <1>1, <1>6, <2>1, <2>2 DEF Typed, Sorted
      <3>2. QED
        BY <1>5, <2>1, <2>2, <3>1 DEF Exact
    <2>3. CASE direction = "BACKWARD"
      <3>1. pos' - x' = pos - x + actual
        BY <1>1, <1>6, <2>1, <2>3 DEF Typed, Sorted
      <3>2. QED
        BY <1>5, <2>1, <2>3, <3>1 DEF Exact
    <2>4. QED
      BY <1>5, <2>2, <2>3
  <1>9. StandingInv'
    BY <1>3, <1>4, <1>7, <1>8 DEF StandingInv, Standing, Clear
  <1>10. SwitchInv' /\ ~Stopped' /\ ~dma'.te
    BY <1>7 DEF TrackingInv, SwitchInv, Stopped
  <1>11. QED
    BY <1>3, <1>7, <1>9, <1>10 DEF TrackingInv, Under

-----------------------------------------------------------------------------
(* The requests of the client.                                              *)

\* A calibration begins on a controller that stands; so far only its mark has changed.
LEMMA CalibrateStep ==
  ASSUME Undisturbed, IInv, IInv', TrackingInv, Calibrate \/ CalibrateMark \/ CalibrateTurn
  PROVE  TrackingInv'
  <1>1. Typed
    BY TypedHold
  <1>2. Standing /\ h3 = "none" /\ h2 = "none"
    BY DEF Calibrate, CalibrateMark, CalibrateTurn, At4, Standing, TrackingInv, StandingInv
  <1>3. /\ h4' = "calibrate" \/ (h4' = "turn" /\ calib' = "MIN")
           \/ (h4' = "go" /\ calib' = calib /\ h4 = "turn" /\ direction' = "BACKWARD")
        /\ UNCHANGED <<drive, figures, tim5, machine, exti, h2, level3, cmd>>
    BY DEF Calibrate, CalibrateMark, CalibrateTurn, At4
  <1>4. StandingInv'
    BY <1>2, <1>3 DEF TrackingInv, StandingInv, Standing, Clear, Exact
  <1>5. SwitchInv' /\ ~Stopped' /\ ~dma'.te
    BY <1>3 DEF TrackingInv, SwitchInv, Stopped
  <1>6. QED
    BY <1>2, <1>3, <1>4, <1>5 DEF TrackingInv, Under, Standing

\* The search for MIN starts off that switch, backwards.
LEMMA CalibrateGoStep ==
  ASSUME Undisturbed, IInv, IInv', TrackingInv, CalibrateGo
  PROVE  TrackingInv'
  <1>1. Typed /\ tim5 \in TimerStates /\ dma \in DmaStates
    BY TypedHold DEF IInv, TypeOK
  <1>2. /\ h4 = "go" /\ h3 = "none" /\ h2 = "none" /\ MoveUntilLimitSwitchTriggers(tim5)
        /\ h4' = "none"
        /\ UNCHANGED <<calib, direction, figures, machine, exti, h2, level3, cmd>>
    BY DEF CalibrateGo, At4
  <1>3. Standing /\ calib = "MIN" /\ direction = "BACKWARD" /\ ~dma.on /\ "MIN" \notin closed
    BY <1>2 DEF TrackingInv, StandingInv, Standing
  <1>4. /\ xState' = "ACCELERATING_AND_CONSTANT" /\ motorOn' = TRUE /\ phase' = "high"
        /\ dma'.te = dma.te
    BY <1>1, <1>2, <1>3, SearchEffect DEF Typed, Standing
  <1>5. ToMinInv'
    BY <1>2, <1>3, <1>4 DEF ToMinInv, SearchHandlers
  <1>6. SwitchInv' /\ StandingInv' /\ ~Stopped' /\ ~dma'.te
    BY <1>2, <1>4 DEF TrackingInv, SwitchInv, StandingInv, Standing, Stopped
  <1>7. QED
    BY <1>2, <1>3, <1>4, <1>5, <1>6 DEF TrackingInv, Under

\* A movement is accepted that stays clear of the ends.
LEMMA setPositionStep ==
  ASSUME Undisturbed, IInv, IInv', TrackingInv, NEW dir \in Directions,
         NEW n \in 1 .. CntBound, setPosition(dir, n)
  PROVE  TrackingInv'
  <1>1. Typed
    BY TypedHold
  <1>2. /\ h4 = "none" /\ h3 = "none" /\ h2 = "none" /\ xState = "IDLE" /\ Asked(dir, n)
        /\ h4' = "move" /\ cmd' = [dir |-> dir, n |-> n]
        /\ UNCHANGED <<drive, calib, direction, figures, tim5, machine, exti, h2, level3>>
    BY DEF setPosition, At4
  <1>3. n > 0 /\ Margin > 0
    BY <1>1, ConstantsAssumption DEF Typed, Limits
  <1>4. Allowed(dir, n)
    BY <1>2, <1>3 DEF Asked, Allowed
  <1>5. Allowed(cmd.dir, cmd.n)'
    BY <1>2, <1>4 DEF Allowed
  <1>6. StandingInv'
    BY <1>2, <1>5 DEF TrackingInv, StandingInv, Standing, Clear, Exact
  <1>7. SwitchInv' /\ ~Stopped' /\ ~dma'.te
    BY <1>2 DEF TrackingInv, SwitchInv, Stopped
  <1>8. QED
    BY <1>2, <1>6, <1>7 DEF TrackingInv, Under

\* It starts where the carriage stands.
LEMMA SetPositionMoveStep ==
  ASSUME Undisturbed, IInv, IInv', TrackingInv, SetPositionMove
  PROVE  TrackingInv'
  <1>1. Typed /\ tim5 \in TimerStates /\ dma \in DmaStates
    BY TypedHold DEF IInv, TypeOK
  <1>2. /\ h4 = "move" /\ h3 = "none" /\ h2 = "none" /\ positionControllerMove(cmd.dir, cmd.n)
        /\ h4' = "none"
        /\ UNCHANGED <<calib, x, xMax, errors, machine, exti, h2, level3, cmd>>
    BY DEF SetPositionMove, At4
  <1>3. StandingInv
    BY DEF TrackingInv
  <1>4. xState = "IDLE" /\ Allowed(cmd.dir, cmd.n) /\ calib = "NONE"
    BY <1>1, <1>2, <1>3 DEF StandingInv, Standing, IInv, StageInv
  <1>5. /\ ~motorOn /\ ~dma.on /\ ~dma.tc /\ Clear /\ closed = {} /\ Exact(pos - x)
    BY <1>2, <1>3, <1>4 DEF StandingInv, Standing
  <1>6. cmd.dir \in Directions /\ cmd.n \in Nat /\ cmd.n > 0
    BY <1>1, <1>4 DEF Typed, Sorted, Allowed
  <1>7. MoveBegun(cmd.dir, cmd.n)
    BY <1>1, <1>2, <1>4, <1>5, <1>6, MoveEffect DEF Typed, TrackingInv
  <1>8. SwitchInv' /\ StandingInv' /\ ~Stopped' /\ ~dma'.te
    BY <1>2, <1>7 DEF TrackingInv, SwitchInv, StandingInv, Standing, Stopped, MoveBegun
  <1>9. MoveInv'
    <2>1. Made' = 0
      BY <1>7 DEF MoveBegun, Made, Unmade
    <2>2. Clear' /\ closed' = {}
      BY <1>2, <1>5 DEF Clear
    <2>3. Allowed(direction, planned)'
      BY <1>2, <1>4, <1>7 DEF Allowed, MoveBegun
    <2>4. (direction' = "FORWARD" => Exact(pos - x - Made)')
          /\ (direction' = "BACKWARD" => Exact(pos - x + Made)')
      BY <1>1, <1>2, <1>5, <2>1 DEF Exact, Typed, Sorted, Limits
    <2>5. QED
      BY <1>6, <1>7, <2>2, <2>3, <2>4 DEF MoveInv, MoveBegun
  <1>10. QED
    BY <1>2, <1>4, <1>7, <1>8, <1>9 DEF TrackingInv, Under, MoveBegun

-----------------------------------------------------------------------------
(* The invariant.                                                           *)

\* Power-up: the carriage stands somewhere on the track, off MIN.
LEMMA InitTracking ==
  ASSUME Undisturbed, Init
  PROVE  TrackingInv
  <1>1. Limits
    BY LimitsHold
  <1>2. pos \in 1 .. Track /\ closed = Held(pos)
    BY DEF Init, Undisturbed
  <1>3. "MIN" \notin closed /\ ("MAX" \in closed <=> pos >= Track)
    BY <1>1, <1>2 DEF Held, Limits
  <1>4. SwitchInv
    BY <1>1, <1>2, <1>3 DEF Init, SwitchInv, Limits
  <1>5. StandingInv
    BY <1>2, <1>3 DEF Init, StandingInv, Standing, DmaAtBoot
  <1>6. QED
    BY <1>4, <1>5 DEF Init, TrackingInv, Under, Stopped, DmaAtBoot

\* Only an emergency stop from outside ends it: no step of the program does.
LEMMA TrackingStep ==
  ASSUME Undisturbed, IInv, IInv', TrackingInv, [Next]_vars
  PROVE  \/ TrackingInv'
         \/ /\ EmergencyButton \/ StopCommand
            /\ Stopped' /\ pos' = pos
  <1>1. ASSUME Stop3
        PROVE  FALSE
    <2>1. h2 = "none" /\ h3 = "stop" /\ Typed
      BY <1>1, TypedHold DEF Stop3, At3
    <2>2. xState # "IDLE"
      BY <2>1 DEF TrackingInv, StandingInv
    <2>3. xState \in Busy /\ \E lost \in Nat : Profile(lost)
      BY <2>1, <2>2, LegContext
    <2>4. QED
      BY <2>1, <2>3
         DEF Profile, AtConstantSpeed, Accelerating, AcceleratingAndConstant, SlowingDown
  <1>2. ~Reset
    BY DEF Reset, Undisturbed
  <1>3. ASSUME EmergencyButton \/ StopCommand
        PROVE  Stopped' /\ pos' = pos
    BY <1>3 DEF EmergencyButton, StopCommand, positionControllerEmergencyStop, Stopped
  <1>4. CASE LimitSwitch
    BY <1>4, LimitReachedStep, LimitIgnoredStep, LimitCorrectedStep, LimitUnexpectedStep,
       LimitToMaxStep, LimitToMiddleStep DEF LimitSwitch
  <1>5. CASE PulseHandlers
    BY <1>1, <1>5, Cc1EnterStep, Cc1DispatchStep, Cc1EndStep, DmaEnterStep, DmaDisableStep,
       DmaDispatchStep, SlowDownStep, FinishCountStep, FinishHaltStep, FinishStateStep,
       FinishSettleStep, FinishUpdateStep DEF PulseHandlers
  <1>6. CASE ClientRequest
    BY <1>2, <1>3, <1>6, CalibrateStep, CalibrateGoStep, setPositionStep, SetPositionMoveStep
       DEF ClientRequest
  <1>7. CASE UNCHANGED vars
    <2>1. UNCHANGED <<xState, calib, direction, x, xMax, planned, errors, slowDown, motorOn, phase,
                      tim5, dma, pos, closed, exti, h2, h3, h4, caller, st, actual, cmd>>
      BY <1>7 DEF vars
    <2>2. Typed
      BY TypedHold
    <2>3. SwitchInv' /\ StandingInv' /\ ~Stopped' /\ ~dma'.te
      BY <2>1 DEF TrackingInv, SwitchInv, StandingInv, Standing, Stopped, Clear, Exact, Allowed
    <2>4. (ToMinInv => ToMinInv') /\ (ToMaxInv => ToMaxInv')
      BY <2>1 DEF ToMinInv, ToMaxInv, SearchHandlers, Made, Unmade
    <2>5. ASSUME NEW lost \in Nat, Profile(lost)
          PROVE  Profile(lost)'
      BY <2>1, <2>5, SwitchProfile
    <2>6. Made' = Made
      BY <2>1 DEF Made, Unmade
    <2>7. xState \in Busy => (ReturnInv => ReturnInv') /\ (MoveInv => MoveInv')
      BY <2>1, <2>2, <2>5, <2>6, PlaceKept
    <2>8. QED
      BY <2>1, <2>3, <2>4, <2>7 DEF TrackingInv, Under
  <1>8. QED
    BY <1>3, <1>4, <1>5, <1>6, <1>7, RiseStep, FallStep, SwitchClosesStep, SwitchOpensStep
       DEF Next

\* A controller that has been stopped stays so, and the carriage where it is.
LEMMA StoppedStep ==
  ASSUME Undisturbed, IInv, Stopped, [Next]_vars
  PROVE  Stopped' /\ pos' = pos
  <1>1. ~motorOn
    BY DEF IInv, MotorInv, Stopped
  <1>2. CASE Rise \/ Fall
    BY <1>1, <1>2 DEF Rise, Fall
  <1>3. ASSUME NEW s \in Switches, SwitchCloses(s) \/ SwitchOpens(s)
        PROVE  Stopped' /\ pos' = pos
    BY <1>3 DEF SwitchCloses, SwitchOpens, Stopped
  <1>4. CASE EmergencyButton
    BY <1>4 DEF EmergencyButton, positionControllerEmergencyStop, Stopped
  <1>5. CASE LimitSwitch
    BY <1>5 DEF LimitSwitch, LimitReached, LimitIgnored, LimitCorrected, LimitUnexpected,
                LimitToMax, LimitToMiddle, Stopped, Stop_Atomic, positionControllerEmergencyStop,
                MoveUntilLimitSwitchTriggers, MoveWithAcceleration_Atomic,
                MoveAtConstantSpeed_Atomic, positionControllerMove, Start
  <1>6. CASE PulseHandlers
    BY <1>6 DEF PulseHandlers, Cc1Enter, Cc1Dispatch, Cc1End, DmaEnter, DmaDisable, DmaDispatch,
                SlowDown, Stop3, FinishCount, FinishHalt, FinishState, FinishSettle, FinishUpdate,
                Stopped, Stop_Atomic, positionControllerEmergencyStop, startSlowingDown_Atomic
  <1>7. CASE ClientRequest
    <2>1. ~Reset
      BY DEF Reset, Undisturbed
    <2>2. QED
      BY <1>7, <2>1
         DEF ClientRequest, Calibrate, CalibrateMark, CalibrateTurn, CalibrateGo, setPosition,
             SetPositionMove, StopCommand, Stopped, positionControllerEmergencyStop,
             MoveUntilLimitSwitchTriggers, MoveWithAcceleration_Atomic,
             MoveAtConstantSpeed_Atomic, positionControllerMove, Start
  <1>8. CASE UNCHANGED vars
    BY <1>8 DEF vars, Stopped
  <1>9. QED
    BY <1>2, <1>3, <1>4, <1>5, <1>6, <1>7, <1>8 DEF Next

\* In undisturbed operation the count and the carriage agree in every reachable state, or
\* the controller has been stopped from outside with the carriage on its track.
THEOREM Tracking ==
  ASSUME Undisturbed
  PROVE  Spec => []TInv
  <1>1. Init => TInv
    <2> SUFFICES ASSUME Init PROVE TInv
      OBVIOUS
    <2>1. TrackingInv
      BY InitTracking
    <2>2. pos \in 0 .. Track
      BY DEF Init, Undisturbed
    <2>3. QED
      BY <2>1, <2>2 DEF TInv
  <1>2. IInv /\ IInv' /\ TInv /\ [Next]_vars => TInv'
    <2> SUFFICES ASSUME IInv, IInv', TInv, [Next]_vars PROVE TInv'
      OBVIOUS
    <2>1. CASE Stopped
      BY <2>1, StoppedStep DEF TInv
    <2>2. CASE TrackingInv
      <3>1. CASE TrackingInv'
        <4>1. pos' \in 0 .. Track
          BY <3>1, TypedHold DEF TrackingInv, SwitchInv, Typed, Sorted, Limits
        <4>2. QED
          BY <3>1, <4>1 DEF TInv
      <3>2. CASE Stopped' /\ pos' = pos
        BY <3>2 DEF TInv
      <3>3. QED
        BY <2>2, <3>1, <3>2, TrackingStep
    <2>3. QED
      BY <2>1, <2>2 DEF TInv
  <1>3. QED
    BY <1>1, <1>2, Invariant, PTL DEF Spec

-----------------------------------------------------------------------------
(* The properties.                                                          *)

\* At rest g_positionControllerX is where the carriage is, up to the pulse begun as a
\* switch closed and the width of its chatter, after any number of movements.
THEOREM PositionTracked ==
  ASSUME Undisturbed
  PROVE  Spec => []CarriageTracked
  <1>1. IInv /\ TInv => CarriageTracked
    <2> SUFFICES ASSUME IInv, TInv, AtRest PROVE pos - x \in -1 .. Chatter + 1
      BY DEF CarriageTracked
    <2>1. Limits /\ Sorted
      BY LimitsHold, SortedHold DEF IInv
    <2>2. Exact(pos - x)
      BY DEF TInv, Stopped, AtRest, TrackingInv, StandingInv
    <2>3. QED
      BY <2>1, <2>2 DEF Exact, Limits, Sorted
  <1>2. QED
    BY <1>1, Invariant, Tracking, PTL

\* The carriage never goes past the point where a switch closes.
THEOREM StaysOnTrack ==
  ASSUME Undisturbed
  PROVE  Spec => []NoOvertravel
  <1>1. TInv => NoOvertravel
    BY DEF TInv, NoOvertravel
  <1>2. QED
    BY <1>1, Tracking, PTL

\* A movement has as many steps as asked for, or one more or fewer; the return from MAX
\* may in addition be off by the chatter of the switch.
THEOREM PulsesAsPlanned ==
  ASSUME Undisturbed
  PROVE  Spec => []PulseErrorBounded
  <1>1. IInv /\ TInv => PulseErrorBounded
    <2> SUFFICES ASSUME IInv, TInv, h3 = "settle", ~Stopped
                 PROVE  Distance(actual, planned) <= IF calib = "NONE" THEN 1 ELSE 1 + 2 * Chatter
      BY DEF PulseErrorBounded, Stopped
    <2>1. Limits /\ Sorted /\ TrackingInv
      BY LimitsHold, SortedHold DEF IInv, TInv
    <2>2. xState \in Busy
      BY <2>1 DEF TrackingInv, StandingInv, Standing, Stopped, Sorted
    <2>3. calib \in {"CORRECT_MAX", "NONE"}
      BY <2>1, <2>2 DEF TrackingInv, Under, ToMinInv, ToMaxInv, SearchHandlers, Sorted
    <2>4. PICK lost \in Nat : Profile(lost) /\ lost <= IF calib = "NONE" THEN 0 ELSE 2 * Chatter
      <3>1. CASE calib = "NONE"
        BY <2>1, <2>2, <3>1 DEF TrackingInv, Under, MoveInv
      <3>2. CASE calib = "CORRECT_MAX"
        <4>1. PICK full \in Nat : Back(full)
          BY <2>1, <2>2, <3>2 DEF TrackingInv, Under, ReturnInv
        <4>2. full - x \in Nat /\ Profile(full - x) /\ full - x <= 2 * Chatter
          BY <2>1, <4>1 DEF Back, Limits, Sorted
        <4>3. QED
          BY <3>2, <4>2
      <3>3. QED
        BY <2>3, <3>1, <3>2
    <2>5. actual = tim5.cnt - 1
      BY <2>4 DEF Profile, Ending
    <2>6. planned - lost <= tim5.cnt /\ tim5.cnt <= planned + 2
          /\ (tim5.cnt = planned + 2 => planned > 2 * Steps)
      <3>1. xState \in {"CONSTANT", "SLOWING_DOWN"}
        BY <2>2, <2>4 DEF Profile, Accelerating, AcceleratingAndConstant
      <3>2. CASE xState = "CONSTANT"
        BY <2>1, <2>4, <3>2 DEF Profile, AtConstantSpeed, Limits, Sorted
      <3>3. CASE xState = "SLOWING_DOWN"
        BY <2>1, <2>4, <3>3 DEF Profile, SlowingDown, Limits, Sorted
      <3>4. QED
        BY <3>1, <3>2, <3>3
    <2>7. planned - lost - 1 <= actual /\ actual <= planned + 1
      BY <2>1, <2>5, <2>6 DEF Sorted
    <2>8. QED
      BY <2>1, <2>4, <2>7 DEF Distance, Limits, Sorted
  <1>2. QED
    BY <1>1, Invariant, Tracking, PTL

\* Searching for MAX, the carriage goes towards MAX.
THEOREM SearchGoesForward ==
  ASSUME Undisturbed
  PROVE  Spec => []MaxSearchGoesForward
  <1>1. IInv /\ TInv => MaxSearchGoesForward
    <2> SUFFICES ASSUME IInv, TInv, calib = "MAX", motorOn PROVE direction = "FORWARD"
      BY DEF MaxSearchGoesForward
    <2>1. xState \in Busy /\ ~Stopped
      BY DEF IInv, MotorInv, Stopped
    <2>2. QED
      BY <2>1 DEF TInv, TrackingInv, Under, ToMaxInv
  <1>2. QED
    BY <1>1, Invariant, Tracking, PTL

\* As long as nobody presses the button or asks for a stop the controller never stops:
\* no switch is unexpected and no error path is taken.
THEOREM NothingStopsIt ==
  ASSUME Undisturbed, Inputs \subseteq {"calibrate", "move"}
  PROVE  Spec => []NoSpuriousStop
  <1>1. Init => TrackingInv
    BY InitTracking
  <1>2. IInv /\ IInv' /\ TrackingInv /\ [Next]_vars => TrackingInv'
    <2>1. ~EmergencyButton /\ ~StopCommand
      BY DEF EmergencyButton, StopCommand
    <2>2. QED
      BY <2>1, TrackingStep
  <1>3. TrackingInv => NoSpuriousStop
    BY DEF TrackingInv, Stopped, NoSpuriousStop
  <1>4. QED
    BY <1>1, <1>2, <1>3, Invariant, PTL DEF Spec

\* A movement to a target that is clear of the ends closes no switch.
THEOREM ClearTargetClosesNoSwitch ==
  ASSUME Undisturbed
  PROVE  Spec => []AcceptedMoveAvoidsSwitches
  <1>1. IInv /\ TInv => AcceptedMoveAvoidsSwitches
    <2> SUFFICES ASSUME IInv, TInv, xState \in Busy, calib = "NONE" PROVE exti = {}
      BY DEF AcceptedMoveAvoidsSwitches
    <2>1. Limits /\ Sorted
      BY LimitsHold, SortedHold DEF IInv
    <2>2. TrackingInv /\ Clear
      BY DEF TInv, Stopped, TrackingInv, Under, MoveInv
    <2>3. QED
      BY <2>1, <2>2 DEF Clear, TrackingInv, SwitchInv, Limits, Sorted
  <1>2. QED
    BY <1>1, Invariant, Tracking, PTL

=============================================================================
