----------------------- MODULE PositionController_proofs -----------------------
(***************************************************************************)
(* Theorems about the position controller, for every track, profile length *)
(* and environment, whether or not handlers keep up with the pulse signal. *)
(***************************************************************************)
EXTENDS PositionController, TLAPS

USE DEF drive, figures, machine, level3, level4, Directions, Switches, Busy, States

-----------------------------------------------------------------------------
(* What the hardware operators and the masked sections return.              *)

\* An operation on the DMA channel yields a channel state.
LEMMA ChannelType ==
  ASSUME NEW d \in DmaStates, NEW on \in BOOLEAN
  PROVE  Channel(d, on) \in DmaStates
  BY DEF Channel, DmaStates

\* A DMA request, served or left waiting, yields a channel state.
LEMMA ServeType ==
  ASSUME NEW d \in DmaStates
  PROVE  Serve(d) \in DmaStates
  <1>1. ASSUME NEW b \in BOOLEAN, NEW k \in Nat
        PROVE  [d EXCEPT !.left = k, !.tc = b] \in DmaStates
    BY DEF DmaStates
  <1>2. [d EXCEPT !.req = LatchRequests] \in DmaStates
    BY ConstantsAssumption DEF DmaStates
  <1>3. (d.tc \/ d.left = 1) \in BOOLEAN
    OBVIOUS
  <1>4. d.left > 0 => d.left - 1 \in Nat
    BY DEF DmaStates
  <1>5. QED
    BY <1>1, <1>2, <1>3, <1>4 DEF Serve

\* Loading and enabling the channel, enabled before or not, yields a channel state.
LEMMA ArmType ==
  ASSUME NEW d \in DmaStates, NEW n \in Nat
  PROVE  Arm(d, n) \in DmaStates
  <1>1. [d EXCEPT !.on = TRUE, !.left = n, !.req = FALSE] \in DmaStates
    BY DEF DmaStates
  <1>2. QED
    BY <1>1, ServeType DEF Arm

\* Counting, arming or clearing TIM5 yields a timer state within the bound.
LEMMA TimerType ==
  ASSUME NEW t \in TimerStates, NEW n \in Nat
  PROVE  /\ ArmCompare(t, n) \in TimerStates
         /\ [t EXCEPT !.cnt = 0] \in TimerStates
         /\ t.cnt < CntBound => CountPulse(t) \in TimerStates
         /\ CountPulse([t EXCEPT !.cnt = 0]) \in TimerStates
  <1>1. ArmCompare(t, n) \in TimerStates
    BY DEF ArmCompare, TimerStates
  <1>2. [t EXCEPT !.cnt = 0] \in TimerStates
    BY ConstantsAssumption DEF TimerStates
  <1>3. ASSUME NEW u \in TimerStates, u.cnt < CntBound
        PROVE  CountPulse(u) \in TimerStates
    <2>1. ASSUME NEW b \in BOOLEAN, NEW k \in 0 .. CntBound
          PROVE  [u EXCEPT !.cnt = k, !.cc1 = b] \in TimerStates
      BY DEF TimerStates
    <2>2. (u.cc1 \/ u.cnt + 1 = u.ccr) \in BOOLEAN
      OBVIOUS
    <2>3. u.cnt + 1 \in 0 .. CntBound
      BY <1>3, ConstantsAssumption DEF TimerStates
    <2>4. QED
      BY <2>1, <2>2, <2>3 DEF CountPulse
  <1>4. [t EXCEPT !.cnt = 0].cnt < CntBound
    BY ConstantsAssumption DEF TimerStates
  <1>5. QED
    BY <1>1, <1>2, <1>3, <1>4

\* The values the peripherals and the figures start from have their types.
LEMMA BootType ==
  /\ 0 \in 0 .. Modulus - 1 /\ 0 \in 0 .. ErrorCap
  /\ TimerAtBoot \in TimerStates
  /\ DmaAtBoot \in DmaStates
  /\ NoCommand \in [dir : Directions, n : 0 .. Modulus - 1]
  BY ConstantsAssumption DEF TimerAtBoot, DmaAtBoot, NoCommand, TimerStates, DmaStates

DriveOK ==
  /\ xState \in States
  /\ motorOn \in BOOLEAN
  /\ phase \in {"low", "high"}
  /\ dma \in DmaStates

\* The two ways to stop leave the state, the motor and the channel well typed.
LEMMA StopType ==
  ASSUME DriveOK, positionControllerEmergencyStop \/ Stop_Atomic
  PROVE  DriveOK'
  BY ChannelType DEF DriveOK, positionControllerEmergencyStop, Stop_Atomic, PowerOff

\* So does starting to slow down.
LEMMA SlowDownType ==
  ASSUME DriveOK, slowDown \in Nat, startSlowingDown_Atomic
  PROVE  DriveOK'
  BY ArmType DEF DriveOK, startSlowingDown_Atomic

\* So does starting the pulse timer, which also restarts the pulse counter.
LEMMA StartType ==
  ASSUME DriveOK, NEW s \in States, NEW d \in DmaStates, NEW t \in TimerStates,
         Start(s, d, t)
  PROVE  DriveOK' /\ tim5' \in TimerStates
  BY ServeType, TimerType DEF DriveOK, Start

\* So does a search for a limit switch, which accelerates over the whole profile.
LEMMA SearchType ==
  ASSUME DriveOK, NEW t \in TimerStates, MoveUntilLimitSwitchTriggers(t)
  PROVE  DriveOK' /\ tim5' \in TimerStates
  <1>1. Arm(dma, Steps) \in DmaStates
    BY ArmType, ConstantsAssumption DEF DriveOK
  <1>2. QED
    BY <1>1, StartType DEF MoveUntilLimitSwitchTriggers, MoveWithAcceleration_Atomic

\* So does a movement, whichever of the three profiles its length calls for; its
\* plan and the pulses left for slowing down are naturals.
LEMMA MoveType ==
  ASSUME DriveOK, tim5 \in TimerStates, slowDown \in Nat,
         NEW dir \in Directions, NEW n \in Nat, positionControllerMove(dir, n)
  PROVE  /\ DriveOK' /\ tim5' \in TimerStates
         /\ direction' \in Directions /\ planned' \in Nat /\ slowDown' \in Nat
  <1>1. direction' \in Directions /\ planned' \in Nat
    BY DEF positionControllerMove
  <1>2. CASE /\ n <= MaxConst
             /\ UNCHANGED slowDown
             /\ MoveAtConstantSpeed_Atomic("CONSTANT", ArmCompare(tim5, n + 1))
    <2>1. dma \in DmaStates /\ ArmCompare(tim5, n + 1) \in TimerStates
      <3>1. n + 1 \in Nat
        OBVIOUS
      <3>2. QED
        BY <3>1, TimerType DEF DriveOK
    <2>2. QED
      BY <1>1, <1>2, <2>1, StartType DEF MoveAtConstantSpeed_Atomic
  <1>3. CASE /\ n > MaxConst /\ n <= 2 * Steps
             /\ slowDown' = n - (n + 1) \div 2
             /\ MoveWithAcceleration_Atomic("ACCELERATING", (n + 1) \div 2, tim5)
    <2>1. (n + 1) \div 2 \in Nat /\ n - (n + 1) \div 2 \in Nat
      BY <1>3, ConstantsAssumption
    <2>2. Arm(dma, (n + 1) \div 2) \in DmaStates
      BY <2>1, ArmType DEF DriveOK
    <2>3. QED
      BY <1>1, <1>3, <2>1, <2>2, StartType DEF MoveWithAcceleration_Atomic
  <1>4. CASE /\ n > 2 * Steps
             /\ slowDown' = Steps
             /\ MoveWithAcceleration_Atomic("ACCELERATING_AND_CONSTANT", Steps,
                                            ArmCompare(tim5, n - Steps + 1))
    <2>1. n - Steps + 1 \in Nat
      BY <1>4, ConstantsAssumption
    <2>2. ArmCompare(tim5, n - Steps + 1) \in TimerStates
      BY <2>1, TimerType
    <2>3. Arm(dma, Steps) \in DmaStates
      BY ArmType, ConstantsAssumption DEF DriveOK
    <2>4. QED
      BY <1>1, <1>4, <2>2, <2>3, StartType, ConstantsAssumption
         DEF MoveWithAcceleration_Atomic
  <1>5. QED
    BY <1>2, <1>3, <1>4 DEF positionControllerMove

-----------------------------------------------------------------------------
(* Type correctness.                                                        *)

\* Every step of every handler, of the hardware and of the client keeps the types.
LEMMA TypeStep ==
  ASSUME TypeOK, [Next]_vars
  PROVE  TypeOK'
  <1> USE ConstantsAssumption
  <1>0. DriveOK
    BY DEF DriveOK, TypeOK
  <1>1. ASSUME Rise
        PROVE  TypeOK'
    <2>1. tim5' \in TimerStates
      BY <1>1, TimerType DEF TypeOK, Rise
    <2>2. [dma EXCEPT !.on = FALSE, !.te = TRUE] \in DmaStates
      BY DEF TypeOK, DmaStates
    <2>3. dma' \in DmaStates
      BY <1>1, <2>2, ServeType DEF TypeOK, Rise
    <2>4. QED
      BY <1>1, <2>1, <2>3 DEF TypeOK, Rise
  <1>2. ASSUME Fall
        PROVE  TypeOK'
    BY <1>2
       DEF TypeOK, Fall, Quiet, Held, Near
  <1>3. ASSUME NEW s \in Switches, SwitchCloses(s)
        PROVE  TypeOK'
    BY <1>3
       DEF TypeOK, SwitchCloses, Near, Held
  <1>4. ASSUME NEW s \in Switches, SwitchOpens(s)
        PROVE  TypeOK'
    BY <1>4
       DEF TypeOK, SwitchOpens, Held
  <1>5. ASSUME EmergencyButton
        PROVE  TypeOK'
    BY <1>0, <1>5, StopType
       DEF TypeOK, DriveOK, EmergencyButton
  <1>6. ASSUME NEW s \in Switches, LimitReached(s)
        PROVE  TypeOK'
    BY <1>0, <1>6, StopType
       DEF TypeOK, DriveOK, LimitReached, LimitEnter
  <1>7. ASSUME NEW s \in Switches, LimitIgnored(s)
        PROVE  TypeOK'
    BY <1>0, <1>7, TimerType
       DEF TypeOK, DriveOK, LimitIgnored, LimitEnter
  <1>8. ASSUME NEW s \in Switches, LimitCorrected(s)
        PROVE  TypeOK'
    BY <1>0, <1>8, TimerType
       DEF TypeOK, DriveOK, LimitCorrected, LimitEnter, Wrap, TimerStates
  <1>9. ASSUME NEW s \in Switches, LimitUnexpected(s)
        PROVE  TypeOK'
    BY <1>0, <1>9, StopType, TimerType
       DEF TypeOK, DriveOK, LimitUnexpected, LimitEnter
  <1>10. ASSUME LimitToMax
        PROVE  TypeOK'
    BY <1>0, <1>10, SearchType, TimerType
       DEF TypeOK, DriveOK, LimitToMax
  <1>11. ASSUME LimitToMiddle
        PROVE  TypeOK'
    BY <1>0, <1>11, MoveType
       DEF TypeOK, DriveOK, LimitToMiddle, TimerStates
  <1>12. ASSUME Cc1Enter
        PROVE  TypeOK'
    BY <1>12
       DEF TypeOK, Cc1Enter, At3
  <1>13. ASSUME Cc1Dispatch
        PROVE  TypeOK'
    BY <1>13
       DEF TypeOK, Cc1Dispatch, At3, Goto3
  <1>14. ASSUME Cc1End
        PROVE  TypeOK'
    <2>1. tim5' \in TimerStates
      BY <1>14 DEF TypeOK, Cc1End, TimerStates
    <2>2. QED
      BY <1>14, <2>1 DEF TypeOK, Cc1End, At3, Goto3
  <1>15. ASSUME DmaEnter
        PROVE  TypeOK'
    <2>1. dma' \in DmaStates
      BY <1>15 DEF TypeOK, DmaEnter, DmaStates
    <2>2. QED
      BY <1>15, <2>1 DEF TypeOK, DmaEnter, At3
  <1>16. ASSUME DmaDisable
        PROVE  TypeOK'
    <2>1. dma' \in DmaStates
      BY <1>16, ChannelType DEF TypeOK, DmaDisable
    <2>2. QED
      BY <1>16, <2>1 DEF TypeOK, DmaDisable, At3, Goto3, Channel
  <1>17. ASSUME DmaDispatch
        PROVE  TypeOK'
    BY <1>17
       DEF TypeOK, DmaDispatch, At3, Goto3
  <1>18. ASSUME SlowDown
        PROVE  TypeOK'
    BY <1>0, <1>18, SlowDownType
       DEF TypeOK, DriveOK, SlowDown, At3, Goto3, Return3
  <1>19. ASSUME Stop3
        PROVE  TypeOK'
    BY <1>0, <1>19, StopType
       DEF TypeOK, DriveOK, Stop3, At3, Goto3, Return3
  <1>20. ASSUME FinishCount
        PROVE  TypeOK'
    BY <1>20
       DEF TypeOK, FinishCount, At3, Wrap, TimerStates
  <1>21. ASSUME FinishHalt
        PROVE  TypeOK'
    BY <1>0, <1>21, StopType
       DEF TypeOK, DriveOK, FinishHalt, At3, Goto3, Return3
  <1>22. ASSUME FinishState
        PROVE  TypeOK'
    BY <1>22
       DEF TypeOK, FinishState, At3
  <1>23. ASSUME FinishSettle
        PROVE  TypeOK'
    BY <1>0, <1>23, StopType
       DEF TypeOK, DriveOK, FinishSettle, At3, Goto3, Return3
  <1>24. ASSUME FinishUpdate
        PROVE  TypeOK'
    BY <1>0, <1>24, StopType
       DEF TypeOK, DriveOK, FinishUpdate, At3, Saturate, Distance, Goto3,
           Return3
  <1>25. ASSUME Calibrate
        PROVE  TypeOK'
    BY <1>25
       DEF TypeOK, Calibrate, At4
  <1>26. ASSUME CalibrateMark
        PROVE  TypeOK'
    BY <1>26
       DEF TypeOK, CalibrateMark, At4
  <1>27. ASSUME CalibrateTurn
        PROVE  TypeOK'
    BY <1>27
       DEF TypeOK, CalibrateTurn, At4
  <1>28. ASSUME CalibrateGo
        PROVE  TypeOK'
    BY <1>0, <1>28, SearchType
       DEF TypeOK, DriveOK, CalibrateGo, At4
  <1>29. ASSUME NEW dir \in Directions, NEW n \in 1 .. CntBound, setPosition(dir, n)
        PROVE  TypeOK'
    BY <1>29
       DEF TypeOK, setPosition, Asked, At4, InRange
  <1>30. ASSUME SetPositionMove
        PROVE  TypeOK'
    BY <1>0, <1>30, MoveType
       DEF TypeOK, DriveOK, SetPositionMove, At4
  <1>31. ASSUME StopCommand
        PROVE  TypeOK'
    BY <1>0, <1>31, StopType
       DEF TypeOK, DriveOK, StopCommand, At4
  <1>32. ASSUME Reset
        PROVE  TypeOK'
    BY <1>32, BootType DEF TypeOK, Reset, At4
  <1>33. CASE UNCHANGED vars
    BY <1>33 DEF TypeOK, vars
  <1>34. QED
    BY <1>1, <1>2, <1>3, <1>4, <1>5, <1>6, <1>7, <1>8, <1>9, <1>10, <1>11, <1>12,
       <1>13, <1>14, <1>15, <1>16, <1>17, <1>18, <1>19, <1>20, <1>21, <1>22, <1>23,
       <1>24, <1>25, <1>26, <1>27, <1>28, <1>29, <1>30, <1>31, <1>32, <1>33
       DEF Next, LimitSwitch, PulseHandlers, ClientRequest

\* The state after power-up is well typed.
LEMMA InitType == Init => TypeOK
  <1> SUFFICES ASSUME Init PROVE TypeOK
    OBVIOUS
  <1>1. pos \in -1 .. Track + 1
    BY ConstantsAssumption DEF Init
  <1>2. closed \subseteq Switches
    BY DEF Init, Held
  <1>3. tim5 \in TimerStates /\ dma \in DmaStates
    BY BootType DEF Init
  <1>4. x \in 0 .. Modulus - 1 /\ xMax \in 0 .. Modulus - 1 /\ errors \in 0 .. ErrorCap
    BY BootType DEF Init
  <1>5. cmd \in [dir : Directions, n : 0 .. Modulus - 1] /\ actual \in 0 .. Modulus - 1
    BY BootType DEF Init
  <1>6. QED
    BY <1>1, <1>2, <1>3, <1>4, <1>5 DEF Init, TypeOK

\* Every variable keeps its type: the timer count its bound, the unsigned
\* position figures the range of their word, even where subtraction wraps.
THEOREM TypeCorrect == Spec => []TypeOK
  <1>1. Init => TypeOK
    BY InitType
  <1>2. TypeOK /\ [Next]_vars => TypeOK'
    BY TypeStep
  <1>3. QED
    BY <1>1, <1>2, PTL DEF Spec

-----------------------------------------------------------------------------
(* The inductive invariant.                                                 *)

\* Every step keeps the invariant: what a preempted handler has read and not yet
\* acted on stays true, or an emergency stop has made it harmless.
LEMMA InvStep ==
  ASSUME IInv, [Next]_vars
  PROVE  IInv'
  <1> DEFINE Parts == MotorInv /\ StageInv /\ RequestInv /\ CompareInv /\ HandlerInv
  <1>0. TypeOK'
    BY TypeStep DEF IInv
  <1> USE ConstantsAssumption
      DEF IInv, TypeOK, TimerStates, DmaStates, MotorInv, StageInv, RequestInv,
          CompareInv, HandlerInv, Stopped, Standing, Searching, Finishing, TimerHandler
  <1>1. ASSUME Rise
        PROVE  Parts'
    BY <1>1
       DEF Rise, Quiet, CountPulse, Serve
  <1>2. ASSUME Fall
        PROVE  Parts'
    BY <1>2
       DEF Fall, Quiet, Held, Near
  <1>3. ASSUME NEW s \in Switches, SwitchCloses(s)
        PROVE  Parts'
    BY <1>3
       DEF SwitchCloses, Near, Held
  <1>4. ASSUME NEW s \in Switches, SwitchOpens(s)
        PROVE  Parts'
    BY <1>4
       DEF SwitchOpens, Held
  <1>5. ASSUME EmergencyButton
        PROVE  Parts'
    BY <1>5
       DEF EmergencyButton, positionControllerEmergencyStop, PowerOff,
           Channel
  <1>6. ASSUME NEW s \in Switches, LimitReached(s)
        PROVE  Parts'
    BY <1>6
       DEF LimitReached, LimitEnter, Stop_Atomic, PowerOff, Channel
  <1>7. ASSUME NEW s \in Switches, LimitIgnored(s)
        PROVE  Parts'
    BY <1>7
       DEF LimitIgnored, LimitEnter
  <1>8. ASSUME NEW s \in Switches, LimitCorrected(s)
        PROVE  Parts'
    BY <1>8
       DEF LimitCorrected, LimitEnter, Wrap
  <1>9. ASSUME NEW s \in Switches, LimitUnexpected(s)
        PROVE  Parts'
    BY <1>9
       DEF LimitUnexpected, LimitEnter, positionControllerEmergencyStop,
           PowerOff, Channel
  <1>10. ASSUME LimitToMax
        PROVE  Parts'
    BY <1>10
       DEF LimitToMax, MoveUntilLimitSwitchTriggers,
           MoveWithAcceleration_Atomic, Start, Arm, Serve, CountPulse
  <1>11. ASSUME LimitToMiddle
        PROVE  Parts'
    BY <1>11
       DEF LimitToMiddle, positionControllerMove,
           MoveAtConstantSpeed_Atomic, ArmCompare, MoveWithAcceleration_Atomic, Start,
           Arm, Serve, CountPulse
  <1>12. ASSUME Cc1Enter
        PROVE  Parts'
    BY <1>12
       DEF Cc1Enter, At3
  <1>13. ASSUME Cc1Dispatch
        PROVE  Parts'
    <2>1. CASE h3 = "cc1" /\ xState = "ACCELERATING_AND_CONSTANT"
      BY <1>13, <2>1 DEF Cc1Dispatch, At3, Goto3
    <2>2. CASE h3 = "cc1" /\ xState # "ACCELERATING_AND_CONSTANT"
      BY <1>13, <2>2 DEF Cc1Dispatch, At3, Goto3
    <2>3. CASE h3 = "cc1Again" /\ xState = "CONSTANT"
      BY <1>13, <2>3 DEF Cc1Dispatch, At3, Goto3
    <2>4. CASE h3 = "cc1Again" /\ xState # "CONSTANT"
      BY <1>13, <2>4 DEF Cc1Dispatch, At3, Goto3
    <2>5. QED
      BY <1>13, <2>1, <2>2, <2>3, <2>4 DEF Cc1Dispatch, At3
  <1>14. ASSUME Cc1End
        PROVE  Parts'
    BY <1>14
       DEF Cc1End, At3, Goto3
  <1>15. ASSUME DmaEnter
        PROVE  Parts'
    BY <1>15
       DEF DmaEnter, At3
  <1>16. ASSUME DmaDisable
        PROVE  Parts'
    BY <1>16
       DEF DmaDisable, At3, Goto3, Channel
  <1>17. ASSUME DmaDispatch
        PROVE  Parts'
    <2>1. CASE xState = "SLOWING_DOWN"
      BY <1>17, <2>1 DEF DmaDispatch, At3, Goto3
    <2>2. CASE xState = "ACCELERATING"
      BY <1>17, <2>2 DEF DmaDispatch, At3, Goto3
    <2>3. CASE xState = "ACCELERATING_AND_CONSTANT"
      BY <1>17, <2>3 DEF DmaDispatch, At3, Goto3
    <2>4. CASE xState \notin {"SLOWING_DOWN", "ACCELERATING", "ACCELERATING_AND_CONSTANT"}
      BY <1>17, <2>4 DEF DmaDispatch, At3, Goto3
    <2>5. QED
      BY <2>1, <2>2, <2>3, <2>4
  <1>18. ASSUME SlowDown
        PROVE  Parts'
    BY <1>18
       DEF SlowDown, At3, startSlowingDown_Atomic, Goto3, Return3, Arm,
           Serve
  <1>19. ASSUME Stop3
        PROVE  Parts'
    BY <1>19
       DEF Stop3, At3, positionControllerEmergencyStop, Goto3, Return3,
           PowerOff, Channel
  <1>20. ASSUME FinishCount
        PROVE  Parts'
    BY <1>20
       DEF FinishCount, At3, Wrap
  <1>21. ASSUME FinishHalt
        PROVE  Parts'
    BY <1>21
       DEF FinishHalt, At3, Stop_Atomic, Goto3, Return3, PowerOff, Channel
  <1>22. ASSUME FinishState
        PROVE  Parts'
    BY <1>22
       DEF FinishState, At3
  <1>23. ASSUME FinishSettle
        PROVE  Parts'
    BY <1>23
       DEF FinishSettle, At3, Goto3, Return3,
           positionControllerEmergencyStop, PowerOff, Channel
  <1>24. ASSUME FinishUpdate
        PROVE  Parts'
    BY <1>24
       DEF FinishUpdate, At3, Saturate, Distance,
           positionControllerEmergencyStop, Goto3, Return3, PowerOff, Channel
  <1>25. ASSUME Calibrate
        PROVE  Parts'
    BY <1>25
       DEF Calibrate, At4
  <1>26. ASSUME CalibrateMark
        PROVE  Parts'
    BY <1>26
       DEF CalibrateMark, At4
  <1>27. ASSUME CalibrateTurn
        PROVE  Parts'
    BY <1>27
       DEF CalibrateTurn, At4
  <1>28. ASSUME CalibrateGo
        PROVE  Parts'
    BY <1>28
       DEF CalibrateGo, At4, MoveUntilLimitSwitchTriggers,
           MoveWithAcceleration_Atomic, Start, Arm, Serve, CountPulse
  <1>29. ASSUME NEW dir \in Directions, NEW n \in 1 .. CntBound, setPosition(dir, n)
        PROVE  Parts'
    BY <1>29
       DEF setPosition, Asked, At4, InRange
  <1>30. ASSUME SetPositionMove
        PROVE  Parts'
    BY <1>30
       DEF SetPositionMove, At4, positionControllerMove,
           MoveAtConstantSpeed_Atomic, ArmCompare, MoveWithAcceleration_Atomic, Start,
           Arm, Serve, CountPulse
  <1>31. ASSUME StopCommand
        PROVE  Parts'
    BY <1>31
       DEF StopCommand, At4, positionControllerEmergencyStop, PowerOff,
           Channel
  <1>32. ASSUME Reset
        PROVE  Parts'
    BY <1>32
       DEF Reset, At4, TimerAtBoot, DmaAtBoot, NoCommand
  <1>33. CASE UNCHANGED vars
    BY <1>33 DEF vars
  <1>34. QED
    BY <1>0, <1>1, <1>2, <1>3, <1>4, <1>5, <1>6, <1>7, <1>8, <1>9, <1>10, <1>11, <1>12,
       <1>13, <1>14, <1>15, <1>16, <1>17, <1>18, <1>19, <1>20, <1>21, <1>22, <1>23,
       <1>24, <1>25, <1>26, <1>27, <1>28, <1>29, <1>30, <1>31, <1>32, <1>33
       DEF Next, LimitSwitch, PulseHandlers, ClientRequest

\* The five parts of the invariant hold together in every reachable state.
THEOREM Invariant == Spec => []IInv
  <1>1. Init => IInv
    <2>1. Init => TypeOK
      BY InitType
    <2>2. QED
      BY <2>1 DEF Init, IInv, MotorInv, StageInv, RequestInv, CompareInv, HandlerInv,
                  Stopped, Standing, Searching, Finishing, TimerHandler, TimerAtBoot,
                  DmaAtBoot
  <1>2. IInv /\ [Next]_vars => IInv'
    BY InvStep
  <1>3. QED
    BY <1>1, <1>2, PTL DEF Spec

\* After an emergency stop, neither the motor nor its profile DMA is ever on,
\* whatever handlers it struck in the middle of.
THEOREM StopIsOff == Spec => []StoppedIsOff
  <1>1. IInv => StoppedIsOff
    BY DEF IInv, MotorInv, StoppedIsOff, Stopped
  <1>2. QED
    BY <1>1, Invariant, PTL

-----------------------------------------------------------------------------
(* The controller implements the state diagram of MotionSpec.               *)

\* From a state of the invariant every step is a step of the state diagram, or
\* leaves mode and power as they are.
LEMMA MotionStep ==
  ASSUME IInv, [Next]_vars
  PROVE  [Motion!Next]_(Motion!abstractVars)
  <1> USE DEF Motion!Next, Motion!abstractVars, Motion!Calibrate, Motion!StartMoving,
              Motion!Pause, Motion!Resume, Motion!Arrive, Motion!Stop, Motion!Restart,
              Motion!Travelling, Mode
  <1> USE DEF IInv, TypeOK, MotorInv, StageInv, RequestInv, HandlerInv, Stopped,
              Standing, Searching, Finishing
  <1>1. ASSUME Rise
        PROVE  Motion!Next \/ UNCHANGED Motion!abstractVars
    BY <1>1
       DEF Rise
  <1>2. ASSUME Fall
        PROVE  Motion!Next \/ UNCHANGED Motion!abstractVars
    BY <1>2
       DEF Fall
  <1>3. ASSUME NEW s \in Switches, SwitchCloses(s)
        PROVE  Motion!Next \/ UNCHANGED Motion!abstractVars
    BY <1>3
       DEF SwitchCloses
  <1>4. ASSUME NEW s \in Switches, SwitchOpens(s)
        PROVE  Motion!Next \/ UNCHANGED Motion!abstractVars
    BY <1>4
       DEF SwitchOpens
  <1>5. ASSUME EmergencyButton
        PROVE  Motion!Next \/ UNCHANGED Motion!abstractVars
    BY <1>5
       DEF EmergencyButton, positionControllerEmergencyStop, PowerOff
  <1>6. ASSUME NEW s \in Switches, LimitReached(s)
        PROVE  Motion!Next \/ UNCHANGED Motion!abstractVars
    BY <1>6
       DEF LimitReached, LimitEnter, Stop_Atomic, PowerOff
  <1>7. ASSUME NEW s \in Switches, LimitIgnored(s)
        PROVE  Motion!Next \/ UNCHANGED Motion!abstractVars
    BY <1>7
       DEF LimitIgnored, LimitEnter
  <1>8. ASSUME NEW s \in Switches, LimitCorrected(s)
        PROVE  Motion!Next \/ UNCHANGED Motion!abstractVars
    BY <1>8
       DEF LimitCorrected, LimitEnter
  <1>9. ASSUME NEW s \in Switches, LimitUnexpected(s)
        PROVE  Motion!Next \/ UNCHANGED Motion!abstractVars
    BY <1>9
       DEF LimitUnexpected, LimitEnter, positionControllerEmergencyStop,
           PowerOff
  <1>10. ASSUME LimitToMax
        PROVE  Motion!Next \/ UNCHANGED Motion!abstractVars
    BY <1>10
       DEF LimitToMax, MoveUntilLimitSwitchTriggers,
           MoveWithAcceleration_Atomic, Start
  <1>11. ASSUME LimitToMiddle
        PROVE  Motion!Next \/ UNCHANGED Motion!abstractVars
    BY <1>11
       DEF LimitToMiddle, positionControllerMove,
           MoveAtConstantSpeed_Atomic, MoveWithAcceleration_Atomic, Start
  <1>12. ASSUME Cc1Enter
        PROVE  Motion!Next \/ UNCHANGED Motion!abstractVars
    BY <1>12
       DEF Cc1Enter, At3
  <1>13. ASSUME Cc1Dispatch
        PROVE  Motion!Next \/ UNCHANGED Motion!abstractVars
    BY <1>13
       DEF Cc1Dispatch, At3, Goto3
  <1>14. ASSUME Cc1End
        PROVE  Motion!Next \/ UNCHANGED Motion!abstractVars
    BY <1>14
       DEF Cc1End, At3, Goto3
  <1>15. ASSUME DmaEnter
        PROVE  Motion!Next \/ UNCHANGED Motion!abstractVars
    BY <1>15
       DEF DmaEnter, At3
  <1>16. ASSUME DmaDisable
        PROVE  Motion!Next \/ UNCHANGED Motion!abstractVars
    BY <1>16
       DEF DmaDisable, At3, Goto3
  <1>17. ASSUME DmaDispatch
        PROVE  Motion!Next \/ UNCHANGED Motion!abstractVars
    BY <1>17
       DEF DmaDispatch, At3, Goto3
  <1>18. ASSUME SlowDown
        PROVE  Motion!Next \/ UNCHANGED Motion!abstractVars
    BY <1>18
       DEF SlowDown, At3, startSlowingDown_Atomic, Goto3, Return3
  <1>19. ASSUME Stop3
        PROVE  Motion!Next \/ UNCHANGED Motion!abstractVars
    BY <1>19
       DEF Stop3, At3, positionControllerEmergencyStop, Goto3, Return3,
           PowerOff
  <1>20. ASSUME FinishCount
        PROVE  Motion!Next \/ UNCHANGED Motion!abstractVars
    BY <1>20
       DEF FinishCount, At3
  <1>21. ASSUME FinishHalt
        PROVE  Motion!Next \/ UNCHANGED Motion!abstractVars
    BY <1>21
       DEF FinishHalt, At3, Stop_Atomic, Goto3, Return3, PowerOff
  <1>22. ASSUME FinishState
        PROVE  Motion!Next \/ UNCHANGED Motion!abstractVars
    BY <1>22
       DEF FinishState, At3
  <1>23. ASSUME FinishSettle
        PROVE  Motion!Next \/ UNCHANGED Motion!abstractVars
    BY <1>23
       DEF FinishSettle, At3, Goto3, Return3,
           positionControllerEmergencyStop, PowerOff
  <1>24. ASSUME FinishUpdate
        PROVE  Motion!Next \/ UNCHANGED Motion!abstractVars
    BY <1>24
       DEF FinishUpdate, At3, positionControllerEmergencyStop, Goto3,
           Return3, PowerOff
  <1>25. ASSUME Calibrate
        PROVE  Motion!Next \/ UNCHANGED Motion!abstractVars
    BY <1>25
       DEF Calibrate, At4
  <1>26. ASSUME CalibrateMark
        PROVE  Motion!Next \/ UNCHANGED Motion!abstractVars
    BY <1>26
       DEF CalibrateMark, At4
  <1>27. ASSUME CalibrateTurn
        PROVE  Motion!Next \/ UNCHANGED Motion!abstractVars
    BY <1>27
       DEF CalibrateTurn, At4
  <1>28. ASSUME CalibrateGo
        PROVE  Motion!Next \/ UNCHANGED Motion!abstractVars
    BY <1>28
       DEF CalibrateGo, At4, MoveUntilLimitSwitchTriggers,
           MoveWithAcceleration_Atomic, Start
  <1>29. ASSUME NEW dir \in Directions, NEW n \in 1 .. CntBound, setPosition(dir, n)
        PROVE  Motion!Next \/ UNCHANGED Motion!abstractVars
    BY <1>29
       DEF setPosition, At4
  <1>30. ASSUME SetPositionMove
        PROVE  Motion!Next \/ UNCHANGED Motion!abstractVars
    BY <1>30
       DEF SetPositionMove, At4, positionControllerMove,
           MoveAtConstantSpeed_Atomic, MoveWithAcceleration_Atomic, Start
  <1>31. ASSUME StopCommand
        PROVE  Motion!Next \/ UNCHANGED Motion!abstractVars
    BY <1>31
       DEF StopCommand, At4, positionControllerEmergencyStop, PowerOff
  <1>32. ASSUME Reset
        PROVE  Motion!Next \/ UNCHANGED Motion!abstractVars
    BY <1>32
       DEF Reset, At4
  <1>33. CASE UNCHANGED vars
    BY <1>33 DEF vars
  <1>34. QED
    BY <1>1, <1>2, <1>3, <1>4, <1>5, <1>6, <1>7, <1>8, <1>9, <1>10, <1>11, <1>12,
       <1>13, <1>14, <1>15, <1>16, <1>17, <1>18, <1>19, <1>20, <1>21, <1>22, <1>23,
       <1>24, <1>25, <1>26, <1>27, <1>28, <1>29, <1>30, <1>31, <1>32, <1>33
       DEF Next, LimitSwitch, PulseHandlers, ClientRequest

\* The interrupt-driven controller goes through the states of its diagram and no
\* others, and powers the motor inside a calibration or a movement only.
THEOREM Refinement == Spec => MotionImplemented
  <1>1. Init => Motion!Init
    BY DEF Init, Motion!Init, Mode
  <1>2. IInv /\ [Next]_vars => [Motion!Next]_(Motion!abstractVars)
    BY MotionStep
  <1>3. QED
    BY <1>1, <1>2, Invariant, PTL DEF Spec, MotionImplemented, Motion!Spec
=============================================================================
