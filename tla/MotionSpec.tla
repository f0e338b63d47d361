----------------------------- MODULE MotionSpec -----------------------------
(***************************************************************************)
(* What the position controller promises the rest of the machine, with no  *)
(* interrupts, timers or DMA in sight: the state diagram of                *)
(* position-controller/doc/state-diagram.docx, and the rule that the motor *)
(* is powered only inside a calibration or a movement.                     *)
(***************************************************************************)

VARIABLES
  mode,      \* the state of the diagram
  powered    \* the motor driver is enabled and is being given pulses

abstractVars == <<mode, powered>>

Modes == {"reset", "calibrating", "idle", "moving", "stopped"}

\* The modes in which the motor may turn.
Travelling == {"calibrating", "moving"}

Init == mode = "reset" /\ powered = FALSE

\* Arrow 2 of the diagram; the code also accepts it in the idle state.
Calibrate ==
  /\ mode \in {"reset", "idle"}
  /\ mode' = "calibrating"
  /\ powered' = TRUE

\* Arrow 4: only a calibrated, idle controller starts to move.
StartMoving ==
  /\ mode = "idle"
  /\ mode' = "moving"
  /\ powered' = TRUE

\* Calibration turns round at the switches: power goes off and on again.
Pause ==
  /\ mode \in Travelling
  /\ powered' = FALSE
  /\ UNCHANGED mode

Resume ==
  /\ mode = "calibrating"
  /\ powered' = TRUE
  /\ UNCHANGED mode

\* Arrows 3 and 5: the motor is off by the time idle is entered.
Arrive ==
  /\ mode \in Travelling
  /\ ~powered
  /\ mode' = "idle"
  /\ UNCHANGED powered

\* Arrows ES: A to ES: D.
Stop == mode' = "stopped" /\ powered' = FALSE

\* Arrows 1 and 6: only a hardware reset leaves the stopped state.
Restart == mode' = "reset" /\ powered' = FALSE

Next ==
  \/ Calibrate \/ StartMoving \/ Pause \/ Resume \/ Arrive
  \/ Stop \/ Restart

Spec == Init /\ [][Next]_abstractVars
=============================================================================
