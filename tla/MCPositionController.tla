------------------------ MODULE MCPositionController ------------------------
(* Instances of PositionController for TLC. *)
EXTENDS PositionController

\* A carriage clear of both switches, and one that rests within reach of MIN.
InnerStarts == {3}
OneStart == {1}

ClientInputs == {"calibrate", "move"}
RestlessInputs == {"calibrate", "restChatter"}
=============================================================================
