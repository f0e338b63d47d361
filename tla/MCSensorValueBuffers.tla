------------------------ MODULE MCSensorValueBuffers ------------------------
(* An instance of SensorValueBuffers for TLC. *)
EXTENDS SensorValueBuffers

\* Words are interchangeable: each is copied and compared alike.
CONSTANTS w1, w2, w3
ThreeWords == {w1, w2, w3}
=============================================================================
