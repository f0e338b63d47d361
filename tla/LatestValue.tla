----------------------------- MODULE LatestValue -----------------------------
(***************************************************************************)
(* What a shared buffer promises its two users: a register.  The producer  *)
(* replaces the latest value, in one indivisible step, by a newer one; the *)
(* consumer takes the latest value, which then stays as it took it until   *)
(* it takes another.  A value has several words.                           *)
(***************************************************************************)
EXTENDS Naturals

CONSTANT Words

VARIABLES
  latest,   \* the value last published
  taken     \* the value the consumer has

values == <<latest, taken>>

\* A word of a value is the number of the measurement it belongs to; 0 before any.
NoValue == [w \in Words |-> 0]

Init == latest = NoValue /\ taken = NoValue

\* The words published belong to one measurement, later than the one published.
Publish ==
  /\ latest' \in [Words -> Nat]
  /\ \A v, w \in Words : latest'[v] = latest'[w] /\ latest'[w] > latest[w]
  /\ UNCHANGED taken

Take == taken' = latest /\ UNCHANGED latest

Next == Publish \/ Take

Spec == Init /\ [][Next]_values
=============================================================================
