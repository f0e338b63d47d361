SPECIFICATION Spec
CONSTANTS
  Start = 1
  Delta = 2
  Length = 3
  Track = 7
  NumberOfSamples = 2
  Retries = 2
  MaxAttempts = 2
  Late = 0
  Faults = 3
  Stragglers = 0
INVARIANT StopStops
CHECK_DEADLOCK FALSE
