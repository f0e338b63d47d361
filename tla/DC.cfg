SPECIFICATION Spec
CONSTANTS
  Start = 1
  Delta = 2
  Length = 3
  Track = 7
  NumberOfSamples = 2
  Retries = 2
  MaxAttempts = 2
  Late = 1
  Faults = 1
  Stragglers = 1
INVARIANTS TypeOK FiledWhereMeasured MeasurementComplete
PROPERTIES CollectionEnds
CHECK_DEADLOCK FALSE
