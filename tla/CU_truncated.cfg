CONSTANTS
  Frame = 3
  Requests = 2
  Faults = 2
  Delays = 3
SPECIFICATION Spec
INVARIANT ResultTransmittedFirst
