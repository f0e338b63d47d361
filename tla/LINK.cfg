SPECIFICATION Spec
CONSTANTS
  Faults = 2
INVARIANTS TypeOK AcceptedIsFresh
PROPERTIES TaskWritesOwnResponse Recovers
CHECK_DEADLOCK FALSE
