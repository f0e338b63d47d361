CONSTANTS
  Frame = 3
  Requests = 2
  Faults = 2
  Delays = 6
SPECIFICATION FairSpec
INVARIANTS TypeOK AnswerInStep
PROPERTIES ResponseKept Recovers
