CONSTANTS
  Steps = 2
  MaxConst = 2
  Track = 14
  Starts <- InnerStarts
  Chatter = 1
  Margin = 4
  Modulus = 64
  CntBound = 18
  ErrorCap = 2
  Prompt = TRUE
  LatchRequests = FALSE
  Inputs <- ClientInputs
SPECIFICATION FairSpec
INVARIANTS CarriageTracked PulseErrorBounded NoOvertravel NoSpuriousStop MaxSearchGoesForward
PROPERTIES MovementEnds CalibrationSucceeds
CHECK_DEADLOCK FALSE
