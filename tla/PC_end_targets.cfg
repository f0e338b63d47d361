CONSTANTS
  Steps = 2
  MaxConst = 2
  Track = 10
  Starts <- InnerStarts
  Chatter = 0
  Margin = 0
  Modulus = 64
  CntBound = 14
  ErrorCap = 2
  Prompt = TRUE
  LatchRequests = FALSE
  Inputs <- ClientInputs
SPECIFICATION Spec
INVARIANT AcceptedMoveAvoidsSwitches
CHECK_DEADLOCK FALSE
