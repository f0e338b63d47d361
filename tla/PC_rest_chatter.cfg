CONSTANTS
  Steps = 2
  MaxConst = 2
  Track = 10
  Starts <- OneStart
  Chatter = 1
  Margin = 0
  Modulus = 64
  CntBound = 14
  ErrorCap = 2
  Prompt = TRUE
  LatchRequests = FALSE
  Inputs <- RestlessInputs
SPECIFICATION Spec
INVARIANT MaxSearchGoesForward
CHECK_DEADLOCK FALSE
