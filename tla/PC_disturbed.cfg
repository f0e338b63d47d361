CONSTANTS
  Steps = 2
  MaxConst = 2
  Track = 7
  Starts <- InnerStarts
  Chatter = 1
  Margin = 0
  Modulus = 16
  CntBound = 10
  ErrorCap = 1
  Prompt = TRUE
  LatchRequests = FALSE
  Inputs <- AllInputs
SPECIFICATION Spec
INVARIANTS StoppedIsOff IInv
PROPERTY MotionImplemented
CHECK_DEADLOCK FALSE
