SPECIFICATION Spec
CONSTANTS
  MAX_NUMBER_OF_SCHEDULED_TASKS = 3
  HighestPriority = 2
  NormalPriority = 1
INVARIANT IdleOnlyWhenNothingLeft
CHECK_DEADLOCK FALSE
