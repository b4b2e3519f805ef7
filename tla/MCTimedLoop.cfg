SPECIFICATION Spec
CONSTANTS
  Micro = 3
  Second = 2
  Rto = 9
  MaxRetries = 2
  Capacity = 2
  Total = 3
  Busy = 3
  Slack = 2
INVARIANT
  ServedInTime
PROPERTIES
  NotEarly
  GivesUp
CHECK_DEADLOCK FALSE
