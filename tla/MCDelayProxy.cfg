SPECIFICATION Spec
CONSTANTS
  Impairments = {"loss", "burst", "corrupt", "reorder", "duplicate"}
  ImpairedWays = {"to_server"}
  Delay = 1
  IdleExit = 1
  MaxArrivals = 3
  MaxTime = 3
INVARIANTS
  OnlyJumpersOvertake
  DelayHonoured
  StatsAddUp
PROPERTY
  QueueDrains
CHECK_DEADLOCK FALSE
