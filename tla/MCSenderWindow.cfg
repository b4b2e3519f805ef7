SPECIFICATION Spec
CONSTANTS
  Capacity = 2
  Deadlines = {1, 2}
  MaxSequence = 3
  MaxGeneration = 5
INVARIANTS
  TypeOK
  WindowExact
  NoGhostIsLive
  GenerationsUnique
  TimerCoverage
  HandedIsDisarmed
  EarliestDeadlineExact
PROPERTY
  ImplementsSendWindow
