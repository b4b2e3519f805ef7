SPECIFICATION LoopSpec
CONSTANTS
  Inodes = {1, 2, 3, 4}
  WindowSize = 2
  ChunkSize = 2
  SafeNames <- PlainNames
  Faults = {}
  Packets <- SharedIdPackets
  MaxSessions = 2
  IdleTimeout = 1
  Linger = 1
  MaxOpened = 2
  MaxRefused = 0
  MaxStarts = 1
INVARIANTS
  PublishedVerified
CHECK_DEADLOCK FALSE
