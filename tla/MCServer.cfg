SPECIFICATION LoopSpec
CONSTANTS
  Inodes = {1, 2, 3, 4, 5, 6}
  WindowSize = 2
  ChunkSize = 2
  SafeNames <- AcceptedNames
  Faults = {"open", "write", "sync", "read", "rename"}
  Packets <- BusyPackets
  MaxSessions = 1
  IdleTimeout = 1
  Linger = 0
  MaxOpened = 3
  MaxRefused = 1
  MaxStarts = 2
INVARIANTS
  TypeOK
  TableBounded
  DescriptorsBounded
  Accounting
  PartialsOwned
  PublishedVerified
PROPERTIES
  SettledIsFinal
  PublishedStays
  LingerEnds
CHECK_DEADLOCK FALSE
