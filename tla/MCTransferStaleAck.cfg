SPECIFICATION TransferSpec
CONSTANTS
  Transfers <- OnePort
  Packets <- AllPackets
  ChunkSize = 2
  WindowCapacity = 2
  WindowSize = 2
  MaxRetries = 1
  Rto = 1
  Timely = FALSE
  LossBudget = 0
  LocalErrors = {}
  Faults = {}
  MayStop = FALSE
  Inodes = {1, 2, 3, 4}
  SafeNames <- PlainNames
  MaxSessions = 2
  IdleTimeout = 1
  Linger = 1
  MaxOpened = 2
  MaxRefused = 1
  MaxStarts = 1
INVARIANT
  AcksAreOwn
