SPECIFICATION TransferSpec
CONSTANTS
  Transfers <- ShortAndEmpty
  Packets <- AllPackets
  ChunkSize = 2
  WindowCapacity = 2
  WindowSize = 2
  MaxRetries = 1
  Rto = 1
  Timely = FALSE
  LossBudget = 0
  LocalErrors = {}
  Faults = {}
  MayStop = TRUE
  Inodes = {1, 2, 3, 4}
  SafeNames <- PlainNames
  MaxSessions = 2
  IdleTimeout = 0
  Linger = 0
  MaxOpened = 2
  MaxRefused = 1
  MaxStarts = 2
INVARIANTS
  SenderTypeOK
  SuccessMeansDelivered
PROPERTIES
  SenderTerminates
