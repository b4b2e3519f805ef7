SPECIFICATION TransferSpec
CONSTANTS
  Transfers <- LongAndRefused
  Packets <- AllPackets
  ChunkSize = 2
  WindowCapacity = 2
  WindowSize = 2
  MaxRetries = 3
  Rto = 1
  Timely = TRUE
  LossBudget = 5
  LocalErrors = {"kSendFailed"}
  Faults = {}
  MayStop = FALSE
  Inodes = {1, 2, 3, 4}
  SafeNames <- PlainNames
  MaxSessions = 1
  IdleTimeout = 3
  Linger = 3
  MaxOpened = 2
  MaxRefused = 4
  MaxStarts = 1
INVARIANT
  SomebodyHome
PROPERTY
  EventuallyRightVerdict
