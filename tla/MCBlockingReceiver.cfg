SPECIFICATION BlockingSpec
CONSTANTS
  Transfers <- Both
  ChunkSize = 2
  WindowCapacity = 2
  WindowSize = 2
  MaxRetries = 2
  Rto = 1
  Timely = TRUE
  LocalErrors = {"kSendFailed"}
  Faults = {"write"}
  Inodes = {1, 2}
  SafeNames <- PlainNames
  IdleTimeout = 2
  ReceiverErrors = {"kReceiveFailed", "kSendFailed"}
  LossBudget = 1
  NoiseBudget = 1
INVARIANTS
  VerdictMatchesDisk
  SenderNeverAhead
  DisagreementNeedsLoss
PROPERTY
  BothReturn
CHECK_DEADLOCK FALSE
