SPECIFICATION Spec
CONSTANTS
  MaxPayload = 4
  Packets <- AllPackets
  Fragile <- FragilePackets
  MaxRun = 31
INVARIANTS
  CorruptionDetected
  Exact
  ChecksumIsCrc32
CHECK_DEADLOCK FALSE
