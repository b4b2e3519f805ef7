SPECIFICATION Spec
CONSTANTS
  Capacity = 5
  Modulus = 32
  Chunks = 13
INVARIANTS
  TypeOK
  RingExact
  ClassifyExact
  ObeyingSenderHeard
