SPECIFICATION Spec
CONSTANTS
  Capacity = 5
  Modulus = 16
  Chunks = 15
INVARIANTS
  ObeyingSenderHeard
