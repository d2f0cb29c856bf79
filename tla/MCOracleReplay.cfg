SPECIFICATION OracleSpec
CONSTANTS
  BPS_DENOMINATOR = 4
  I128_MAX = 3
  Publishers = {p1, p2}
  Readings <- MCValues
  RING_SIZE = 3
  MIN_PUBLISHERS = 2
  STALENESS = 0
  REGISTRY_TIMELOCK_SECS = 0
  U32_MAX = 4
  MaxTime = 1
SYMMETRY MCSymmetry
INVARIANTS
  NoDuplicates
