SPECIFICATION OracleSpec
CONSTANTS
  BPS_DENOMINATOR = 4
  I128_MAX = 3
  Publishers = {p1, p2}
  Readings <- MCReadings
  RING_SIZE = 3
  MIN_PUBLISHERS = 2
  STALENESS = 1
  REGISTRY_TIMELOCK_SECS = 1
  U32_MAX = 4
  MaxTime = 2
SYMMETRY MCSymmetry
INVARIANTS
  OracleTypeOK
  PendingMatchesRegistry
  RingHoldsLatest
  FlagFollowsObservation
  MinorityIsBounded
  MedianIsCentral
PROPERTIES
  FlipsAreSpaced
