SPECIFICATION Spec
CONSTANTS
  BPS_DENOMINATOR = 4
  I128_MAX = 15
  Params <- LifecycleParams
  WindowIds = {w1}
  Days <- LifecycleDays
  Values <- LifecycleValues
  Medians <- LifecycleMedians
  CHALLENGE_WINDOW_SECS = 1
  MaxIndexes = 2
  MaxTime = 2
INVARIANTS
  ChallengeWindowKept
PROPERTIES
  FrozenOnceTriggered
  ImplementsDecision
