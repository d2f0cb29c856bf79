SPECIFICATION FeedSpec
CONSTANTS
  BPS_DENOMINATOR = 4
  I128_MAX = 16
  Liar = liar
  Publishers = {p1, p2, liar}
  Liars <- MCLiars
  Readings <- MCValues
  Values <- MCValues
  Medians = {}
  Honest <- MCHonest
  RING_SIZE = 3
  MIN_PUBLISHERS = 2
  STALENESS = 0
  REGISTRY_TIMELOCK_SECS = 0
  U32_MAX = 3
  Params <- MCParams
  WindowIds = {w1}
  Days <- MCDays
  CHALLENGE_WINDOW_SECS = 1
  MaxIndexes = 1
  MaxTime = 1
SYMMETRY MCSymmetry
INVARIANTS
  LiarsOutvoted
