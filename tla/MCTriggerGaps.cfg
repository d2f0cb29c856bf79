SPECIFICATION Spec
CONSTANTS
  BPS_DENOMINATOR = 4
  I128_MAX = 20
  Params <- SeriesParams
  WindowIds = {w1}
  Days <- SeriesDays
  Values <- SeriesValues
  Medians <- SeriesMedians
  CHALLENGE_WINDOW_SECS = 1
  MaxIndexes = 1
  MaxTime = 2
INVARIANTS
  DryRunIsConsecutive
