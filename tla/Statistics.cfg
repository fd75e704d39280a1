SPECIFICATION Spec
CONSTANTS
  None = None
  Prices = {1, 2, 5, 9, 10}
  Scale = 10
  VolatilityPeriod = 3
  BbMultiplier = 1
  RsiPeriod = 2
  RocPeriod = 1
  MaxLength = 5
INVARIANTS
  MedianIsSortedMiddle
  EmaIsWeightedMean
  MacdFollowsTrend
  RsiMirrors
PROPERTIES
  MedianIsMonotone
