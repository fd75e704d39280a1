SPECIFICATION Spec
CONSTANTS
  None = None
  Exchanges = {e1, e2, e3}
  Prices = {1, 5}
  ChainlinkPrices = {100}
  Scale = 100
  VolatilityPeriod = 2
  BbMultiplier = 1
  RsiPeriod = 2
  RocPeriod = 1
  ChannelCapacity = 1
  PriceHistoryCapacity = 1
  FreshSecs = 0
  UnitsPerSec = 2
  SettleTolerance = 2
  MaxClock = 2
INVARIANTS
  OnlyFreshFeedsVote
  OneBadFeedOutvoted
CONSTRAINT QuietFeeds
SYMMETRY FeedSymmetry
