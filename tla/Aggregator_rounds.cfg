SPECIFICATION FairSpec
CONSTANTS
  None = None
  Exchanges = {e1}
  Prices = {100, 111}
  ChainlinkPrices = {100, 101, 110}
  Scale = 100
  VolatilityPeriod = 2
  BbMultiplier = 1
  RsiPeriod = 2
  RocPeriod = 1
  ChannelCapacity = 2
  PriceHistoryCapacity = 1
  FreshSecs = 0
  UnitsPerSec = 1
  SettleTolerance = 1
  MaxClock = 1
INVARIANTS
  SettlementTimesLastTrigger
PROPERTIES
  BaselineEventuallyPublished
  FeedNeverGoesBack
  QuoteEventuallyConsumed
  ImplementsQuoteFeed
