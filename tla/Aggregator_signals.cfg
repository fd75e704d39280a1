SPECIFICATION Spec
CONSTANTS
  None = None
  Exchanges = {e1}
  Prices = {99, 106, 108, 110}
  ChainlinkPrices = {100, 110}
  Scale = 100
  VolatilityPeriod = 3
  BbMultiplier = 1
  RsiPeriod = 2
  RocPeriod = 1
  ChannelCapacity = 1
  PriceHistoryCapacity = 3
  FreshSecs = 0
  UnitsPerSec = 1
  SettleTolerance = 2
  MaxClock = 0
INVARIANTS
  TypeOK
  BatchDescribesSnapshot
  HistoryEndsWithMarket
PROPERTIES
  ImplementsEventStream
  ExpandingMeansWider
CONSTRAINT QuietFeeds
