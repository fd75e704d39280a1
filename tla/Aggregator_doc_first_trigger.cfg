SPECIFICATION Spec
CONSTANTS
  None = None
  Exchanges = {e1}
  Prices = {100, 111}
  ChainlinkPrices = {100}
  Scale = 100
  VolatilityPeriod = 2
  BbMultiplier = 1
  RsiPeriod = 2
  RocPeriod = 1
  ChannelCapacity = 1
  PriceHistoryCapacity = 1
  FreshSecs = 2
  UnitsPerSec = 1
  SettleTolerance = 2
  MaxClock = 2
PROPERTIES
  FirstTriggerKept
CONSTRAINT QuietFeeds
