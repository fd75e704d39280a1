SPECIFICATION FairSpec
CONSTANTS
  None = None
  Exchanges = {e1, e2}
  Subscribers = {e2}
  Prices = {1}
  ChannelCapacity = 1
  MaxBackoff = 3
INVARIANTS
  TypeOK
  PauseGrowsWithErrors
PROPERTIES
  ImplementsQuoteFeed
  RecoversFromOutage
  PingEventuallySettled
