SPECIFICATION FairSpec
CONSTANTS
  None = None
  Exchanges = {e1}
  Subscribers = {}
  Prices = {1}
  ChannelCapacity = 1
  MaxBackoff = 1
PROPERTIES
  StatusShowsConnection
