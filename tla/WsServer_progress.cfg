SPECIFICATION FairSpec
CONSTANTS
  Clients = {c1}
  BroadcastCapacity = 2
  SocketCapacity = 1
  MaxTicks = 3
  MaxConnects = 2
PROPERTIES
  AggregatorNotBlocked
  ReaderCatchesUp
CHECK_DEADLOCK FALSE
