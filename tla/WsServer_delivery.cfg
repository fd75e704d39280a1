SPECIFICATION Spec
CONSTANTS
  Clients = {c1, c2}
  BroadcastCapacity = 2
  SocketCapacity = 1
  MaxTicks = 2
  MaxConnects = 1
INVARIANTS
  TypeOK
  ClientCount
  OrderedDelivery
  NoSilentGap
  CaughtUpKnowsCurrent
CHECK_DEADLOCK FALSE
SYMMETRY ClientSymmetry
CONSTRAINT OnePing
