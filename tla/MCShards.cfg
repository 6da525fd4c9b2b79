SPECIFICATION Spec
CONSTANTS
  a = a  b = b  z = z  s = s  t = t  u = u  j = j
  Execs <- ShardExecs
  InPorts <- ShardIn
  OutPorts <- ShardOut
  Channels <- ShardChannels
  Pg = {a, t, u}
  Resultless = {}
  MaxParallel = 1
  Orders <- ShardOrders
  Options <- AllOptions
  MaxRuns = 2
INVARIANTS
  TypeOK
  InputsHeld
  QueriedOnce
  ChannelUsedOnce
  DeliveredWhenReleased
  FinishedMeansAllDone
  CancelClosesConnections
PROPERTIES
  CachedNotQueried
  KeepsPromise
CHECK_DEADLOCK FALSE
