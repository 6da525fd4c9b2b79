SPECIFICATION FairSpec
CONSTANTS
  a = a  b = b  z = z  s = s  t = t  u = u  j = j
  Execs <- LateExecs
  InPorts <- LateIn
  OutPorts <- LateOut
  Channels <- LateChannels
  Pg = {a, b, z}
  Resultless = {}
  MaxParallel = 1
  Orders <- LateOrders
  Options <- Run
  MaxRuns = 1
PROPERTIES
  QueriesTimeOut
CHECK_DEADLOCK FALSE
