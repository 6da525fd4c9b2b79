SPECIFICATION FairLoop
CONSTANTS
  a = a  b = b  z = z  s = s  t = t  u = u  j = j
  Execs <- LateExecs
  InPorts <- LateIn
  OutPorts <- LateOut
  Channels <- LateChannels
  Pg = {a, b, z}
  Resultless = {a, b}
  MaxParallel = 1
  Orders <- LateOrders
  Options <- AllOptions
  MaxRuns = 2
PROPERTIES
  Termination StopEndsRun
CHECK_DEADLOCK FALSE
