\* One key is enough for requests, an invalidation and the shutdown to wait for one another.
CONSTANTS
  Target = {t1}
  Key = {k1}
  TargetOf <- MCTargetOf
  Request = {r1, r2}
  Invalidation = {i1}
  Shutdown = shutdown
  Conn = {c1, c2}
  MaxSessions = 1
  None = None
SPECIFICATION FairSpec
PROPERTIES
  EveryWaitEnds
CHECK_DEADLOCK FALSE
