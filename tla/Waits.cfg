\* Two keys and a pool of one, so that calls wait for connects, for evictions and for one another's;
\* two security generations of one target with two requests that come again; two callers of the
\* group index; a request under a limit.
CONSTANTS
  Target = {t1}
  Key = {k1, k2}
  TargetOf <- MCTargetOf
  Request = {r1, r2}
  Worker = {w1, w2, w3}
  MaxEntries = 1
  None = None
  Group = {g1}
  MaxClears = 1
  Brokers = 2
  Callers = 2
  Use = {u1, u2}
  Client = {p1, p2}
  Conn = {c1, c2}
  MaxSessions = 1
SPECIFICATION WaitSpec
INVARIANTS
  TypeOK
  LiveWorkerOwned
  ReplacedInTurn
  WaitersHear
PROPERTIES
  EveryCallReturns
  EveryLoadEnds
  EveryCallEnds
CHECK_DEADLOCK FALSE
