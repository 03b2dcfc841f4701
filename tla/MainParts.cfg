\* Per part: an operation beside one of another frame; three callers of the index of one group; two
\* brokers, uses and disconnects; two workloads, visitors and scans; two groups and brokers with a
\* coordinator that moves; a log of two offsets; two topics, readers and leaders.
CONSTANTS
  Op = {o1}
  Foreign = {f1}
  Operations = 1
  PerOp = 2
  MaxEvents = 3
  Callers = 3
  Group = {g1}
  MaxClears = 1
  Brokers = 2
  Use = {u1, u2}
  Closer = {d1, d2}
  Asker = {a1, a2}
  Container <- MCContainer
  Override <- MCOverride
  Workloads = 2
  Visitors = 2
  MaxScans = 2
  Scanned = {g1, g2}
  Broker = {b1, b2}
  Width = 2
  MaxReads = 2
  MaxMoves = 1
  End = 2
  Limits = {1, 2}
  Preview = 1
  Response = 1
  MaxSize = 1
  Topic = {t1, t2}
  LogBroker = {n1}
  Reader = {r1, r2}
  Workers = 1
  Consumer = {g1}
  Part <- MCPart
  Node = {n1, n2}
SPECIFICATION MainSpec
INVARIANTS
  MainTypeOK
  ProgressIsHeard
  LimitIsClean
  ClosedOnceAndAll
  CredentialsAreSound
  TotalsAreBounds
  PagesAreGapless
PROPERTIES
  ScanServes
  AnswersAreHeeded
CHECK_DEADLOCK FALSE
