\* Per part: three calls over a log of three records; three cache keys and loads; two frames; two
\* clusters with three topics, one of them internal; two groups; two openings of the Clusters page.
CONSTANTS
  Partition = {p1}
  First = p1
  Limit = 2
  LogEnd = 3
  MaxCalls = 3
  MaxTopics = 1
  Entry = {e1, e2}
  Single = {s1}
  MaxEntries = 1
  MaxLoads = 3
  MaxDrops = 1
  Frame = {f1, f2}
  Target = {t1}
  MaxSaves = 2
  MaxHealth = 1
  MaxOpens = 1
  Cluster = {c1, c2}
  Nothing = Nothing
  Name = {n1, n2, n3}
  Internal = {n3}
  Topic = {n1, n2}
  MaxAsks = 2
  MaxInquiries = 2
  GroupId = {g1, g2}
  MaxReads = 2
  Kubernetes = {k1}
  Page = {p1, p2}
  Found = {t1, t2}
  Endpoint = {m1}
  MaxApplies = 3
  MaxLooks = 3
SPECIFICATION FrameSpec
INVARIANTS
  FrameTypeOK
  ShowsItsContext
  TailIsGapless
  CachesAreFresh
PROPERTIES
  WritesWhatWasConfirmed
  NothingKnownIsLost
CHECK_DEADLOCK FALSE
