\* A session with two pods, again and again: a kubectl that is slow to exit, its successor and
\* that of the other pod, and two sockets.
CONSTANTS
  Run = {r1, r2, r3}
  Signal = {s1}
  None = None
  Key = {k1, k2}
  SignalOf <- MCSignalOf
  Socket = {x1, x2}
SPECIFICATION FairSpec
INVARIANTS
  TypeOK
  NoneOutlives
  MapServes
  WaitsForOpening
PROPERTIES
  EveryTunnelEnds
CHECK_DEADLOCK FALSE
