\* Two settings of one target, two requests, an invalidation and the shutdown, with a pool
\* of one: a late request, its clean-up and the requests of the new settings overlap.
CONSTANTS
  Target = {t1}
  Key = {k1, k2}
  TargetOf <- MCTargetOf
  Request = {r1, r2}
  Invalidation = {i1}
  Shutdown = shutdown
  Conn = {c1, c2}
  MaxSessions = 1
  None = None
SPECIFICATION Spec
SYMMETRY Symmetry
INVARIANTS
  TypeOK
  ClosingIsFinal
  CalmUnharmed
\* After the shutdown nothing need happen any more.
CHECK_DEADLOCK FALSE
