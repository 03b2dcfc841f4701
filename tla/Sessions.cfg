\* Three keys for a pool of two: a change of key evicts, joins, clears and releases interleave,
\* and two leases can hold the pool above what an eviction could bring it down to.
CONSTANTS
  Key = {k1, k2, k3}
  Client = {p1, p2}
  Conn = {c1, c2, c3}
  MaxSessions = 2
  None = None
SPECIFICATION Spec
SYMMETRY Symmetry
INVARIANTS
  TypeOK
  LeasesCounted
  OnePerKey
  StaleNeverPooled
  IdleHasTimer
  
PROPERTIES
  ImplementsPool
  LeaseProtects
  EvictsColdest
