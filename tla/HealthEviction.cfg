\* Two security generations of one target and one entry at most: the second key evicts the first.
CONSTANTS
  Target = {t1}
  Key = {k1, k2}
  TargetOf <- MCTargetOf
  Request = {r1, r2, r3}
  Worker = {w1, w2, w3}
  MaxEntries = 1
  None = None
SPECIFICATION Spec
SYMMETRY Symmetry
INVARIANT
  OneWorkerPerGeneration
CHECK_DEADLOCK FALSE
