\* Two groups and two clusters: the reset drawer of one stays open beside another.
CONSTANTS
  Cluster = {c1, c2}
  GroupId = {g1, g2}
  Nothing = Nothing
  MaxReads = 2
SPECIFICATION GroupSpec
PROPERTIES
  ResetsWhatWasConfirmed
CHECK_DEADLOCK FALSE
