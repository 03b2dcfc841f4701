\* One group, two topics and two brokers, as for the worker among the main parts.
CONSTANTS
  Consumer = {g1}
  Part <- MCPart
  Node = {n1, n2}
SPECIFICATION HealthSpec
INVARIANT
  CompleteIsExact
CHECK_DEADLOCK FALSE
