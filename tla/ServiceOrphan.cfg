SPECIFICATION Spec
CONSTANTS
  Requests = {r1, r2}
  Instances = {i1}
  k1 = k1
  Keys = {k1}
  Calls <- MCCalls
  Times = {0}
  MaxConns = 2
  BadID = BadID
  NULL = NULL
SYMMETRY Symmetry
INVARIANT EveryLinkHasEvent
CHECK_DEADLOCK FALSE
