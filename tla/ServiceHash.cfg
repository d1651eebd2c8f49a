SPECIFICATION Spec
CONSTANTS
  Requests = {r1, r2}
  Instances = {i1}
  k1 = k1
  Keys = {k1}
  Calls <- BarCalls
  Times = {0}
  MaxConns = 2
  BadID = BadID
  NULL = NULL
SYMMETRY Symmetry
INVARIANT ReplayMeansSamePayload
CHECK_DEADLOCK FALSE
