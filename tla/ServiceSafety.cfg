SPECIFICATION Spec
CONSTANTS
  Requests = {r1, r2, r3}
  Instances = {i1, i2}
  k1 = k1
  Keys = {k1}
  Calls <- MCAllCalls
  Times = {0}
  MaxConns = 2
  BadID = BadID
  NULL = NULL
SYMMETRY Symmetry
INVARIANTS
  TypeOK
  OneLinkPerKey
  AcknowledgedIsDurable
  OneEventPerKey
  OrphanOnlyFromLostRace
  ConflictMeansOtherPayload
  NoImpossibleError
  PoolConserved
PROPERTY
  ImplementsPromise
CHECK_DEADLOCK FALSE
