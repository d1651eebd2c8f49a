SPECIFICATION FairSpec
CONSTANT N = 10
INVARIANTS
  TypeOK
  CompleteUnlessSignalled
  Accounted
PROPERTY EventuallyStops
CHECK_DEADLOCK FALSE
