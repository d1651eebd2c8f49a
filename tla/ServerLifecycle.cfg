SPECIFICATION FairSpec
CONSTANTS
  Requests = {r1, r2, r3}
  MaxConns = 2
  NULL = NULL
INVARIANTS
  TypeOK
  GracefulExit
  NoTransactionCut
PROPERTY EventuallyExits
CHECK_DEADLOCK FALSE
