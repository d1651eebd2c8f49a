\* Liveness needs the identity of the instances: no symmetry, and one fault.
SPECIFICATION FairSpec
CONSTANTS
  i1 = i1
  i2 = i2
  Instances = {i1, i2}
  Deployments <- MCDeployments
  Tokens <- MCTokens
  MaxAtoi = 20
  Rerunnable = {"2"}
  MaxInt4 = 2
  MaxFaults = 1
  NULL = NULL
INVARIANTS
  TypeOK
  ReadyMeansMigrated
  HistoryMatchesSchema
  TwiceOnlyAfterLoss
PROPERTIES
  AppliedInOrder
  EventuallyStarted
CHECK_DEADLOCK FALSE
