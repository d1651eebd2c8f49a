SPECIFICATION Spec
CONSTANTS
  Processors = {p1, p2}
  Events = {e1, e2, e3}
  Times = {1, 2}
  BatchSize = 2
  MaxFaults = 2
  NULL = NULL
SYMMETRY Symmetry
INVARIANTS
  TypeOK
  PublishedWasDelivered
  ExclusiveClaim
  DuplicatesOnlyFromFaults
PROPERTY PublishedIsFinal
CHECK_DEADLOCK FALSE
