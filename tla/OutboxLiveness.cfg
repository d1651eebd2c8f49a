SPECIFICATION FairSpec
CONSTANTS
  Processors = {p1, p2}
  Events = {e1, e2}
  Times = {1, 2}
  BatchSize = 1
  MaxFaults = 2
  NULL = NULL
PROPERTY EventuallyPublished
CHECK_DEADLOCK FALSE
