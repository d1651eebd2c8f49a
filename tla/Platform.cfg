\* One process with a single connection for its requests and its processor.
SPECIFICATION PlatformFairSpec
CONSTANTS
  Requests = {r1, r2}
  Instances = {i1}
  k1 = k1
  Keys = {k1}
  Calls <- PlatformCalls
  Times = {0}
  MaxConns = 1
  BatchSize = 1
  MaxFaults = 1
  BadID = BadID
  NULL = NULL
INVARIANTS
  AnnouncedIsCommitted
  SharedPoolConserved
PROPERTIES
  ImplementsOutbox
  ImplementsService
  EventuallyAnswered
  EventuallyAnnounced
CHECK_DEADLOCK FALSE
