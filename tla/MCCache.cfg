SPECIFICATION FairPrepareSpec
CONSTANTS
  None = None
  Unsent = Unsent
  r1 = r1
  r2 = r2
  x = x
  y = y
  Request = {r1, r2}
  Executor = {x, y}
  Prefix = {1, 2}
  MaxAffinity = 3
  MaxClaims = 3
  Settings <- MCSettings
INVARIANTS
  PrepareSafe
  ResourcesAreCreated
  OneCreation
PROPERTIES
  SealedAffinityIsCurrent
  PreparationEnds
\* Every request may be sent and every executor idle: the system may stop.
CHECK_DEADLOCK FALSE
